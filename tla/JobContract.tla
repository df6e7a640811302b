---------------------------- MODULE JobContract ----------------------------
(***************************************************************************)
(* What the simulation service promises a client about one job, whatever   *)
(* the threads and processes behind it do.  A job is accepted once, with a *)
(* number of models; every model is answered at most once, by appending    *)
(* one entry to the outcome log; the job is announced as terminal in the   *)
(* very step that answers its last model, and only an announced job may be *)
(* forgotten.  Nothing is ever taken back: a client that has read a        *)
(* terminal status and then reads the log has read all of it.              *)
(***************************************************************************)
EXTENDS Integers, Sequences

CONSTANTS
  Jobs,             (* job identifiers                                     *)
  MaxModels         (* largest number of models in one request             *)

VARIABLES
  accepted,         (* number of models of each job, 0 before acceptance   *)
  log,              (* outcome log of each job                             *)
  announced,        (* jobs whose status reads as terminal                 *)
  forgotten         (* jobs that have expired                              *)

contractVars == <<accepted, log, announced, forgotten>>


(* The models a sequence of entries answers.                               *)
ModelsIn(entries) == {entries[k].model : k \in DOMAIN entries}

ContractInit ==
  /\ accepted = [j \in Jobs |-> 0]
  /\ log = [j \in Jobs |-> <<>>]
  /\ announced = {}
  /\ forgotten = {}

Accept(j) ==
  /\ accepted[j] = 0
  /\ \E n \in 1..MaxModels : accepted' = [accepted EXCEPT ![j] = n]
  /\ UNCHANGED <<log, announced>>

(* One or more models are answered, each for the first time; the status    *)
(* turns terminal exactly when none is left.                               *)
Answer(j) ==
  /\ accepted[j] > 0
  /\ j \notin announced
  /\ log'[j] # log[j]
  /\ log' = [log EXCEPT ![j] = log'[j]]
  /\ SubSeq(log'[j], 1, Len(log[j])) = log[j]
  /\ \A k, m \in 1..Len(log'[j]) :
       log'[j][k].model = log'[j][m].model => k = m
  /\ ModelsIn(log'[j]) \subseteq 1..accepted[j]
  /\ announced' = IF ModelsIn(log'[j]) = 1..accepted[j]
                    THEN announced \cup {j}
                    ELSE announced
  /\ UNCHANGED accepted

(* Expiry happens on its own or together with any other operation.         *)
Forget ==
  /\ forgotten \subseteq forgotten'
  /\ forgotten' \subseteq announced

ContractNext ==
  /\ Forget
  /\ \/ \E j \in Jobs \ forgotten' : Accept(j) \/ Answer(j)
     \/ UNCHANGED <<accepted, log, announced>>

ContractSpec == ContractInit /\ [][ContractNext]_contractVars

=============================================================================
