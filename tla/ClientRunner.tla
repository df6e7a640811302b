---------------------------- MODULE ClientRunner ----------------------------
(***************************************************************************)
(* The Python client: runners that submit a batch of models to a service   *)
(* and poll it for results, and the one local service which a process      *)
(* starts for those that have no configured address.  The gateway of the   *)
(* web application owns that service in the same way as a runner does, and *)
(* makes its calls in RunCoordinator.                                      *)
(*                                                                         *)
(* Runners are used by several threads.  The local service is started by   *)
(* the first owner, under the lock that all owners need, and stopped by    *)
(* the last one after it left the lock, when another owner may already be  *)
(* starting the next service.  What a service does for the job of a runner *)
(* are steps of JobContract; a runner executes one batch.                  *)
(***************************************************************************)
EXTENDS Integers, Sequences, FiniteSets

CONSTANTS
  Runners,            (* instances of SimulationRunner                      *)
  Gateway,            (* the application's gateway                          *)
  Null,
  MaxModels,          (* bound: models in a batch                           *)
  MaxServices         (* bound: local services started in a behaviour       *)

ASSUME RunnerAssumption ==
  /\ IsFiniteSet(Runners)
  /\ Gateway \notin Runners /\ Null \notin Runners \cup {Gateway} \cup 0..MaxServices
  /\ MaxModels \in Nat \ {0}
  /\ MaxServices \in Nat \ {0}

Owners == Runners \cup {Gateway}
Services == 1..MaxServices
Configured == 0               (* stands for a configured service address    *)

VARIABLES
  at,                 (* where each owner is between creation and close     *)
  uses,               (* the service it uses, or is about to stop           *)
  service, owners,    (* _service and _owners                               *)
  lock,               (* the owner that starts a service under _lock        *)
  server,             (* life of each local service                         *)
  process,            (* the process is running, exiting or cleaned up      *)
  call,               (* where the execution of each runner stands          *)
  cursor, seen,       (* its cursor, and the outcomes it was given          *)
  late,               (* its deadline has passed                            *)
  accepted, log, announced, forgotten    (* the services, see JobContract   *)

localVars == <<at, uses, service, owners, lock, server, process>>
clientVars == <<call, cursor, seen, late>>
jobVars == <<accepted, log, announced, forgotten>>
vars == <<localVars, clientVars, jobVars>>

Jobs == INSTANCE JobContract WITH Jobs <- Runners

Places == {"new", "starting", "abandoning", "open", "closing", "taken", "joining",
           "closed", "refused"}
Waiting == {"page", "status", "sleep"}
Results == {"returned", "batch_error", "cancelled", "timed_out", "failed", "omitted"}

RunnerTypeOK ==
  /\ at \in [Owners -> Places]
  /\ uses \in [Owners -> Services \cup {Configured, Null}]
  /\ service \in Services \cup {Null}
  /\ owners \in 0..Cardinality(Owners)
  /\ lock \in Owners \cup {Null}
  /\ server \in [Services -> {"none", "starting", "up", "exiting", "gone"}]
  /\ process \in {"running", "exiting", "cleaned"}
  /\ call \in [Runners -> {"none"} \cup Waiting \cup Results]
  /\ cursor \in [Runners -> 0..MaxModels]
  /\ late \in [Runners -> BOOLEAN]

Init ==
  /\ at = [o \in Owners |-> "new"]
  /\ uses = [o \in Owners |-> Null]
  /\ service = Null /\ owners = 0 /\ lock = Null
  /\ server = [n \in Services |-> "none"]
  /\ process = "running"
  /\ call = [r \in Runners |-> "none"]
  /\ cursor = [r \in Runners |-> 0]
  /\ seen = [r \in Runners |-> <<>>]
  /\ late = [r \in Runners |-> FALSE]
  /\ Jobs!ContractInit

-----------------------------------------------------------------------------
(* The local service and its owners                                        *)

Go(o, place) == at' = [at EXCEPT ![o] = place]

(* should_exit: a server that has ended by itself stays so.                *)
AskToExit(n) ==
  server' = [server EXCEPT ![n] = IF @ \in {"starting", "up"} THEN "exiting" ELSE @]

Enters(o) == at[o] = "new" /\ process = "running"

UseConfigured(o) ==
  /\ Enters(o)
  /\ Go(o, "open") /\ uses' = [uses EXCEPT ![o] = Configured]
  /\ UNCHANGED <<service, owners, lock, server, process, clientVars, jobVars>>

AcquireRunning(o) ==
  /\ Enters(o)
  /\ lock = Null /\ service # Null
  /\ owners' = owners + 1
  /\ Go(o, "open") /\ uses' = [uses EXCEPT ![o] = service]
  /\ UNCHANGED <<service, lock, server, process, clientVars, jobVars>>

(* The constructor and start run inside the lock.                          *)
AcquireStarts(o) ==
  /\ Enters(o)
  /\ lock = Null /\ service = Null
  /\ \E n \in Services :
       /\ \A m \in Services : server[m] = "none" <=> m >= n
       /\ server' = [server EXCEPT ![n] = "starting"]
       /\ uses' = [uses EXCEPT ![o] = n]
  /\ lock' = o
  /\ Go(o, "starting")
  /\ UNCHANGED <<service, owners, process, clientVars, jobVars>>

StartReturns(o) ==
  /\ at[o] = "starting" /\ server[uses[o]] = "up"
  /\ service' = uses[o] /\ owners' = owners + 1
  /\ lock' = Null
  /\ Go(o, "open")
  /\ UNCHANGED <<uses, server, process, clientVars, jobVars>>

(* Not ready in time, or its thread has ended.                             *)
StartGivesUp(o) ==
  /\ at[o] = "starting"
  /\ AskToExit(uses[o])
  /\ Go(o, "abandoning")
  /\ UNCHANGED <<uses, service, owners, lock, process, clientVars, jobVars>>

AbandonReturns(o) ==
  /\ at[o] = "abandoning"
  /\ lock' = Null
  /\ Go(o, "refused") /\ uses' = [uses EXCEPT ![o] = Null]
  /\ UNCHANGED <<service, owners, server, process, clientVars, jobVars>>

(* close, by any thread, or the finalizer of a runner that was dropped:    *)
(* the connection is closed first.  At exit only finalizers run.           *)
Close(o) ==
  /\ at[o] = "open"
  /\ process = "running" \/ o \in Runners
  /\ Go(o, IF uses[o] = Configured THEN "closed" ELSE "closing")
  /\ UNCHANGED <<uses, service, owners, lock, server, process, clientVars, jobVars>>

\* Mutant: every release takes the service along.
LastOwnerAlways == TRUE
LastOwner == owners = 1

\* Mutant: a release after the cleanup is counted.
FewerAlways == owners - 1
Fewer == IF owners = 0 THEN 0 ELSE owners - 1

(* The last owner takes the service out of reach and stops it outside the  *)
(* lock.  After the process has cleaned up there is nothing to release.    *)
Release(o) ==
  /\ at[o] = "closing" /\ lock = Null
  /\ owners' = Fewer
  /\ IF owners > 0 /\ LastOwner /\ service # Null
       THEN /\ service' = Null /\ uses' = [uses EXCEPT ![o] = service]
            /\ Go(o, "taken")
       ELSE Go(o, "closed") /\ UNCHANGED <<uses, service>>
  /\ UNCHANGED <<lock, server, process, clientVars, jobVars>>

Stop(o) ==
  /\ at[o] = "taken"
  /\ AskToExit(uses[o])
  /\ Go(o, "joining")
  /\ UNCHANGED <<uses, service, owners, lock, process, clientVars, jobVars>>

(* The server's thread has ended, or five seconds have passed.             *)
JoinReturns(o) ==
  /\ at[o] = "joining"
  /\ Go(o, "closed")
  /\ UNCHANGED <<uses, service, owners, lock, server, process, clientVars, jobVars>>

ServerComesUp(n) ==
  /\ server[n] = "starting"
  /\ server' = [server EXCEPT ![n] = "up"]
  /\ UNCHANGED <<at, uses, service, owners, lock, process, clientVars, jobVars>>

(* Startup fails, or the server was asked to exit.                         *)
ServerEnds(n) ==
  /\ server[n] \in {"starting", "exiting"}
  /\ server' = [server EXCEPT ![n] = "gone"]
  /\ UNCHANGED <<at, uses, service, owners, lock, process, clientVars, jobVars>>

(* The interpreter exits when no thread is inside an operation.            *)
Exit ==
  /\ process = "running"
  /\ \A o \in Owners : at[o] \in {"new", "open", "closed", "refused"}
  /\ \A r \in Runners : call[r] \notin Waiting
  /\ process' = "exiting"
  /\ UNCHANGED <<at, uses, service, owners, lock, server, clientVars, jobVars>>

(* _cleanup, before or after the finalizers of runners still open.         *)
Cleanup ==
  /\ process' = "cleaned"
  /\ service' = Null /\ owners' = 0
  /\ IF service = Null THEN UNCHANGED server ELSE AskToExit(service)

AtExit ==
  /\ process = "exiting" /\ lock = Null
  /\ Cleanup
  /\ UNCHANGED <<at, uses, lock, clientVars, jobVars>>

-----------------------------------------------------------------------------
(* An execution                                                            *)

Reachable(r) ==
  at[r] = "open" /\ uses[r] \in {Configured} \cup {n \in Services : server[n] = "up"}

Becomes(r, place) == call' = [call EXCEPT ![r] = place]

(* The variables of execute last as long as it does.                       *)
Ends(r, result) ==
  /\ Becomes(r, result)
  /\ cursor' = [cursor EXCEPT ![r] = 0]
  /\ seen' = [seen EXCEPT ![r] = <<>>]
  /\ late' = [late EXCEPT ![r] = FALSE]

(* An accepted batch whose answer is lost goes on without the client.      *)
Submit(r) ==
  /\ call[r] = "none" /\ at[r] = "open" /\ process = "running"
  /\ \/ Reachable(r) /\ Jobs!Accept(r) /\ (Becomes(r, "page") \/ Becomes(r, "failed"))
     \/ Becomes(r, "failed") /\ UNCHANGED <<accepted, log, announced>>
  /\ UNCHANGED <<localVars, cursor, seen, late, forgotten>>

(* Unreachable, timed out, closed by another thread, expired, malformed.   *)
RequestFails(r) ==
  /\ call[r] = "status" \/ (call[r] = "page" /\ ~late[r])
  /\ Ends(r, "failed")
  /\ UNCHANGED <<localVars, jobVars>>

Known(r) == Reachable(r) /\ r \notin forgotten

Page(r) == SubSeq(log[r], cursor[r] + 1, Len(log[r]))

ReadPage(r) ==
  /\ call[r] = "page" /\ ~late[r] /\ Known(r)
  /\ seen' = [seen EXCEPT ![r] = @ \o Page(r)]
  /\ cursor' = [cursor EXCEPT ![r] = Len(log[r])]
  /\ Becomes(r, "status")
  /\ UNCHANGED <<localVars, late, jobVars>>

SeenAs(r, v) == {o.model : o \in {seen[r][i] : i \in {j \in DOMAIN seen[r] :
                                                        seen[r][j].verdict = v}}}

(* What execute returns or raises once it has left the loop.               *)
Outcome(r) ==
  LET results == Cardinality(SeenAs(r, "succeeded"))
      errors == Cardinality(SeenAs(r, "failed"))
  IN IF results + errors # accepted[r] THEN "omitted"
     ELSE IF errors > 0 THEN "batch_error" ELSE "returned"

WasCancelled(r) == \E i \in DOMAIN log[r] : log[r][i].verdict = "cancelled"

\* Mutant: a terminal status ends the loop whatever has been read.
AfterStatusAtOnce(r) ==
  IF r \notin announced THEN "sleep"
  ELSE IF WasCancelled(r) THEN "cancelled" ELSE Outcome(r)

(* A terminal status with outcomes still unread asks for another page.     *)
AfterStatus(r) ==
  IF r \notin announced THEN "sleep"
  ELSE IF cursor[r] < accepted[r] THEN "page"
  ELSE IF WasCancelled(r) THEN "cancelled" ELSE Outcome(r)

ReadStatus(r) ==
  /\ call[r] = "status" /\ Known(r)
  /\ LET next == AfterStatus(r)
     IN IF next \in Waiting
          THEN Becomes(r, next) /\ UNCHANGED <<cursor, seen, late>>
          ELSE Ends(r, next)
  /\ UNCHANGED <<localVars, jobVars>>

Wake(r) ==
  /\ call[r] = "sleep"
  /\ Becomes(r, "page")
  /\ UNCHANGED <<localVars, cursor, seen, late, jobVars>>

\* Mutant: the deadline is not looked at.
GiveUpNever(r) == FALSE /\ UNCHANGED vars

(* The deadline is looked at at the top of the loop only.                  *)
GiveUp(r) ==
  /\ call[r] = "page" /\ late[r]
  /\ Ends(r, "timed_out")
  /\ UNCHANGED <<localVars, jobVars>>

DeadlinePasses(r) ==
  /\ call[r] \in Waiting /\ ~late[r]
  /\ late' = [late EXCEPT ![r] = TRUE]
  /\ UNCHANGED <<localVars, call, cursor, seen, jobVars>>

-----------------------------------------------------------------------------
(* The service, as far as an execution can tell: its steps while one runs.  *)

OpenModels(r) == (1..accepted[r]) \ {log[r][i].model : i \in DOMAIN log[r]}

ServiceAnswers(r) ==
  /\ call[r] \in Waiting /\ Reachable(r)
  /\ \E i \in OpenModels(r), v \in {"succeeded", "failed"} :
       log' = [log EXCEPT ![r] = Append(@, [model |-> i, verdict |-> v])]
  /\ Jobs!Answer(r)
  /\ UNCHANGED <<localVars, clientVars, forgotten>>

(* Somebody else cancels the job: all open models are answered at once.    *)
ServiceCancels(r) ==
  /\ call[r] \in Waiting /\ Reachable(r)
  /\ log' = [log EXCEPT ![r] = @ \o
               [i \in 1..Cardinality(OpenModels(r)) |->
                  [model |-> CHOOSE m \in OpenModels(r) :
                               Cardinality({n \in OpenModels(r) : n < m}) = i - 1,
                   verdict |-> "cancelled"]]]
  /\ Jobs!Answer(r)
  /\ UNCHANGED <<localVars, clientVars, forgotten>>

ServiceForgets(r) ==
  /\ call[r] \in Waiting /\ r \in announced \ forgotten
  /\ forgotten' = forgotten \cup {r}
  /\ UNCHANGED <<localVars, clientVars, accepted, log, announced>>

-----------------------------------------------------------------------------
(* The whole                                                               *)

OwnerStep(o) ==
  StartReturns(o) \/ StartGivesUp(o) \/ AbandonReturns(o) \/ Release(o) \/ Stop(o)
    \/ JoinReturns(o)

ExecutionStep(r) ==
  ReadPage(r) \/ ReadStatus(r) \/ RequestFails(r) \/ Wake(r) \/ GiveUp(r)

Next ==
  \/ \E o \in Owners :
       UseConfigured(o) \/ AcquireRunning(o) \/ AcquireStarts(o) \/ OwnerStep(o) \/ Close(o)
  \/ \E n \in Services : ServerComesUp(n) \/ ServerEnds(n)
  \/ Exit \/ AtExit
  \/ \E r \in Runners :
       \/ Submit(r) \/ ExecutionStep(r) \/ DeadlinePasses(r)
       \/ ServiceAnswers(r) \/ ServiceCancels(r) \/ ServiceForgets(r)

Spec == Init /\ [][Next]_vars

(* Threads are scheduled, calls and waits have time limits, and a server   *)
(* that was asked to exit ends.  Nothing is assumed of the service's work. *)
LiveSpec ==
  /\ Spec
  /\ \A o \in Owners : WF_vars(OwnerStep(o))
  /\ \A n \in Services : WF_vars(ServerEnds(n))
  /\ WF_vars(AtExit)
  /\ \A r \in Runners : WF_vars(ExecutionStep(r)) /\ WF_vars(DeadlinePasses(r))

-----------------------------------------------------------------------------
(* Properties                                                              *)

Served(o) == at[o] \in {"open", "closing"} /\ uses[o] # Configured

(* Between acquire and release an owner's service is up, and it is the     *)
(* current one; the count is that of the owners, and a service is current  *)
(* exactly while it has some.  Before the process has cleaned up.          *)
OpenIsServed ==
  process # "cleaned" =>
    /\ owners = Cardinality({o \in Owners : Served(o)})
    /\ service = Null <=> owners = 0
    /\ \A o \in Owners : Served(o) => uses[o] = service /\ server[service] = "up"

(* What execute tells is what became of the batch: results if all models   *)
(* succeeded, the failed ones beside the others, a cancellation if there   *)
(* was one; a terminal batch never has an outcome omitted.  On the way it  *)
(* is given every outcome up to its cursor once and in order, which is     *)
(* what its progress bar shows.                                            *)
OutcomesOnce(r) == seen[r] = SubSeq(log[r], 1, cursor[r])

ResultsTruthful ==
  \A r \in Runners :
    LET verdicts == [m \in Jobs!ModelsIn(log[r]) |->
                       (CHOOSE o \in {log[r][i] : i \in DOMAIN log[r]} : o.model = m).verdict]
        complete == DOMAIN verdicts = 1..accepted[r]
        verdictsSeen == {verdicts[m] : m \in DOMAIN verdicts}
    IN /\ OutcomesOnce(r)
       /\ call[r] # "omitted"
       /\ call[r] = "returned" => complete /\ verdictsSeen = {"succeeded"}
       /\ call[r] = "batch_error" =>
            complete /\ "failed" \in verdictsSeen /\ "cancelled" \notin verdictsSeen
       /\ call[r] = "cancelled" => complete /\ "cancelled" \in verdictsSeen

(* Every execution ends, even if its batch never does, and a local service *)
(* that is not the current one, or no longer, ends.                        *)
RunnersEnd ==
  /\ \A r \in Runners : call[r] \in Waiting ~> call[r] \in Results
  /\ \A n \in Services :
       server[n] \in {"starting", "up", "exiting"} /\ service # n
         ~> server[n] = "gone" \/ service = n
  /\ process = "exiting" ~> \A n \in Services : server[n] \in {"none", "gone"}

=============================================================================
