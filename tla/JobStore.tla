------------------------------ MODULE JobStore ------------------------------
(***************************************************************************)
(* The in-memory job store of the simulation service: jobs, the states of  *)
(* their models, the append-only outcome log clients page through, byte    *)
(* accounting, idempotent submission and expiry.  Every method of          *)
(* InMemoryJobStore runs under one lock, so each is one action here; each  *)
(* begins by pruning the jobs whose time to live is over, as _prune does.  *)
(*                                                                         *)
(* A job that was pruned leaves "present"; what the other functions say of *)
(* it is history that no operation reads any more.                         *)
(***************************************************************************)
EXTENDS Integers, Sequences, FiniteSets, FiniteSetsExt

CONSTANTS
  Jobs,               (* identifiers uuid4 will hand out                    *)
  MaxModels,          (* ServiceSettings.max_models                         *)
  SubmissionIds,      (* client-supplied deduplication identifiers          *)
  Fingerprints,       (* digests of request payloads                        *)
  ResultSizes,        (* serialised sizes a model result may have           *)
  MaxActive,          (* max_active_jobs                                    *)
  MaxQueued,          (* max_queued_jobs                                    *)
  MaxRetainedJobs,    (* max_retained_jobs                                  *)
  MaxRetainedBytes,   (* max_retained_bytes                                 *)
  MaxJobBytes,        (* max_job_outcome_bytes                              *)
  MaxModelBytes,      (* max_model_outcome_bytes                            *)
  MayExpire,          (* bound: the jobs whose time to live may elapse      *)
  None                (* absence of a value                                 *)

(* __post_init__ of the settings rejects limits that are not positive.     *)
ASSUME StoreAssumption ==
  /\ MaxModels \in Nat \ {0}
  /\ MaxActive \in Nat \ {0}
  /\ MaxQueued \in Nat \ {0}
  /\ MaxRetainedJobs \in Nat \ {0}
  /\ MaxRetainedBytes \in Nat \ {0}
  /\ MaxJobBytes \in Nat \ {0}
  /\ MaxModelBytes \in Nat \ {0}
  /\ ResultSizes \subseteq Nat \ {0}
  /\ MayExpire \subseteq Jobs
  /\ None \notin (Fingerprints \X Jobs) \cup SubmissionIds

VARIABLES
  present,            (* keys of _jobs                                      *)
  size,               (* number of models, 0 until the job is created       *)
  model,              (* _Job.states, one entry per task <<job, index>>     *)
  status,             (* _Job.status                                        *)
  outcomes,           (* _Job.outcomes, the cursor being the position       *)
  bytes,              (* _Job.result_bytes                                  *)
  terminal,           (* terminal_at is set                                 *)
  overdue,            (* terminal_at lies job_ttl_seconds or more back      *)
  submissions         (* _submissions: fingerprint and job of an identifier *)

storeVars == <<present, size, model, status, outcomes, bytes, terminal,
               overdue, submissions>>

Models == 1..MaxModels
Tasks == Jobs \X Models
NoResult == 0                         \* a model that returned no result
Results == ResultSizes \cup {NoResult}

OpenStates == {"queued", "running"}
ModelStates == OpenStates \cup {"succeeded", "failed", "cancelled"}
TerminalStatuses == {"completed", "completed_with_errors", "cancelled"}
Statuses == OpenStates \cup TerminalStatuses

TasksOf(j) == {t \in Tasks : t[1] = j /\ t[2] <= size[j]}
OpenModels(j) == {i \in 1..size[j] : model[<<j, i>>] \in OpenStates}

StoreTypeOK ==
  /\ present \in SUBSET Jobs
  /\ size \in [Jobs -> 0..MaxModels]
  /\ model \in [Tasks -> ModelStates]
  /\ status \in [Jobs -> Statuses]
  /\ outcomes \in [Jobs -> Seq([model : Models, verdict : ModelStates])]
  /\ bytes \in [Jobs -> Nat]
  /\ terminal \in [Jobs -> BOOLEAN]
  /\ overdue \in SUBSET Jobs
  /\ submissions \in [SubmissionIds -> (Fingerprints \X Jobs) \cup {None}]

StoreInit ==
  /\ present = {}
  /\ size = [j \in Jobs |-> 0]
  /\ model = [t \in Tasks |-> "queued"]
  /\ status = [j \in Jobs |-> "queued"]
  /\ outcomes = [j \in Jobs |-> <<>>]
  /\ bytes = [j \in Jobs |-> 0]
  /\ terminal = [j \in Jobs |-> FALSE]
  /\ overdue = {}
  /\ submissions = [s \in SubmissionIds |-> None]

-----------------------------------------------------------------------------
(* _prune, the first thing every operation does: what is left of the jobs  *)
(* and of the submission identifiers that point to them.                   *)

Kept == present \ overdue

KeptSubmissions ==
  [s \in SubmissionIds |->
     IF submissions[s] # None /\ submissions[s][2] \in Kept
       THEN submissions[s] ELSE None]

RetainedBytes == MapThenSumSet(LAMBDA j : bytes[j], Kept)

Prune ==
  /\ present' = Kept
  /\ overdue' = {}
  /\ submissions' = KeptSubmissions

(* Every operation that reads, refuses, or finds nothing to do.            *)
Touch ==
  /\ Prune
  /\ UNCHANGED <<size, model, status, outcomes, bytes, terminal>>

(* The clock: a terminal job reaches the end of its retention.             *)
Elapse(j) ==
  /\ j \in (present \cap MayExpire) \ overdue
  /\ terminal[j]
  /\ overdue' = overdue \cup {j}
  /\ UNCHANGED <<present, size, model, status, outcomes, bytes, terminal,
                 submissions>>

-----------------------------------------------------------------------------
(* reserve and create *)

\* Mutant: submission identifiers are never looked up.
BoundNever(sid) == FALSE
Bound(sid) == sid # None /\ KeptSubmissions[sid] # None

HasCapacity ==
  /\ Cardinality(Kept) < MaxRetainedJobs
  /\ RetainedBytes < MaxRetainedBytes
  /\ Cardinality({j \in Kept : ~terminal[j]}) < MaxActive + MaxQueued

Reserve(j, n, sid, fp) ==
  /\ size[j] = 0
  /\ ~Bound(sid)
  /\ HasCapacity
  /\ present' = Kept \cup {j}
  /\ overdue' = {}
  /\ size' = [size EXCEPT ![j] = n]
  /\ submissions' = IF sid = None THEN KeptSubmissions
                    ELSE [KeptSubmissions EXCEPT ![sid] = <<fp, j>>]
  /\ UNCHANGED <<model, status, outcomes, bytes, terminal>>

-----------------------------------------------------------------------------
(* start_model, finish_model and cancel *)

CanStart(t) == t[1] \in Kept /\ model[t] = "queued"

StartModel(t) ==
  /\ CanStart(t)
  /\ Prune
  /\ model' = [model EXCEPT ![t] = "running"]
  /\ status' = [status EXCEPT ![t[1]] = "running"]
  /\ UNCHANGED <<size, outcomes, bytes, terminal>>

\* Mutant: a late answer is recorded whatever the model's state.
StillOpenUnguarded(t) == t[1] \in Kept
StillOpen(t) == t[1] \in Kept /\ model[t] \in OpenStates

\* Mutant: the limit over all jobs is forgotten.
FitsPerJob(t, result) ==
  /\ result # NoResult
  /\ result <= MaxModelBytes
  /\ bytes[t[1]] + result <= MaxJobBytes

(* The result is kept unless it breaks one of the three byte limits.       *)
Fits(t, result) ==
  /\ result # NoResult
  /\ result <= MaxModelBytes
  /\ bytes[t[1]] + result <= MaxJobBytes
  /\ RetainedBytes + result <= MaxRetainedBytes

FinalStatus(j, states) ==
  IF status[j] = "cancelled" THEN "cancelled"
  ELSE IF \E t \in TasksOf(j) : states[t] = "failed"
    THEN "completed_with_errors" ELSE "completed"

\* Mutant: models that have not started are overlooked.
SettledIfNoneRuns(j, states) == \A t \in TasksOf(j) : states[t] # "running"

(* _terminal: the job is over once no model is queued or running.          *)
Settled(j, states) == \A t \in TasksOf(j) : states[t] \notin OpenStates

FinishModel(t, result) ==
  LET j == t[1]
      verdict == IF Fits(t, result) THEN "succeeded" ELSE "failed"
  IN /\ StillOpen(t)
     /\ Prune
     /\ model' = [model EXCEPT ![t] = verdict]
     /\ outcomes' = [outcomes EXCEPT ![j] =
                       Append(@, [model |-> t[2], verdict |-> verdict])]
     /\ bytes' = IF Fits(t, result)
                   THEN [bytes EXCEPT ![j] = @ + result] ELSE bytes
     /\ IF Settled(j, model')
          THEN /\ terminal' = [terminal EXCEPT ![j] = TRUE]
               /\ status' = [status EXCEPT ![j] = FinalStatus(j, model')]
          ELSE UNCHANGED <<terminal, status>>
     /\ UNCHANGED size

(* The models still open, in index order.                                  *)
IndexOrders(open) ==
  {f \in [1..Cardinality(open) -> open] :
     /\ \A k, m \in 1..Cardinality(open) : k < m => f[k] < f[m]
     /\ \A i \in open : \E k \in 1..Cardinality(open) : f[k] = i}

CanCancel(j) == j \in Kept /\ ~terminal[j]

CancelJob(j) ==
  /\ CanCancel(j)
  /\ Prune
  /\ status' = [status EXCEPT ![j] = "cancelled"]
  /\ model' = [t \in Tasks |->
                 IF t \in TasksOf(j) /\ model[t] \in OpenStates
                   THEN "cancelled" ELSE model[t]]
  /\ \E order \in IndexOrders(OpenModels(j)) :
       outcomes' = [outcomes EXCEPT ![j] = @ \o
         [k \in 1..Cardinality(OpenModels(j)) |->
            [model |-> order[k], verdict |-> "cancelled"]]]
  /\ terminal' = [terminal EXCEPT ![j] = TRUE]
  /\ UNCHANGED <<size, bytes>>

-----------------------------------------------------------------------------
(* The callers: a model is finished only by the worker that started it.    *)
StoreNext ==
  \/ \E j \in Jobs, n \in Models, sid \in SubmissionIds \cup {None},
        fp \in Fingerprints : Reserve(j, n, sid, fp)
  \/ \E t \in Tasks : t \in TasksOf(t[1]) /\ StartModel(t)
  \/ \E t \in Tasks, r \in Results :
       model[t] # "queued" /\ FinishModel(t, r)
  \/ \E j \in Jobs : CancelJob(j)
  \/ \E j \in Jobs : Elapse(j)
  \/ Touch

StoreSpec == StoreInit /\ [][StoreNext]_storeVars

(* The status a client reads summarises the models: terminal iff none is   *)
(* open, "completed" iff all succeeded, and "cancelled" only when a        *)
(* cancellation really cut a model short.                                  *)
StatusSummarises ==
  \A j \in Jobs : size[j] > 0 =>
    LET verdicts == {model[t] : t \in TasksOf(j)}
    IN /\ terminal[j] <=> verdicts \cap OpenStates = {}
       /\ terminal[j] <=> status[j] \in TerminalStatuses
       /\ status[j] = "queued" <=> verdicts = {"queued"}
       /\ status[j] = "completed" <=> verdicts = {"succeeded"}
       /\ status[j] = "cancelled" <=> "cancelled" \in verdicts

(* Results retained for all jobs, and for each job, stay within the byte   *)
(* limits although three limits, many workers and expiry share the count.  *)
BytesWithinLimits ==
  /\ MapThenSumSet(LAMBDA j : bytes[j], present) <= MaxRetainedBytes
  /\ \A j \in Jobs : bytes[j] <= MaxJobBytes

(* A submission identifier keeps naming the same job and payload for as    *)
(* long as that job is retained, so a client that retries is never given a *)
(* second job.                                                             *)
SubmissionsStick ==
  [][\A s \in SubmissionIds :
       (submissions[s] # None /\ submissions[s][2] \in present')
         => submissions'[s] = submissions[s]]_storeVars

(* The store does for its clients what the contract says, expiry included. *)
Contract == INSTANCE JobContract WITH
  accepted <- size,
  log <- outcomes,
  announced <- {j \in Jobs : status[j] \in TerminalStatuses},
  forgotten <- {j \in Jobs : size[j] > 0} \ present

HonoursContract == Contract!ContractSpec

=============================================================================
