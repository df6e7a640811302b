-------------------------- MODULE JobService_proofs -------------------------
(***************************************************************************)
(* Proofs about the simulation service, for any number of jobs, models,    *)
(* submission identifiers, workers, active slots and cancellation handlers *)
(* and any limits, in three parts: the job store under any caller, the     *)
(* types of the service, and the scheduler and its threads together with   *)
(* the store.                                                              *)
(***************************************************************************)
EXTENDS JobService, FiniteSums, FiniteSetTheorems, SequenceTheorems, TLAPS

-----------------------------------------------------------------------------
(* The job store on its own.                                              *)

(* A task is a job with the index of one of its models.                    *)
LEMMA TaskParts == \A t \in Tasks : t[1] \in Jobs /\ t[2] \in Models
  BY DEF Tasks

(* Each operation of the store preserves the types of its variables.       *)

LEMMA StoreUnchanged == StoreTypeOK /\ UNCHANGED storeVars => StoreTypeOK'
  BY DEF StoreTypeOK, storeVars

LEMMA TouchTypeOK == StoreTypeOK /\ Touch => StoreTypeOK'
  BY DEF StoreTypeOK, Touch, Prune, Kept, KeptSubmissions

LEMMA ReserveTypeOK ==
  ASSUME NEW j \in Jobs, NEW n \in Models,
         NEW sid \in SubmissionIds \cup {None}, NEW fp \in Fingerprints,
         StoreTypeOK, Reserve(j, n, sid, fp)
  PROVE  StoreTypeOK'
<1>1. KeptSubmissions \in [SubmissionIds -> (Fingerprints \X Jobs) \cup {None}]
  BY DEF KeptSubmissions, StoreTypeOK
<1>2. submissions' \in [SubmissionIds -> (Fingerprints \X Jobs) \cup {None}]
  BY <1>1 DEF Reserve
<1>3. size' \in [Jobs -> 0..MaxModels]
  BY StoreAssumption DEF Reserve, StoreTypeOK, Models
<1>4. present' \in SUBSET Jobs
  BY DEF Reserve, StoreTypeOK, Kept
<1>5. QED
  BY <1>2, <1>3, <1>4 DEF Reserve, StoreTypeOK

LEMMA StartModelTypeOK ==
  ASSUME NEW t \in Tasks, StoreTypeOK, StartModel(t)
  PROVE  StoreTypeOK'
<1>1. t[1] \in Jobs
  BY DEF Tasks
<1>2. model' \in [Tasks -> ModelStates] /\ status' \in [Jobs -> Statuses]
  BY <1>1 DEF StartModel, StoreTypeOK, ModelStates, OpenStates, Statuses
<1>3. QED
  BY <1>2 DEF StartModel, StoreTypeOK, Prune, Kept, KeptSubmissions

LEMMA FinishModelTypeOK ==
  ASSUME NEW t \in Tasks, NEW r \in Results, StoreTypeOK, FinishModel(t, r)
  PROVE  StoreTypeOK'
<1> DEFINE verdict == IF Fits(t, r) THEN "succeeded" ELSE "failed"
           entry == [model |-> t[2], verdict |-> verdict]
<1>1. t[1] \in Jobs /\ t[2] \in Models
  BY DEF Tasks
<1>2. verdict \in ModelStates
  BY DEF ModelStates
<1>3. model' \in [Tasks -> ModelStates]
  BY <1>2 DEF FinishModel, StoreTypeOK
<1>4. outcomes' \in [Jobs -> Seq([model : Models, verdict : ModelStates])]
  <2>1. entry \in [model : Models, verdict : ModelStates]
    BY <1>1, <1>2
  <2>2. Append(outcomes[t[1]], entry)
          \in Seq([model : Models, verdict : ModelStates])
    BY <1>1, <2>1, AppendProperties DEF StoreTypeOK
  <2>3. outcomes' = [outcomes EXCEPT ![t[1]] = Append(@, entry)]
    BY DEF FinishModel
  <2>4. QED
    BY <2>2, <2>3, <1>1 DEF StoreTypeOK
<1>5. bytes' \in [Jobs -> Nat]
  BY <1>1, StoreAssumption DEF FinishModel, StoreTypeOK, Results, NoResult
<1>6. terminal' \in [Jobs -> BOOLEAN]
  BY <1>1 DEF FinishModel, StoreTypeOK
<1>7. status' \in [Jobs -> Statuses]
  <2>1. FinalStatus(t[1], model') \in Statuses
    BY DEF FinalStatus, Statuses, TerminalStatuses
  <2>2. QED
    BY <1>1, <2>1 DEF FinishModel, StoreTypeOK
<1>8. QED
  BY <1>3, <1>4, <1>5, <1>6, <1>7
  DEF FinishModel, StoreTypeOK, Prune, Kept, KeptSubmissions

LEMMA CancelJobTypeOK ==
  ASSUME NEW j \in Jobs, StoreTypeOK, CancelJob(j)
  PROVE  StoreTypeOK'
<1> DEFINE open == OpenModels(j)
           n == Cardinality(open)
           Entry == [model : Models, verdict : ModelStates]
<1>1. model' \in [Tasks -> ModelStates]
  BY DEF CancelJob, StoreTypeOK, ModelStates
<1>2. status' \in [Jobs -> Statuses] /\ terminal' \in [Jobs -> BOOLEAN]
  BY DEF CancelJob, StoreTypeOK, Statuses, TerminalStatuses
<1>3. outcomes' \in [Jobs -> Seq(Entry)]
  <2>1. PICK order \in IndexOrders(open) :
          outcomes' = [outcomes EXCEPT ![j] = @ \o
            [k \in 1..n |-> [model |-> order[k], verdict |-> "cancelled"]]]
    BY DEF CancelJob
  <2>2. open \subseteq Models /\ IsFiniteSet(open)
    <3>1. size[j] \in 0..MaxModels
      BY DEF StoreTypeOK
    <3>2. open \subseteq 1..size[j] /\ 1..size[j] \subseteq Models
      BY <3>1, StoreAssumption DEF OpenModels, Models
    <3>3. IsFiniteSet(1..size[j])
      BY <3>1, StoreAssumption, FS_Interval
    <3>4. QED
      BY <3>2, <3>3, FS_Subset
  <2>3. n \in Nat
    BY <2>2, FS_CardinalityType
  <2>4. order \in [1..n -> Models]
    BY <2>1, <2>2 DEF IndexOrders
  <2>5. \A k \in 1..n :
          [model |-> order[k], verdict |-> "cancelled"] \in Entry
    BY <2>4 DEF ModelStates
  <2>6. [k \in 1..n |-> [model |-> order[k], verdict |-> "cancelled"]]
          \in Seq(Entry)
    <3> HIDE DEF n, Entry
    <3>1. [k \in 1..n |-> [model |-> order[k], verdict |-> "cancelled"]]
            \in [1..n -> Entry]
      BY <2>5
    <3>2. QED
      BY <2>3, <3>1, SeqDef
  <2>7. outcomes[j] \in Seq(Entry)
    BY DEF StoreTypeOK
  <2>8. QED
    BY <2>1, <2>6, <2>7, ConcatProperties DEF StoreTypeOK
<1>4. QED
  BY <1>1, <1>2, <1>3
  DEF CancelJob, StoreTypeOK, Prune, Kept, KeptSubmissions

LEMMA ElapseTypeOK ==
  ASSUME NEW j \in Jobs, StoreTypeOK, Elapse(j)
  PROVE  StoreTypeOK'
  BY DEF Elapse, StoreTypeOK

LEMMA InitStoreTypeOK == StoreInit => StoreTypeOK
  BY StoreAssumption, EmptySeq
  DEF StoreInit, StoreTypeOK, ModelStates, OpenStates, Statuses

LEMMA StoreTypeStep == StoreTypeOK /\ [StoreNext]_storeVars => StoreTypeOK'
<1> SUFFICES ASSUME StoreTypeOK, [StoreNext]_storeVars
             PROVE  StoreTypeOK'
  OBVIOUS
<1>1. CASE UNCHANGED storeVars
  BY <1>1 DEF storeVars, StoreTypeOK
<1>2. CASE StoreNext
  BY <1>2, TouchTypeOK, ReserveTypeOK, StartModelTypeOK, FinishModelTypeOK,
     CancelJobTypeOK, ElapseTypeOK
  DEF StoreNext
<1>3. QED
  BY <1>1, <1>2

(* The store alone keeps its types, whoever calls it: models, bytes, log   *)
(* and submission identifiers of InMemoryJobStore.                         *)
THEOREM StoreTypes == StoreSpec => []StoreTypeOK
  BY InitStoreTypeOK, StoreTypeStep, PTL DEF StoreSpec

-----------------------------------------------------------------------------
(* The jobs the store holds were created.                                  *)

PresentCreated == \A j \in present : size[j] > 0

LEMMA PresentStep ==
  ASSUME StoreTypeOK, PresentCreated, [StoreNext]_storeVars
  PROVE  PresentCreated'
<1>1. CASE \E j \in Jobs, n \in Models, sid \in SubmissionIds \cup {None},
             fp \in Fingerprints : Reserve(j, n, sid, fp)
  <2>1. PICK j \in Jobs, n \in Models, sid \in SubmissionIds \cup {None},
             fp \in Fingerprints : Reserve(j, n, sid, fp)
    BY <1>1
  <2>2. \A i \in Jobs : size'[i] = IF i = j THEN n ELSE size[i]
    BY <2>1 DEF Reserve, StoreTypeOK
  <2>3. n > 0
    BY StoreAssumption DEF Models
  <2>4. QED
    BY <2>1, <2>2, <2>3 DEF Reserve, PresentCreated, Kept, StoreTypeOK
<1>2. CASE present' \subseteq present /\ size' = size
  BY <1>2 DEF PresentCreated
<1>3. QED
  BY <1>1, <1>2
  DEF StoreNext, StartModel, FinishModel, CancelJob, Elapse, Touch, Prune,
      Kept, storeVars

-----------------------------------------------------------------------------
(* The status of a job.  StatusSummarises speaks of the set of verdicts;   *)
(* the proof speaks of the models themselves, and needs to know that only  *)
(* models of jobs that were created ever leave the state "queued".         *)

Summary(j) ==
  /\ terminal[j] <=> \A t \in TasksOf(j) : model[t] \notin OpenStates
  /\ terminal[j] <=> status[j] \in TerminalStatuses
  /\ status[j] = "queued" <=> \A t \in TasksOf(j) : model[t] = "queued"
  /\ status[j] = "completed" <=> \A t \in TasksOf(j) : model[t] = "succeeded"
  /\ status[j] = "cancelled" <=> \E t \in TasksOf(j) : model[t] = "cancelled"

SummaryInv ==
  /\ \A t \in Tasks : model[t] # "queued" => t \in TasksOf(t[1])
  /\ \A j \in Jobs : size[j] = 0 => status[j] = "queued" /\ ~terminal[j]
  /\ \A j \in Jobs : size[j] > 0 => Summary(j)

LEMMA FirstTask ==
  ASSUME StoreTypeOK, NEW j \in Jobs, size[j] > 0
  PROVE  <<j, 1>> \in TasksOf(j)
  BY StoreAssumption DEF StoreTypeOK, TasksOf, Tasks, Models

LEMMA SummaryOfVerdicts ==
  ASSUME StoreTypeOK, SummaryInv
  PROVE  StatusSummarises
<1> SUFFICES ASSUME NEW j \in Jobs, size[j] > 0,
                    NEW verdicts, verdicts = {model[t] : t \in TasksOf(j)}
             PROVE  /\ terminal[j] <=> verdicts \cap OpenStates = {}
                    /\ terminal[j] <=> status[j] \in TerminalStatuses
                    /\ status[j] = "queued" <=> verdicts = {"queued"}
                    /\ status[j] = "completed" <=> verdicts = {"succeeded"}
                    /\ status[j] = "cancelled" <=> "cancelled" \in verdicts
  BY DEF StatusSummarises
<1>1. Summary(j)
  BY DEF SummaryInv
<1>2. \E t \in TasksOf(j) : TRUE
  BY FirstTask
<1>3. terminal[j] <=> verdicts \cap OpenStates = {}
  BY <1>1 DEF Summary
<1>4. \A v : verdicts = {v} <=> \A t \in TasksOf(j) : model[t] = v
  BY <1>2
<1>5. QED
  BY <1>1, <1>3, <1>4 DEF Summary

(* A job whose size, status and models a step leaves alone.                *)
LEMMA SummaryUntouched ==
  ASSUME NEW j \in Jobs, Summary(j),
         size'[j] = size[j], status'[j] = status[j],
         terminal'[j] = terminal[j],
         \A t \in TasksOf(j) : model'[t] = model[t]
  PROVE  Summary(j)'
<1>1. TasksOf(j)' = TasksOf(j)
  BY DEF TasksOf
<1>2. QED
  BY <1>1 DEF Summary

LEMMA ReserveSummary ==
  ASSUME StoreTypeOK, SummaryInv,
         NEW j \in Jobs, NEW n \in Models,
         NEW sid \in SubmissionIds \cup {None}, NEW fp \in Fingerprints,
         Reserve(j, n, sid, fp)
  PROVE  SummaryInv'
<1>1. size[j] = 0 /\ UNCHANGED <<model, status, terminal>>
  BY DEF Reserve
<1>2. \A i \in Jobs : size'[i] = IF i = j THEN n ELSE size[i]
  BY DEF Reserve, StoreTypeOK
<1>3. n > 0
  BY StoreAssumption DEF Models
<1>4. \A t \in Tasks : t[1] = j => model[t] = "queued"
  BY <1>1, TaskParts, StoreAssumption DEF SummaryInv, TasksOf, Models
<1>5. \A t \in Tasks : model'[t] # "queued" => t \in TasksOf(t[1])'
  BY <1>1, <1>2, <1>4, TaskParts DEF SummaryInv, TasksOf
<1>6. \A i \in Jobs : size'[i] = 0 => status'[i] = "queued" /\ ~terminal'[i]
  BY <1>1, <1>2, <1>3 DEF SummaryInv
<1>7. ASSUME NEW i \in Jobs, size'[i] > 0  PROVE Summary(i)'
  <2>1. CASE i = j
    <3>1. \A t \in TasksOf(j)' : model'[t] = "queued"
      BY <1>1, <1>4 DEF TasksOf
    <3>2. <<j, 1>> \in TasksOf(j)'
      BY <1>2, <1>3, StoreAssumption DEF TasksOf, Tasks, Models
    <3>3. status'[j] = "queued" /\ ~terminal'[j]
      BY <1>1 DEF SummaryInv
    <3>4. QED
      BY <2>1, <3>1, <3>2, <3>3 DEF Summary, OpenStates, TerminalStatuses
  <2>2. CASE i # j
    BY <2>2, <1>1, <1>2, <1>7, SummaryUntouched DEF SummaryInv
  <2>3. QED
    BY <2>1, <2>2
<1>8. QED
  BY <1>5, <1>6, <1>7 DEF SummaryInv

LEMMA StartModelSummary ==
  ASSUME StoreTypeOK, SummaryInv, NEW t \in Tasks, t \in TasksOf(t[1]),
         StartModel(t)
  PROVE  SummaryInv'
<1> DEFINE j == t[1]
<1>1. j \in Jobs /\ size[j] > 0
  BY TaskParts, StoreAssumption DEF TasksOf, StoreTypeOK, Models
<1>2. UNCHANGED <<size, terminal>>
  BY DEF StartModel
<1>3. /\ model[t] = "queued"
      /\ \A u \in Tasks : model'[u] = IF u = t THEN "running" ELSE model[u]
      /\ \A i \in Jobs : status'[i] = IF i = j THEN "running" ELSE status[i]
  BY <1>1 DEF StartModel, CanStart, StoreTypeOK
<1>4. \A i \in Jobs : TasksOf(i)' = TasksOf(i)
  BY <1>2 DEF TasksOf
<1>5. \A u \in Tasks : model'[u] # "queued" => u \in TasksOf(u[1])'
  BY <1>3, <1>4, TaskParts DEF SummaryInv
<1>6. ASSUME NEW i \in Jobs, size'[i] > 0  PROVE Summary(i)'
  <2>1. CASE i = j
    <3>1. Summary(j) /\ t \in TasksOf(j)' /\ TasksOf(j) \subseteq Tasks
      BY <1>1, <1>4 DEF SummaryInv, TasksOf
    <3>2. ~terminal[j] /\ status'[j] = "running" /\ model'[t] = "running"
      BY <1>1, <1>3, <3>1 DEF Summary, OpenStates
    <3>3. \A u \in TasksOf(j) : model[u] # "cancelled"
      BY <3>1, <3>2 DEF Summary, TerminalStatuses
    <3>4. \A u \in TasksOf(j)' : model'[u] # "cancelled"
      BY <1>1, <1>3, <1>4, <3>1, <3>3
    <3>5. QED
      BY <2>1, <1>2, <3>1, <3>2, <3>4 DEF Summary, OpenStates, TerminalStatuses
  <2>2. CASE i # j
    <3>1. Summary(i) /\ \A u \in TasksOf(i) : model'[u] = model[u]
      BY <2>2, <1>2, <1>3, <1>6 DEF SummaryInv, TasksOf
    <3>2. QED
      BY <2>2, <1>2, <1>3, <3>1, SummaryUntouched
  <2>3. QED
    BY <2>1, <2>2
<1>7. QED
  BY <1>1, <1>2, <1>3, <1>5, <1>6 DEF SummaryInv

(* A worker finishes a model that runs; the status turns terminal with the *)
(* last of them, and is never "cancelled" at that moment.                  *)
LEMMA FinishModelSummary ==
  ASSUME StoreTypeOK, SummaryInv, NEW t \in Tasks, NEW r \in Results,
         model[t] # "queued", FinishModel(t, r)
  PROVE  SummaryInv'
<1> DEFINE j == t[1]
           verdict == IF Fits(t, r) THEN "succeeded" ELSE "failed"
<1>1. j \in Jobs /\ t \in TasksOf(j) /\ size[j] > 0
  BY TaskParts, StoreAssumption DEF SummaryInv, TasksOf, StoreTypeOK, Models
<1>2. size' = size /\ model[t] = "running"
  BY DEF FinishModel, StillOpen, OpenStates
<1>3. \A u \in Tasks : model'[u] = IF u = t THEN verdict ELSE model[u]
  BY DEF FinishModel, StoreTypeOK
<1>4. \A i \in Jobs : TasksOf(i)' = TasksOf(i) /\ TasksOf(i) \subseteq Tasks
  BY <1>2 DEF TasksOf
<1>5. verdict \in {"succeeded", "failed"}
  OBVIOUS
<1>6. \A u \in Tasks : model'[u] # "queued" => u \in TasksOf(u[1])'
  BY <1>1, <1>3, <1>4, TaskParts DEF SummaryInv
<1>7. \A i \in Jobs \ {j} : status'[i] = status[i] /\ terminal'[i] = terminal[i]
  BY DEF FinishModel, StoreTypeOK
<1>8. Summary(j)'
  <2>1. Summary(j)
    BY <1>1 DEF SummaryInv
  <2>2. ~terminal[j] /\ status[j] = "running"
    BY <1>1, <1>2, <2>1
    DEF Summary, OpenStates, Statuses, StoreTypeOK
  <2>3. \A u \in TasksOf(j) : model[u] # "cancelled" /\ model'[u] # "cancelled"
    BY <1>1, <1>3, <1>4, <1>5, <2>1, <2>2 DEF Summary, TerminalStatuses
  <2>4. CASE Settled(j, model')
    <3>1. terminal'[j] /\ status'[j] = FinalStatus(j, model')
      BY <2>4, <1>1 DEF FinishModel, StoreTypeOK
    <3>2. \A u \in TasksOf(j) : model'[u] \in {"succeeded", "failed"}
      BY <2>3, <2>4, <1>1, <1>3, <1>4, <1>5
      DEF Settled, StoreTypeOK, ModelStates
    <3>3. status'[j] = IF \E u \in TasksOf(j) : model'[u] = "failed"
                         THEN "completed_with_errors" ELSE "completed"
      BY <2>2, <3>1 DEF FinalStatus
    <3>4. QED
      BY <1>1, <1>4, <3>1, <3>2, <3>3
      DEF Summary, OpenStates, TerminalStatuses
  <2>5. CASE ~Settled(j, model')
    <3>1. ~terminal'[j] /\ status'[j] = "running"
      BY <2>2, <2>5, <1>1 DEF FinishModel, StoreTypeOK
    <3>2. PICK u \in TasksOf(j) : model'[u] \in OpenStates
      BY <2>5 DEF Settled
    <3>3. model'[t] # "queued" /\ model'[t] # "running"
      BY <1>3, <1>5
    <3>4. QED
      BY <1>1, <1>4, <2>3, <3>1, <3>2, <3>3
      DEF Summary, OpenStates, TerminalStatuses
  <2>6. QED
    BY <2>4, <2>5
<1>9. ASSUME NEW i \in Jobs, size'[i] > 0, i # j  PROVE Summary(i)'
  <2>1. Summary(i) /\ \A u \in TasksOf(i) : model'[u] = model[u]
    BY <1>2, <1>3, <1>9 DEF SummaryInv, TasksOf
  <2>2. QED
    BY <1>2, <1>7, <1>9, <2>1, SummaryUntouched
<1>10. QED
  BY <1>1, <1>2, <1>6, <1>7, <1>8, <1>9 DEF SummaryInv

(* A job that is not terminal has an open model, so a cancellation cuts    *)
(* one short.                                                              *)
LEMMA CancelJobSummary ==
  ASSUME StoreTypeOK, SummaryInv, NEW j \in Jobs, size[j] > 0, CancelJob(j)
  PROVE  SummaryInv'
<1>1. size' = size /\ ~terminal[j]
  BY DEF CancelJob, CanCancel
<1>2. \A u \in Tasks : model'[u] =
         IF u \in TasksOf(j) /\ model[u] \in OpenStates
           THEN "cancelled" ELSE model[u]
  BY DEF CancelJob
<1>3. \A i \in Jobs : TasksOf(i)' = TasksOf(i) /\ TasksOf(i) \subseteq Tasks
  BY <1>1 DEF TasksOf
<1>4. \A u \in Tasks : model'[u] # "queued" => u \in TasksOf(u[1])'
  BY <1>2, <1>3, TaskParts DEF SummaryInv, TasksOf
<1>5. /\ status'[j] = "cancelled" /\ terminal'[j]
      /\ \A i \in Jobs \ {j} :
           status'[i] = status[i] /\ terminal'[i] = terminal[i]
  BY DEF CancelJob, StoreTypeOK
<1>6. Summary(j)'
  <2>1. PICK t \in TasksOf(j) : model[t] \in OpenStates
    BY <1>1 DEF SummaryInv, Summary
  <2>2. model'[t] = "cancelled"
    BY <1>2, <1>3, <2>1
  <2>3. \A u \in TasksOf(j) : model'[u] \notin OpenStates
    BY <1>2, <1>3 DEF OpenStates
  <2>4. QED
    BY <1>3, <1>5, <2>1, <2>2, <2>3 DEF Summary, TerminalStatuses
<1>7. ASSUME NEW i \in Jobs, size'[i] > 0, i # j  PROVE Summary(i)'
  <2>1. Summary(i) /\ \A u \in TasksOf(i) : model'[u] = model[u]
    BY <1>1, <1>2, <1>7 DEF SummaryInv, TasksOf
  <2>2. QED
    BY <1>1, <1>5, <1>7, <2>1, SummaryUntouched
<1>8. QED
  BY <1>1, <1>4, <1>5, <1>6, <1>7 DEF SummaryInv

LEMMA SummaryStep ==
  ASSUME StoreTypeOK, PresentCreated, SummaryInv, [StoreNext]_storeVars
  PROVE  SummaryInv'
<1>1. CASE \E j \in Jobs, n \in Models, sid \in SubmissionIds \cup {None},
             fp \in Fingerprints : Reserve(j, n, sid, fp)
  BY <1>1, ReserveSummary
<1>2. CASE \E t \in Tasks : t \in TasksOf(t[1]) /\ StartModel(t)
  BY <1>2, StartModelSummary
<1>3. CASE \E t \in Tasks, r \in Results :
             model[t] # "queued" /\ FinishModel(t, r)
  BY <1>3, FinishModelSummary
<1>4. CASE \E j \in Jobs : CancelJob(j)
  <2>1. PICK j \in Jobs : CancelJob(j)
    BY <1>4
  <2>2. size[j] > 0
    BY <2>1 DEF CancelJob, CanCancel, Kept, PresentCreated
  <2>3. QED
    BY <2>1, <2>2, CancelJobSummary
<1>5. CASE UNCHANGED <<size, model, status, terminal>>
  <2>1. \A j \in Jobs : TasksOf(j)' = TasksOf(j)
    BY <1>5 DEF TasksOf
  <2>2. QED
    BY <1>5, <2>1, TaskParts DEF SummaryInv, Summary
<1>6. QED
  BY <1>1, <1>2, <1>3, <1>4, <1>5
  DEF StoreNext, Elapse, Touch, storeVars

StoreInv == StoreTypeOK /\ PresentCreated /\ SummaryInv

LEMMA InitStoreInv == StoreInit => StoreInv
<1> SUFFICES ASSUME StoreInit  PROVE StoreInv
  OBVIOUS
<1>1. StoreTypeOK
  BY InitStoreTypeOK
<1>2. PresentCreated
  BY DEF StoreInit, PresentCreated
<1>3. SummaryInv
  BY TaskParts DEF StoreInit, SummaryInv
<1>4. QED
  BY <1>1, <1>2, <1>3 DEF StoreInv

LEMMA StoreInvStep == StoreInv /\ [StoreNext]_storeVars => StoreInv'
  BY StoreTypeStep, PresentStep, SummaryStep DEF StoreInv

LEMMA StoreAlways == StoreSpec => []StoreInv
  BY InitStoreInv, StoreInvStep, PTL DEF StoreSpec

(* What a client reads as the status of a job always agrees with the       *)
(* states of its models, whoever calls start_model, finish_model and       *)
(* cancel, in whatever order.                                              *)
THEOREM StatusIsTruthful == StoreSpec => []StatusSummarises
<1>1. StoreInv => StatusSummarises
  BY SummaryOfVerdicts DEF StoreInv
<1>2. QED
  BY <1>1, StoreAlways, PTL

-----------------------------------------------------------------------------
(* Idempotent submission.  An identifier names a job that was created, so  *)
(* the fresh identifier of a new job cannot be bound already.              *)

SubmittedCreated ==
  \A s \in SubmissionIds :
    submissions[s] # None => size[submissions[s][2]] > 0

LEMMA SubmittedStep ==
  ASSUME StoreTypeOK, SubmittedCreated, [StoreNext]_storeVars
  PROVE  SubmittedCreated'
<1>1. \A s \in SubmissionIds :
        KeptSubmissions[s] # None => KeptSubmissions[s] = submissions[s]
  BY DEF KeptSubmissions
<1>2. CASE \E j \in Jobs, n \in Models, sid \in SubmissionIds \cup {None},
             fp \in Fingerprints : Reserve(j, n, sid, fp)
  <2>1. PICK j \in Jobs, n \in Models, sid \in SubmissionIds \cup {None},
             fp \in Fingerprints : Reserve(j, n, sid, fp)
    BY <1>2
  <2>2. \A i \in Jobs : size'[i] >= size[i] /\ size'[j] > 0
    BY <2>1, StoreAssumption DEF Reserve, StoreTypeOK, Models
  <2>3. \A s \in SubmissionIds :
          submissions[s] # None => submissions[s][2] \in Jobs
    BY DEF StoreTypeOK
  <2>4. ASSUME NEW s \in SubmissionIds, submissions'[s] # None
        PROVE  size'[submissions'[s][2]] > 0
    <3>1. CASE s = sid
      <4>1. submissions'[s] = <<fp, j>>
        BY <2>1, <2>4, <3>1, StoreAssumption DEF Reserve, KeptSubmissions
      <4>2. QED
        BY <2>2, <4>1
    <3>2. CASE s # sid
      <4>1. submissions'[s] = submissions[s]
        BY <1>1, <2>1, <2>4, <3>2 DEF Reserve, KeptSubmissions
      <4>2. size[submissions[s][2]] > 0 /\ submissions[s][2] \in Jobs
        BY <2>3, <2>4, <4>1 DEF SubmittedCreated
      <4>3. size' \in [Jobs -> 0..MaxModels] /\ size \in [Jobs -> 0..MaxModels]
        BY <2>1, ReserveTypeOK DEF StoreTypeOK
      <4>4. QED
        BY <2>2, <4>1, <4>2, <4>3, StoreAssumption
    <3>3. QED
      BY <3>1, <3>2
  <2>5. QED
    BY <2>4 DEF SubmittedCreated
<1>3. CASE /\ submissions' = submissions \/ submissions' = KeptSubmissions
           /\ size' = size
  BY <1>1, <1>3 DEF SubmittedCreated
<1>4. QED
  BY <1>2, <1>3
  DEF StoreNext, StartModel, FinishModel, CancelJob, Elapse, Touch, Prune,
      storeVars

SubmissionsStickStep ==
  \A s \in SubmissionIds :
    (submissions[s] # None /\ submissions[s][2] \in present')
      => submissions'[s] = submissions[s]

(* No operation of the store rebinds or drops the submission identifier of *)
(* a job that it retains: a repeated POST is given the job it was given    *)
(* before, whatever expires or is reserved in between.                     *)
THEOREM SubmissionsAreKept == StoreSpec => SubmissionsStick
<1>1. StoreInit => SubmittedCreated
  BY DEF StoreInit, SubmittedCreated
<1>2. StoreTypeOK /\ SubmittedCreated /\ [StoreNext]_storeVars
        => SubmittedCreated'
  BY SubmittedStep
<1>3. StoreTypeOK /\ SubmittedCreated /\ [StoreNext]_storeVars
        => [SubmissionsStickStep]_storeVars
  <2> SUFFICES ASSUME StoreTypeOK, SubmittedCreated, StoreNext,
                      NEW s \in SubmissionIds, submissions[s] # None,
                      submissions[s][2] \in present'
               PROVE  submissions'[s] = submissions[s]
    BY DEF SubmissionsStickStep
  <2>1. submissions[s][2] \in Kept => KeptSubmissions[s] = submissions[s]
    BY DEF KeptSubmissions
  <2>2. CASE \E j \in Jobs, n \in Models, sid \in SubmissionIds \cup {None},
               fp \in Fingerprints : Reserve(j, n, sid, fp)
    <3>1. PICK j \in Jobs, n \in Models, sid \in SubmissionIds \cup {None},
               fp \in Fingerprints : Reserve(j, n, sid, fp)
      BY <2>2
    <3>2. submissions[s][2] # j
      BY <3>1 DEF SubmittedCreated, Reserve
    <3>3. submissions[s][2] \in Kept
      BY <3>1, <3>2 DEF Reserve
    <3>4. s # sid
      BY <3>1, <3>3, <2>1, StoreAssumption DEF Reserve, Bound
    <3>5. QED
      BY <2>1, <3>1, <3>3, <3>4 DEF Reserve, KeptSubmissions
  <2>3. CASE submissions' = submissions
    BY <2>3
  <2>4. CASE present' = Kept /\ submissions' = KeptSubmissions
    BY <2>1, <2>4
  <2>5. QED
    BY <2>2, <2>3, <2>4
    DEF StoreNext, StartModel, FinishModel, CancelJob, Elapse, Touch, Prune
<1>4. SubmissionsStick <=> [][SubmissionsStickStep]_storeVars
  BY DEF SubmissionsStick, SubmissionsStickStep
<1>5. QED
  BY <1>1, <1>2, <1>3, <1>4, InitStoreTypeOK, StoreTypeStep, PTL DEF StoreSpec

-----------------------------------------------------------------------------
(* The contract.  The log of a job answers exactly the models that are no  *)
(* longer open, each once; and a job that left the store, or is about to,  *)
(* was terminal.                                                           *)

Entries == [model : Models, verdict : ModelStates]
ModelsIn(entries) == Contract!ModelsIn(entries)

OncePerModel(entries) ==
  \A k, m \in 1..Len(entries) : entries[k].model = entries[m].model => k = m

Logged(j) ==
  /\ OncePerModel(outcomes[j])
  /\ ModelsIn(outcomes[j]) = (1..size[j]) \ OpenModels(j)

LogInv ==
  /\ \A j \in Jobs : Logged(j)
  /\ \A j \in Jobs :
       size[j] > 0 /\ (j \notin present \/ j \in overdue) => terminal[j]

LEMMA FunctionIsSequence ==
  ASSUME NEW S, NEW n \in Nat, NEW f \in [1..n -> S]
  PROVE  f \in Seq(S) /\ Len(f) = n
<1>1. f \in Seq(S)
  BY SeqDef
<1>2. Len(f) \in Nat /\ 1..Len(f) = 1..n
  BY <1>1, LenProperties
<1>3. QED
  BY <1>1, <1>2

(* A log continued with entries for other models.                          *)
LEMMA LogConcat ==
  ASSUME NEW s \in Seq(Entries), NEW e \in Seq(Entries),
         OncePerModel(s), OncePerModel(e),
         ModelsIn(s) \cap ModelsIn(e) = {}
  PROVE  /\ s \o e \in Seq(Entries)
         /\ OncePerModel(s \o e)
         /\ ModelsIn(s \o e) = ModelsIn(s) \cup ModelsIn(e)
         /\ SubSeq(s \o e, 1, Len(s)) = s
         /\ e # <<>> => s \o e # s
<1> DEFINE l == s \o e
<1>1. /\ l \in Seq(Entries)
      /\ Len(l) = Len(s) + Len(e)
      /\ \A i \in 1..(Len(s) + Len(e)) :
           l[i] = IF i <= Len(s) THEN s[i] ELSE e[i - Len(s)]
  BY ConcatProperties
<1>2. Len(s) \in Nat /\ Len(e) \in Nat
  BY LenProperties
<1>3. /\ DOMAIN l = 1..(Len(s) + Len(e))
      /\ DOMAIN s = 1..Len(s)
      /\ DOMAIN e = 1..Len(e)
  BY <1>1, LenProperties
<1> HIDE DEF l
<1>4. \A i \in 1..Len(l) :
        \/ i \in 1..Len(s) /\ l[i] = s[i] /\ s[i].model \in ModelsIn(s)
        \/ /\ i - Len(s) \in 1..Len(e) /\ l[i] = e[i - Len(s)]
           /\ e[i - Len(s)].model \in ModelsIn(e)
  <2> SUFFICES ASSUME NEW i \in 1..Len(l)
               PROVE  \/ i \in 1..Len(s) /\ l[i] = s[i]
                      \/ i - Len(s) \in 1..Len(e) /\ l[i] = e[i - Len(s)]
    BY <1>3 DEF ModelsIn, Contract!ModelsIn
  <2>1. CASE i <= Len(s)
    BY <2>1, <1>1, <1>2
  <2>2. CASE i > Len(s)
    BY <2>2, <1>1, <1>2
  <2>3. QED
    BY <2>1, <2>2, <1>1, <1>2
<1>5. OncePerModel(l)
  <2> SUFFICES ASSUME NEW k \in 1..Len(l), NEW m \in 1..Len(l),
                      l[k].model = l[m].model
               PROVE  k = m
    BY DEF OncePerModel
  <2>1. CASE k \in 1..Len(s) /\ l[k] = s[k] /\ s[k].model \in ModelsIn(s)
    BY <2>1, <1>4 DEF OncePerModel
  <2>2. CASE /\ k - Len(s) \in 1..Len(e) /\ l[k] = e[k - Len(s)]
             /\ e[k - Len(s)].model \in ModelsIn(e)
    <3>1. /\ m - Len(s) \in 1..Len(e)
          /\ e[k - Len(s)].model = e[m - Len(s)].model
      BY <2>2, <1>4
    <3>2. k - Len(s) = m - Len(s)
      BY <2>2, <3>1 DEF OncePerModel
    <3>3. QED
      BY <3>2, <1>1, <1>2
  <2>3. QED
    BY <1>4, <2>1, <2>2
<1>6. ModelsIn(l) = ModelsIn(s) \cup ModelsIn(e)
  <2>1. \A i \in 1..Len(s) : i \in DOMAIN l /\ l[i] = s[i]
    BY <1>1, <1>2, <1>3
  <2>2. \A i \in 1..Len(e) : i + Len(s) \in DOMAIN l /\ l[i + Len(s)] = e[i]
    <3> SUFFICES ASSUME NEW i \in 1..Len(e)
                 PROVE  i + Len(s) \in DOMAIN l /\ l[i + Len(s)] = e[i]
      OBVIOUS
    <3>1. /\ i + Len(s) \in 1..(Len(s) + Len(e))
          /\ ~(i + Len(s) <= Len(s))
          /\ (i + Len(s)) - Len(s) = i
      BY <1>2
    <3>2. QED
      BY <3>1, <1>1, <1>3
  <2>3. ModelsIn(l) \subseteq ModelsIn(s) \cup ModelsIn(e)
    <3> SUFFICES ASSUME NEW m \in ModelsIn(l)
                 PROVE  m \in ModelsIn(s) \/ m \in ModelsIn(e)
      OBVIOUS
    <3>1. PICK k \in 1..Len(l) : m = l[k].model
      BY <1>1, <1>3 DEF ModelsIn, Contract!ModelsIn
    <3>2. QED
      BY <3>1, <1>4
  <2>4. ModelsIn(s) \subseteq ModelsIn(l)
    BY <2>1, <1>3 DEF ModelsIn, Contract!ModelsIn
  <2>5. ModelsIn(e) \subseteq ModelsIn(l)
    BY <2>2, <1>3 DEF ModelsIn, Contract!ModelsIn
  <2>6. QED
    BY <2>3, <2>4, <2>5
<1>7. SubSeq(l, 1, Len(s)) = s
  <2>1. \A i \in 1..Len(s) : l[i] = s[i] /\ s[i] \in Entries
    BY <1>1, <1>2, ElementOfSeq
  <2>2. /\ SubSeq(l, 1, Len(s)) \in Seq(Entries)
        /\ Len(SubSeq(l, 1, Len(s))) = Len(s)
        /\ \A i \in 1..Len(s) : SubSeq(l, 1, Len(s))[i] = l[i]
    BY <1>2, <2>1, SubSeqProperties
  <2>3. QED
    BY <2>1, <2>2, SeqEqual
<1>8. e # <<>> => l # s
  BY ConcatEqualIffEmpty DEF l
<1>9. QED
  BY <1>1, <1>5, <1>6, <1>7, <1>8 DEF l

(* A job has an open model if and only if it has an open task; stated for  *)
(* any states and size, to serve before and after a step.                  *)
LEMMA NoneOpen ==
  ASSUME NEW states, NEW n \in 0..MaxModels, NEW j \in Jobs
  PROVE  {i \in 1..n : states[<<j, i>>] \in OpenStates} = {}
           <=> \A t \in {u \in Tasks : u[1] = j /\ u[2] <= n} :
                 states[t] \notin OpenStates
<1>1. \A i \in 1..n : <<j, i>> \in {u \in Tasks : u[1] = j /\ u[2] <= n}
  BY StoreAssumption DEF Tasks, Models
<1>2. \A t \in {u \in Tasks : u[1] = j /\ u[2] <= n} :
        t[2] \in 1..n /\ t = <<j, t[2]>>
  BY StoreAssumption DEF Tasks, Models
<1>3. QED
  BY <1>1, <1>2

(* Answering some of the models that are open, by entries for these and no *)
(* others, is what the contract calls an answer.                           *)
LEMMA AnswerStep ==
  ASSUME StoreInv, StoreInv', LogInv,
         NEW j \in Jobs, NEW e \in Seq(Entries), e # <<>>, OncePerModel(e),
         OpenModels(j)' \subseteq OpenModels(j),
         ModelsIn(e) = OpenModels(j) \ OpenModels(j)',
         outcomes' = [outcomes EXCEPT ![j] = @ \o e],
         \A t \in Tasks : t[1] # j => model'[t] = model[t],
         size' = size, size[j] > 0, ~terminal[j],
         \A i \in Jobs \ {j} : status'[i] = status[i]
  PROVE  Contract!Answer(j) /\ \A i \in Jobs : Logged(i)'
<1>1. outcomes[j] \in Seq(Entries) /\ outcomes'[j] = outcomes[j] \o e
  BY DEF StoreInv, StoreTypeOK, Entries
<1>2. ModelsIn(outcomes[j]) \cap ModelsIn(e) = {}
  BY DEF LogInv, Logged
<1>3. OncePerModel(outcomes[j])
  BY DEF LogInv, Logged
<1>4. /\ OncePerModel(outcomes'[j])
      /\ ModelsIn(outcomes'[j]) = ModelsIn(outcomes[j]) \cup ModelsIn(e)
      /\ SubSeq(outcomes'[j], 1, Len(outcomes[j])) = outcomes[j]
      /\ outcomes'[j] # outcomes[j]
  BY <1>1, <1>2, <1>3, LogConcat
<1>5. OpenModels(j) \subseteq 1..size[j]
  BY DEF OpenModels
<1>6. ModelsIn(outcomes'[j]) = (1..size[j]) \ OpenModels(j)'
  BY <1>4, <1>5 DEF LogInv, Logged
<1>7. ASSUME NEW i \in Jobs  PROVE Logged(i)'
  <2>1. CASE i = j
    BY <2>1, <1>4, <1>6 DEF Logged, OncePerModel, ModelsIn
  <2>2. CASE i # j
    <3>1. outcomes'[i] = outcomes[i]
      BY <2>2 DEF StoreInv, StoreTypeOK
    <3>2. \A k \in 1..size[i] : <<i, k>> \in Tasks
      BY StoreAssumption DEF StoreInv, StoreTypeOK, Tasks, Models
    <3>3. OpenModels(i)' = OpenModels(i)
      BY <2>2, <3>2 DEF OpenModels
    <3>4. Logged(i)
      BY DEF LogInv
    <3>5. OncePerModel(outcomes[i])'
      BY <3>1, <3>4 DEF Logged, OncePerModel
    <3>6. ModelsIn(outcomes'[i]) = (1..size'[i]) \ OpenModels(i)'
      BY <3>1, <3>3, <3>4 DEF Logged
    <3>7. QED
      BY <3>5, <3>6 DEF Logged
  <2>3. QED
    BY <2>1, <2>2
<1>8. j \notin {i \in Jobs : status[i] \in TerminalStatuses}
  BY DEF StoreInv, SummaryInv, Summary
<1>9. status'[j] \in TerminalStatuses <=> ModelsIn(outcomes'[j]) = 1..size[j]
  <2>1. Summary(j)' /\ size'[j] \in 0..MaxModels
    BY DEF StoreInv, SummaryInv, StoreTypeOK
  <2>2. OpenModels(j)' = {}
          <=> \A t \in TasksOf(j)' : model'[t] \notin OpenStates
    BY <2>1, NoneOpen DEF OpenModels, TasksOf
  <2>3. status'[j] \in TerminalStatuses <=> OpenModels(j)' = {}
    BY <2>1, <2>2 DEF Summary
  <2>4. QED
    BY <2>3, <1>5, <1>6
<1>10. Contract!Answer(j)
  <2>1. {i \in Jobs : status'[i] \in TerminalStatuses} =
          IF ModelsIn(outcomes'[j]) = 1..size[j]
            THEN {i \in Jobs : status[i] \in TerminalStatuses} \cup {j}
            ELSE {i \in Jobs : status[i] \in TerminalStatuses}
    BY <1>8, <1>9
  <2>2. outcomes' = [outcomes EXCEPT ![j] = outcomes'[j]]
    BY <1>1
  <2>3. ModelsIn(outcomes'[j]) \subseteq 1..size[j]
    BY <1>6
  <2>4. QED
    BY <1>4, <1>8, <2>1, <2>2, <2>3
    DEF Contract!Answer, ModelsIn, OncePerModel
<1>11. QED
  BY <1>7, <1>10

(* Only terminal jobs are forgotten, and none comes back.                  *)
LEMMA ForgetStep ==
  ASSUME StoreInv, StoreInv', LogInv, [StoreNext]_storeVars
  PROVE  /\ Contract!Forget
         /\ \A j \in Jobs : size'[j] > 0 /\ (j \notin present' \/ j \in overdue')
                              => terminal'[j]
<1>1. \A j \in Jobs : size[j] > 0 /\ terminal[j]
                        => status[j] \in TerminalStatuses
  BY DEF StoreInv, SummaryInv, Summary
<1>2. \A j \in present : size[j] > 0
  BY DEF StoreInv, PresentCreated
<1>3. CASE \E j \in Jobs, n \in Models, sid \in SubmissionIds \cup {None},
             fp \in Fingerprints : Reserve(j, n, sid, fp)
  <2>1. PICK j \in Jobs, n \in Models, sid \in SubmissionIds \cup {None},
             fp \in Fingerprints : Reserve(j, n, sid, fp)
    BY <1>3
  <2>2. /\ present' = Kept \cup {j} /\ overdue' = {} /\ terminal' = terminal
        /\ size[j] = 0 /\ n > 0
        /\ \A i \in Jobs : size'[i] = IF i = j THEN n ELSE size[i]
    BY <2>1, StoreAssumption DEF Reserve, StoreInv, StoreTypeOK, Models
  <2>3. j \notin present
    BY <1>2, <2>2
  <2>4. QED
    BY <1>1, <1>2, <2>2, <2>3 DEF Contract!Forget, LogInv, Kept
<1>4. CASE \E j \in Jobs : Elapse(j)
  <2>1. PICK j \in Jobs : Elapse(j)
    BY <1>4
  <2>2. QED
    BY <2>1, <1>1 DEF Contract!Forget, LogInv, Elapse
<1>5. CASE /\ Prune /\ size' = size
           /\ \A j \in Jobs : terminal[j] => terminal'[j]
  BY <1>1, <1>5 DEF Contract!Forget, LogInv, Prune, Kept
<1>6. CASE UNCHANGED storeVars
  BY <1>1, <1>6 DEF Contract!Forget, LogInv, storeVars
<1>7. QED
  <2>1. ASSUME NEW t \in Tasks, NEW r \in Results, FinishModel(t, r)
        PROVE  Prune /\ size' = size
               /\ \A j \in Jobs : terminal[j] => terminal'[j]
    BY <2>1 DEF FinishModel, StoreInv, StoreTypeOK
  <2>2. ASSUME NEW j \in Jobs, CancelJob(j)
        PROVE  Prune /\ size' = size
               /\ \A i \in Jobs : terminal[i] => terminal'[i]
    BY <2>2 DEF CancelJob, StoreInv, StoreTypeOK
  <2>3. QED
    BY <1>3, <1>4, <1>5, <1>6, <2>1, <2>2
    DEF StoreNext, StartModel, Touch

(* Each operation of the store is an acceptance, an answer or no step of   *)
(* the contract, and leaves the log as LogInv says.                        *)
ContractStep ==
  \/ \E j \in Jobs : j \in present' /\ (Contract!Accept(j) \/ Contract!Answer(j))
  \/ UNCHANGED <<size, outcomes, {j \in Jobs : status[j] \in TerminalStatuses}>>

LEMMA ReserveAccepts ==
  ASSUME StoreInv, StoreInv', LogInv,
         NEW j \in Jobs, NEW n \in Models,
         NEW sid \in SubmissionIds \cup {None}, NEW fp \in Fingerprints,
         Reserve(j, n, sid, fp)
  PROVE  ContractStep /\ \A i \in Jobs : Logged(i)'
<1>1. /\ size[j] = 0 /\ j \in present'
      /\ size' = [size EXCEPT ![j] = n]
      /\ UNCHANGED <<model, outcomes, status>>
  BY DEF Reserve
<1>2. Contract!Accept(j)
  BY <1>1 DEF Contract!Accept, Models
<1>3. ASSUME NEW i \in Jobs  PROVE Logged(i)'
  <2>1. Logged(i) /\ size \in [Jobs -> 0..MaxModels]
    BY DEF LogInv, StoreInv, StoreTypeOK
  <2>2. CASE i = j
    <3>1. \A k \in 1..n : <<j, k>> \in Tasks
      BY StoreAssumption DEF Tasks, Models
    <3>2. \A k \in 1..n : model[<<j, k>>] = "queued"
      BY <1>1, <3>1 DEF StoreInv, SummaryInv, TasksOf, Models
    <3>3. size'[j] = n
      BY <1>1, <2>1
    <3>4. OpenModels(j)' = 1..n
      BY <1>1, <3>2, <3>3 DEF OpenModels, OpenStates
    <3>5. ModelsIn(outcomes[j]) = {}
      BY <1>1, <2>1, <2>2 DEF Logged
    <3>6. QED
      BY <1>1, <2>1, <2>2, <3>3, <3>4, <3>5 DEF Logged
  <2>3. CASE i # j
    <3>1. size'[i] = size[i]
      BY <1>1, <2>1, <2>3
    <3>2. OpenModels(i)' = OpenModels(i)
      BY <1>1, <3>1 DEF OpenModels
    <3>3. QED
      BY <1>1, <2>1, <3>1, <3>2 DEF Logged
  <2>4. QED
    BY <2>2, <2>3
<1>4. QED
  BY <1>1, <1>2, <1>3 DEF ContractStep

LEMMA StartModelStutters ==
  ASSUME StoreInv, StoreInv', LogInv, NEW t \in Tasks, t \in TasksOf(t[1]),
         StartModel(t)
  PROVE  ContractStep /\ \A i \in Jobs : Logged(i)'
<1> DEFINE j == t[1]
<1>1. /\ UNCHANGED <<size, outcomes>> /\ model[t] = "queued"
      /\ model' = [model EXCEPT ![t] = "running"]
      /\ status' = [status EXCEPT ![j] = "running"]
  BY DEF StartModel, CanStart
<1>2. j \in Jobs /\ size[j] > 0
  BY TaskParts, StoreAssumption DEF TasksOf, StoreInv, StoreTypeOK, Models
<1>3. status[j] \notin TerminalStatuses
  BY <1>1, <1>2 DEF StoreInv, SummaryInv, Summary, OpenStates
<1>4. {i \in Jobs : status'[i] \in TerminalStatuses}
        = {i \in Jobs : status[i] \in TerminalStatuses}
  BY <1>1, <1>3 DEF StoreInv, StoreTypeOK, TerminalStatuses
<1>5. ASSUME NEW i \in Jobs  PROVE Logged(i)'
  <2>1. \A k \in 1..size[i] :
          model'[<<i, k>>] \in OpenStates <=> model[<<i, k>>] \in OpenStates
    <3>1. \A k \in 1..size[i] : <<i, k>> \in Tasks
      BY StoreAssumption DEF StoreInv, StoreTypeOK, Tasks, Models
    <3>2. QED
      BY <1>1, <3>1 DEF StoreInv, StoreTypeOK, OpenStates
  <2>2. OpenModels(i)' = OpenModels(i)
    BY <1>1, <2>1 DEF OpenModels
  <2>3. QED
    BY <1>1, <2>2 DEF LogInv, Logged
<1>6. QED
  BY <1>1, <1>4, <1>5 DEF ContractStep

LEMMA FinishModelAnswers ==
  ASSUME StoreInv, StoreInv', LogInv, NEW t \in Tasks, NEW r \in Results,
         model[t] # "queued", FinishModel(t, r)
  PROVE  ContractStep /\ \A i \in Jobs : Logged(i)'
<1> DEFINE j == t[1]
           verdict == IF Fits(t, r) THEN "succeeded" ELSE "failed"
           entry == [model |-> t[2], verdict |-> verdict]
<1>1. /\ j \in Jobs /\ t[2] \in Models /\ t = <<j, t[2]>>
      /\ t[2] \in 1..size[j] /\ size[j] > 0
  BY StoreAssumption
  DEF StoreInv, StoreTypeOK, SummaryInv, TasksOf, Tasks, Models
<1>2. /\ size' = size /\ j \in present'
      /\ model[t] \in OpenStates
      /\ model' = [model EXCEPT ![t] = verdict]
      /\ outcomes' = [outcomes EXCEPT ![j] = Append(@, entry)]
  BY DEF FinishModel, StillOpen, Prune
<1>3. verdict \in ModelStates /\ verdict \notin OpenStates
  BY DEF ModelStates, OpenStates
<1>4. entry \in Entries /\ <<entry>> \in Seq(Entries)
  BY <1>1, <1>3 DEF Entries
<1>5. outcomes' = [outcomes EXCEPT ![j] = @ \o <<entry>>]
  <2>1. outcomes[j] \in Seq(Entries)
    BY <1>1 DEF StoreInv, StoreTypeOK, Entries
  <2>2. Append(outcomes[j], entry) = outcomes[j] \o <<entry>>
    BY <1>4, <2>1, AppendIsConcat
  <2>3. QED
    BY <1>2, <2>2
<1>6. OncePerModel(<<entry>>) /\ <<entry>> # <<>>
  BY DEF OncePerModel
<1>7. ModelsIn(<<entry>>) = {t[2]}
  BY DEF ModelsIn, Contract!ModelsIn
<1>8. \A k \in 1..size[j] : <<j, k>> \in Tasks /\ (<<j, k>> = t <=> k = t[2])
  BY <1>1, StoreAssumption DEF StoreInv, StoreTypeOK, Tasks, Models
<1>9. OpenModels(j)' = OpenModels(j) \ {t[2]} /\ t[2] \in OpenModels(j)
  <2>1. \A k \in 1..size[j] :
          model'[<<j, k>>] = IF k = t[2] THEN verdict ELSE model[<<j, k>>]
    BY <1>2, <1>8 DEF StoreInv, StoreTypeOK
  <2>2. model[<<j, t[2]>>] \in OpenStates
    BY <1>1, <1>2
  <2>3. QED
    BY <1>1, <1>2, <1>3, <2>1, <2>2 DEF OpenModels
<1>10. ~terminal[j]
  BY <1>1, <1>2 DEF StoreInv, SummaryInv, Summary
<1>11. \A i \in Jobs \ {j} : status'[i] = status[i]
  BY DEF FinishModel, StoreInv, StoreTypeOK
<1>12. \A u \in Tasks : u[1] # j => model'[u] = model[u]
  BY <1>2 DEF StoreInv, StoreTypeOK
<1> HIDE DEF entry, verdict
<1>13. Contract!Answer(j) /\ \A i \in Jobs : Logged(i)'
  <2>1. /\ OpenModels(j)' \subseteq OpenModels(j)
        /\ ModelsIn(<<entry>>) = OpenModels(j) \ OpenModels(j)'
    BY <1>7, <1>9
  <2>2. QED
    BY <1>1, <1>2, <1>4, <1>5, <1>6, <1>10, <1>11, <1>12, <2>1, AnswerStep
<1>14. QED
  BY <1>1, <1>2, <1>13 DEF ContractStep

(* One entry for each open model, in index order.                          *)
LEMMA CancelledEntries ==
  ASSUME NEW open \in SUBSET Models, IsFiniteSet(open), open # {},
         NEW order \in IndexOrders(open),
         NEW e \in [1..Cardinality(open) -> Entries],
         \A k \in 1..Cardinality(open) : e[k].model = order[k]
  PROVE  /\ e \in Seq(Entries) /\ e # <<>>
         /\ OncePerModel(e)
         /\ ModelsIn(e) = open
<1> DEFINE n == Cardinality(open)
<1>1. n \in Nat /\ n > 0
  BY FS_CardinalityType, FS_EmptySet
<1>2. /\ order \in [1..n -> open]
      /\ \A k, m \in 1..n : k < m => order[k] < order[m]
      /\ \A i \in open : \E k \in 1..n : order[k] = i
  BY DEF IndexOrders
<1>3. \A k \in 1..n : order[k] \in Models /\ order[k] \in Int
  <2>1. \A k \in 1..n : order[k] \in open
    BY <1>2
  <2>2. open \subseteq Int
    BY StoreAssumption DEF Models
  <2>3. QED
    BY <2>1, <2>2
<1> HIDE DEF n
<1>4. e \in [1..n -> Entries]
  BY DEF n
<1>5. e \in Seq(Entries)
  BY <1>1, <1>4, FunctionIsSequence
<1>6. Len(e) = n /\ DOMAIN e = 1..n
  BY <1>1, <1>4, FunctionIsSequence
<1>7. \A k \in 1..n : e[k].model = order[k]
  BY DEF n
<1>8. OncePerModel(e)
  <2> SUFFICES ASSUME NEW k \in 1..n, NEW m \in 1..n, order[k] = order[m]
               PROVE  k = m
    BY <1>6, <1>7 DEF OncePerModel
  <2>1. ~(k < m) /\ ~(m < k)
    BY <1>2, <1>3
  <2>2. QED
    BY <2>1, <1>1
<1>9. ModelsIn(e) = open
  BY <1>2, <1>6, <1>7 DEF ModelsIn, Contract!ModelsIn
<1>10. QED
  <2>1. Len(<<>>) = 0
    BY EmptySeq
  <2>2. e # <<>>
    BY <1>1, <1>6, <2>1
  <2>3. QED
    BY <1>5, <1>8, <1>9, <2>2 DEF n

LEMMA CancelJobAnswers ==
  ASSUME StoreInv, StoreInv', LogInv, NEW j \in Jobs, CancelJob(j)
  PROVE  ContractStep /\ \A i \in Jobs : Logged(i)'
<1> DEFINE open == OpenModels(j)
<1>1. /\ size' = size /\ j \in present' /\ j \in present /\ ~terminal[j]
      /\ model' = [t \in Tasks |->
                     IF t \in TasksOf(j) /\ model[t] \in OpenStates
                       THEN "cancelled" ELSE model[t]]
  BY DEF CancelJob, CanCancel, Prune, Kept
<1>2. size[j] > 0 /\ size[j] \in 0..MaxModels
  BY <1>1 DEF StoreInv, PresentCreated, StoreTypeOK
<1>3. PICK order \in IndexOrders(open) :
        outcomes' = [outcomes EXCEPT ![j] = @ \o
          [k \in 1..Cardinality(open) |->
             [model |-> order[k], verdict |-> "cancelled"]]]
  BY DEF CancelJob
<1> DEFINE e == [k \in 1..Cardinality(open) |->
                   [model |-> order[k], verdict |-> "cancelled"]]
<1>4. open \in SUBSET Models /\ IsFiniteSet(open)
  <2>1. open \subseteq 1..size[j] /\ 1..size[j] \subseteq Models
    BY <1>2, StoreAssumption DEF OpenModels, Models
  <2>2. IsFiniteSet(1..size[j])
    BY <1>2, StoreAssumption, FS_Interval
  <2>3. QED
    BY <2>1, <2>2, FS_Subset
<1>5. open # {}
  BY <1>1, <1>2, NoneOpen
  DEF OpenModels, StoreInv, SummaryInv, Summary, TasksOf
<1>6. e \in Seq(Entries) /\ e # <<>> /\ OncePerModel(e) /\ ModelsIn(e) = open
  <2>1. order \in [1..Cardinality(open) -> open]
    BY <1>3 DEF IndexOrders
  <2>2. /\ e \in [1..Cardinality(open) -> Entries]
        /\ \A k \in 1..Cardinality(open) : e[k].model = order[k]
    BY <1>4, <2>1 DEF Entries, ModelStates
  <2>3. QED
    BY <1>3, <1>4, <1>5, <2>2, CancelledEntries
<1>7. OpenModels(j)' = {}
  <2>1. \A k \in 1..size[j] : <<j, k>> \in TasksOf(j)
    BY <1>2, StoreAssumption DEF TasksOf, Tasks, Models
  <2>2. \A k \in 1..size[j] : model'[<<j, k>>] \notin OpenStates
    BY <1>1, <2>1 DEF OpenStates, TasksOf
  <2>3. QED
    BY <1>1, <2>2 DEF OpenModels
<1>8. /\ \A i \in Jobs \ {j} : status'[i] = status[i]
      /\ \A u \in Tasks : u[1] # j => model'[u] = model[u]
  BY <1>1 DEF CancelJob, StoreInv, StoreTypeOK, TasksOf
<1> HIDE DEF e
<1>9. OpenModels(j)' \subseteq open /\ ModelsIn(e) = open \ OpenModels(j)'
  BY <1>6, <1>7
<1>10. outcomes' = [outcomes EXCEPT ![j] = @ \o e]
  BY <1>3 DEF e
<1>11. Contract!Answer(j) /\ \A i \in Jobs : Logged(i)'
  BY <1>1, <1>2, <1>6, <1>8, <1>9, <1>10, AnswerStep
<1>12. QED
  BY <1>1, <1>11 DEF ContractStep

LEMMA LogStep ==
  ASSUME StoreInv, StoreInv', LogInv, [StoreNext]_storeVars
  PROVE  ContractStep /\ \A j \in Jobs : Logged(j)'
<1>1. CASE \E j \in Jobs, n \in Models, sid \in SubmissionIds \cup {None},
             fp \in Fingerprints : Reserve(j, n, sid, fp)
  BY <1>1, ReserveAccepts
<1>2. CASE \E t \in Tasks : t \in TasksOf(t[1]) /\ StartModel(t)
  BY <1>2, StartModelStutters
<1>3. CASE \E t \in Tasks, r \in Results :
             model[t] # "queued" /\ FinishModel(t, r)
  BY <1>3, FinishModelAnswers
<1>4. CASE \E j \in Jobs : CancelJob(j)
  BY <1>4, CancelJobAnswers
<1>5. CASE UNCHANGED <<size, model, outcomes, status>>
  <2>1. ASSUME NEW j \in Jobs  PROVE Logged(j)'
    <3>1. OpenModels(j)' = OpenModels(j)
      BY <1>5 DEF OpenModels
    <3>2. QED
      BY <1>5, <3>1 DEF LogInv, Logged
  <2>2. QED
    BY <1>5, <2>1 DEF ContractStep
<1>6. QED
  BY <1>1, <1>2, <1>3, <1>4, <1>5
  DEF StoreNext, Elapse, Touch, storeVars

LEMMA InitLogInv == StoreInit => LogInv /\ Contract!ContractInit
<1> SUFFICES ASSUME StoreInit  PROVE LogInv /\ Contract!ContractInit
  OBVIOUS
<1>1. ASSUME NEW j \in Jobs  PROVE Logged(j)
  <2>1. outcomes[j] = <<>> /\ size[j] = 0
    BY DEF StoreInit
  <2>2. Len(<<>>) = 0 /\ DOMAIN <<>> = {}
    BY EmptySeq
  <2>3. OncePerModel(outcomes[j])
    BY <2>1, <2>2 DEF OncePerModel
  <2>4. ModelsIn(outcomes[j]) = {}
    BY <2>1, <2>2 DEF ModelsIn, Contract!ModelsIn
  <2>5. QED
    BY <2>1, <2>3, <2>4 DEF Logged
<1>2. LogInv
  BY <1>1 DEF LogInv, StoreInit
<1>3. Contract!ContractInit
  BY DEF StoreInit, Contract!ContractInit, TerminalStatuses
<1>4. QED
  BY <1>2, <1>3

(* The store implements the contract, step by step: whatever is reserved,  *)
(* started, finished, cancelled or pruned, each model is answered once,    *)
(* the status turns terminal in the step that answers the last one, and    *)
(* only terminal jobs are forgotten.                                       *)
THEOREM StoreHonoursContract == StoreSpec => HonoursContract
<1>1. StoreInit => StoreInv /\ LogInv /\ Contract!ContractInit
  BY InitStoreInv, InitLogInv
<1>2. StoreInv /\ LogInv /\ [StoreNext]_storeVars => StoreInv' /\ LogInv'
  BY StoreInvStep, LogStep, ForgetStep DEF LogInv
<1>3. StoreInv /\ LogInv /\ [StoreNext]_storeVars
        => [Contract!ContractNext]_(Contract!contractVars)
  <2> SUFFICES ASSUME StoreInv, LogInv, [StoreNext]_storeVars
               PROVE  Contract!ContractNext
    OBVIOUS
  <2>1. Contract!Forget /\ ContractStep
    BY StoreInvStep, ForgetStep, LogStep
  <2>2. QED
    BY <2>1 DEF ContractStep, Contract!ContractNext
<1>4. QED
  BY <1>1, <1>2, <1>3, PTL
  DEF StoreSpec, HonoursContract, Contract!ContractSpec

-----------------------------------------------------------------------------
(* Byte accounting.  The jobs the store holds are finitely many, and one   *)
(* that was not created holds no bytes, so a new job adds none.            *)

BytesInv ==
  /\ IsFiniteSet(present)
  /\ SumOf(bytes, present) <= MaxRetainedBytes
  /\ \A j \in Jobs : bytes[j] <= MaxJobBytes
  /\ \A j \in Jobs : size[j] = 0 => bytes[j] = 0

LEMMA BytesOfInv == BytesInv => BytesWithinLimits
  BY DEF BytesInv, BytesWithinLimits, SumOf, MapThenSumSet, MapThenFoldSet

LEMMA RetainedIsSum == RetainedBytes = SumOf(bytes, Kept)
  BY DEF RetainedBytes, SumOf, MapThenSumSet, MapThenFoldSet

(* What pruning leaves weighs no more than what there was.                 *)
LEMMA KeptBytes ==
  ASSUME StoreTypeOK, BytesInv
  PROVE  /\ IsFiniteSet(Kept)
         /\ SumOf(bytes, Kept) \in Nat
         /\ SumOf(bytes, Kept) <= MaxRetainedBytes
<1>1. Kept \in SUBSET present /\ \A j \in present : bytes[j] \in Nat
  BY DEF Kept, StoreTypeOK
<1>2. IsFiniteSet(present) /\ IsFiniteSet(Kept)
  BY <1>1, FS_Subset DEF BytesInv
<1>3. SumOf(bytes, Kept) \in Nat /\ SumOf(bytes, present) \in Nat
  BY <1>1, <1>2, SumType
<1>4. SumOf(bytes, Kept) <= SumOf(bytes, present)
  BY <1>1, <1>2, SumSubset
<1>5. QED
  BY <1>2, <1>3, <1>4, StoreAssumption DEF BytesInv

LEMMA ReserveBytes ==
  ASSUME StoreInv, BytesInv,
         NEW j \in Jobs, NEW n \in Models,
         NEW sid \in SubmissionIds \cup {None}, NEW fp \in Fingerprints,
         Reserve(j, n, sid, fp)
  PROVE  BytesInv'
<1>1. /\ size[j] = 0 /\ bytes' = bytes /\ present' = Kept \cup {j}
      /\ \A i \in Jobs : size'[i] = IF i = j THEN n ELSE size[i]
  BY DEF Reserve, StoreInv, StoreTypeOK
<1>2. j \notin Kept /\ bytes[j] = 0
  BY <1>1 DEF StoreInv, PresentCreated, Kept, BytesInv
<1>3. /\ IsFiniteSet(Kept) /\ SumOf(bytes, Kept) \in Nat
      /\ SumOf(bytes, Kept) <= MaxRetainedBytes
  BY KeptBytes DEF StoreInv
<1>4. \A i \in Kept \cup {j} : bytes[i] \in Nat
  BY DEF Kept, StoreInv, StoreTypeOK
<1>5. SumOf(bytes, Kept \cup {j}) = SumOf(bytes, Kept) + bytes[j]
  BY <1>2, <1>3, <1>4, SumAdd
<1>6. IsFiniteSet(present')
  BY <1>1, <1>3, FS_AddElement
<1>7. n # 0
  BY StoreAssumption DEF Models
<1>8. QED
  BY <1>1, <1>2, <1>3, <1>5, <1>6, <1>7 DEF BytesInv

(* A result is only kept when the job and the store have room for it.      *)
LEMMA FinishModelBytes ==
  ASSUME StoreInv, BytesInv, NEW t \in Tasks, NEW r \in Results,
         FinishModel(t, r)
  PROVE  BytesInv'
<1> DEFINE j == t[1]
<1>1. j \in Jobs /\ r \in Nat
  BY TaskParts, StoreAssumption DEF Results, NoResult
<1>2. present' = Kept /\ size' = size /\ j \in Kept /\ size[j] > 0
  BY DEF FinishModel, Prune, StillOpen, Kept, StoreInv, PresentCreated
<1>3. /\ IsFiniteSet(Kept) /\ SumOf(bytes, Kept) \in Nat
      /\ SumOf(bytes, Kept) <= MaxRetainedBytes
  BY KeptBytes DEF StoreInv
<1>4. bytes \in [Jobs -> Nat] /\ Kept \subseteq Jobs
  BY DEF StoreInv, StoreTypeOK, Kept
<1>5. CASE Fits(t, r)
  <2>1. bytes' = [bytes EXCEPT ![j] = bytes[j] + r]
    BY <1>5 DEF FinishModel
  <2>2. /\ bytes[j] + r <= MaxJobBytes
        /\ SumOf(bytes, Kept) + r <= MaxRetainedBytes
    BY <1>5, RetainedIsSum DEF Fits
  <2>3. /\ bytes'[j] = bytes[j] + r
        /\ \A i \in Jobs \ {j} : bytes'[i] = bytes[i]
    BY <1>1, <1>4, <2>1
  <2>4. \A i \in Kept : bytes[i] \in Nat /\ bytes'[i] \in Nat
    BY <1>1, <1>4, <2>3
  <2>5. \A i \in Kept \ {j} : bytes'[i] = bytes[i]
    BY <1>4, <2>3
  <2>6. SumOf(bytes', Kept) = SumOf(bytes, Kept) + bytes'[j] - bytes[j]
    BY <1>2, <1>3, <2>4, <2>5, SumChange
  <2>7. SumOf(bytes', Kept) = SumOf(bytes, Kept) + r
    BY <1>1, <1>3, <1>4, <2>3, <2>6
  <2>8. /\ \A i \in Jobs : bytes'[i] <= MaxJobBytes
        /\ \A i \in Jobs : size'[i] = 0 => bytes'[i] = 0
    BY <1>2, <2>2, <2>3 DEF BytesInv
  <2>9. QED
    BY <1>2, <1>3, <2>2, <2>7, <2>8 DEF BytesInv
<1>6. CASE ~Fits(t, r)
  <2>1. bytes' = bytes
    BY <1>6 DEF FinishModel
  <2>2. QED
    BY <1>2, <1>3, <2>1 DEF BytesInv
<1>7. QED
  BY <1>5, <1>6

LEMMA BytesStep ==
  ASSUME StoreInv, BytesInv, [StoreNext]_storeVars
  PROVE  BytesInv'
<1>1. CASE \E j \in Jobs, n \in Models, sid \in SubmissionIds \cup {None},
             fp \in Fingerprints : Reserve(j, n, sid, fp)
  BY <1>1, ReserveBytes
<1>2. CASE \E t \in Tasks, r \in Results :
             model[t] # "queued" /\ FinishModel(t, r)
  BY <1>2, FinishModelBytes
<1>3. CASE present' = Kept /\ UNCHANGED <<size, bytes>>
  BY <1>3, KeptBytes DEF BytesInv, StoreInv
<1>4. CASE UNCHANGED <<present, size, bytes>>
  BY <1>4 DEF BytesInv
<1>5. QED
  BY <1>1, <1>2, <1>3, <1>4
  DEF StoreNext, StartModel, CancelJob, Elapse, Touch, Prune, storeVars

(* Results retained for all jobs together never weigh more than            *)
(* max_retained_bytes, nor those of one job more than                      *)
(* max_job_outcome_bytes, whichever workers finish in whatever order and   *)
(* whatever expires in between.                                            *)
THEOREM BytesAreBounded == StoreSpec => []BytesWithinLimits
<1>1. StoreInit => BytesInv
  <2> SUFFICES ASSUME StoreInit  PROVE BytesInv
    OBVIOUS
  <2>1. present = {} /\ IsFiniteSet({}) /\ SumOf(bytes, {}) = 0
    BY FS_EmptySet, SumEquation DEF StoreInit
  <2>2. QED
    BY <2>1, StoreAssumption DEF StoreInit, BytesInv
<1>2. StoreInv /\ BytesInv /\ [StoreNext]_storeVars => BytesInv'
  BY BytesStep
<1>3. QED
  BY <1>1, <1>2, BytesOfInv, StoreAlways, PTL DEF StoreSpec

-----------------------------------------------------------------------------
(* What the callers of the store rely on: sizes are given once, answered   *)
(* models stay answered, terminal jobs stay terminal, and a job that left  *)
(* does not come back.                                                     *)
LEMMA StoreEffects ==
  ASSUME StoreInv, [StoreNext]_storeVars
  PROVE  /\ \A j \in Jobs : size[j] > 0 => size'[j] = size[j]
         /\ \A t \in Tasks : model[t] # "queued" => model'[t] # "queued"
         /\ \A t \in Tasks : model[t] \notin OpenStates
                               => model'[t] \notin OpenStates
         /\ \A j \in Jobs : terminal[j] => terminal'[j]
         /\ \A j \in Jobs : j \in present' => j \in present \/ size[j] = 0
<1>1. CASE \E j \in Jobs, n \in Models, sid \in SubmissionIds \cup {None},
             fp \in Fingerprints : Reserve(j, n, sid, fp)
  BY <1>1 DEF Reserve, Kept, StoreInv, StoreTypeOK
<1>2. CASE \E t \in Tasks : t \in TasksOf(t[1]) /\ StartModel(t)
  BY <1>2
  DEF StartModel, CanStart, Prune, Kept, StoreInv, StoreTypeOK, OpenStates
<1>3. CASE \E t \in Tasks, r \in Results :
             model[t] # "queued" /\ FinishModel(t, r)
  <2>1. PICK t \in Tasks, r \in Results : FinishModel(t, r)
    BY <1>3
  <2> DEFINE verdict == IF Fits(t, r) THEN "succeeded" ELSE "failed"
  <2>2. \A u \in Tasks : model'[u] = IF u = t THEN verdict ELSE model[u]
    BY <2>1 DEF FinishModel, StoreInv, StoreTypeOK
  <2>3. verdict # "queued" /\ verdict \notin OpenStates
    BY DEF OpenStates
  <2> HIDE DEF verdict
  <2>4. \A j \in Jobs : terminal[j] => terminal'[j]
    BY <2>1 DEF FinishModel, StoreInv, StoreTypeOK
  <2>5. present' \subseteq present /\ size' = size
    BY <2>1 DEF FinishModel, Prune, Kept
  <2>6. QED
    BY <2>2, <2>3, <2>4, <2>5
<1>4. CASE \E j \in Jobs : CancelJob(j)
  BY <1>4 DEF CancelJob, Prune, Kept, StoreInv, StoreTypeOK, OpenStates
<1>5. CASE present' \subseteq present /\ UNCHANGED <<size, model, terminal>>
  BY <1>5
<1>6. QED
  BY <1>1, <1>2, <1>3, <1>4, <1>5
  DEF StoreNext, Elapse, Touch, Prune, Kept, storeVars

(* Only cancel makes a job cancelled, only start_model makes one of its    *)
(* models run.                                                             *)
LEMMA StoreCauses ==
  ASSUME StoreInv, [StoreNext]_storeVars
  PROVE  /\ \A j \in Jobs : status'[j] = "cancelled" =>
              status[j] = "cancelled" \/ CancelJob(j)
         /\ \A t \in Tasks : model'[t] = "running" =>
              model[t] = "running" \/ StartModel(t)
<1>1. CASE \E t \in Tasks : t \in TasksOf(t[1]) /\ StartModel(t)
  <2>1. PICK t \in Tasks : StartModel(t)
    BY <1>1
  <2>2. QED
    BY <2>1, TaskParts DEF StartModel, StoreInv, StoreTypeOK
<1>2. CASE \E t \in Tasks, r \in Results :
             model[t] # "queued" /\ FinishModel(t, r)
  <2>1. PICK t \in Tasks, r \in Results : FinishModel(t, r)
    BY <1>2
  <2>2. \A u \in Tasks : model'[u] = "running" => model[u] = "running"
    BY <2>1 DEF FinishModel, StoreInv, StoreTypeOK
  <2>3. \A j \in Jobs : status'[j] = "cancelled" => status[j] = "cancelled"
    BY <2>1, TaskParts DEF FinishModel, FinalStatus, StoreInv, StoreTypeOK
  <2>4. QED
    BY <2>2, <2>3
<1>3. CASE \E j \in Jobs : CancelJob(j)
  <2>1. PICK j \in Jobs : CancelJob(j)
    BY <1>3
  <2>2. /\ \A i \in Jobs \ {j} : status'[i] = status[i]
        /\ \A t \in Tasks : model'[t] = "running" => model[t] = "running"
    BY <2>1 DEF CancelJob, StoreInv, StoreTypeOK
  <2>3. QED
    BY <2>1, <2>2
<1>4. CASE UNCHANGED <<model, status>>
  BY <1>4
<1>5. QED
  BY <1>1, <1>2, <1>3, <1>4
  DEF StoreNext, Reserve, Elapse, Touch, Prune, Kept, storeVars

(* A terminal job has no model left to answer.                             *)
LEMMA TerminalIsAnswered ==
  ASSUME StoreInv, NEW t \in Tasks, t \in TasksOf(t[1]), terminal[t[1]]
  PROVE  model[t] \notin OpenStates
  BY TaskParts DEF StoreInv, StoreTypeOK, SummaryInv, Summary

-----------------------------------------------------------------------------
(* The types of the service, action by action.                             *)

LEMMA StartJobTypeOK ==
  ASSUME NEW j \in Jobs, TypeOK, StartJob(j)
  PROVE  /\ active' \in SUBSET Jobs
         /\ futures' \in SUBSET Jobs
         /\ fifo' \in Seq(Tasks)
         /\ pc' \in [Tasks -> Steps]
<1> DEFINE n == size[j]
           new == [i \in 1..n |-> <<j, i>>]
<1>1. n \in Nat /\ 1..n \subseteq Models
  BY StoreAssumption DEF TypeOK, StoreTypeOK, Models
<1>2. new \in [1..n -> Tasks]
  BY <1>1 DEF Tasks
<1>3. new \in Seq(Tasks)
  <2> HIDE DEF n, new
  <2>1. QED
    BY <1>1, <1>2, SeqDef
<1>4. fifo' \in Seq(Tasks)
  BY <1>3, ConcatProperties DEF StartJob, TypeOK
<1>5. QED
  BY <1>4 DEF StartJob, TypeOK, Steps

LEMMA ForgetFinishedTypeOK ==
  ASSUME NEW j \in Jobs, NEW thread \in Tasks \cup Handlers, TypeOK,
         ForgetFinished(j, thread)
  PROVE  /\ active' \in SUBSET Jobs
         /\ futures' \in SUBSET Jobs
         /\ lock' \in Tasks \cup Handlers \cup {None}
  BY DEF ForgetFinished, LoopOrRelease, TypeOK

LEMMA WithoutProperties ==
  ASSUME NEW queue \in Seq(Jobs), NEW j
  PROVE  /\ Without(queue, j) \in Seq(Jobs)
         /\ queue = <<>> => Without(queue, j) = <<>>
<1>1. CASE \E k \in 1..Len(queue) : queue[k] = j
  <2> DEFINE at == CHOOSE k \in 1..Len(queue) : queue[k] = j
             rest == [k \in 1..(Len(queue) - 1) |->
                        IF k < at THEN queue[k] ELSE queue[k + 1]]
  <2>1. at \in 1..Len(queue) /\ Len(queue) \in Nat
    BY <1>1, LenProperties
  <2>2. Len(queue) - 1 \in Nat
    BY <2>1
  <2>3. \A k \in 1..(Len(queue) - 1) : queue[k] \in Jobs /\ queue[k + 1] \in Jobs
    BY <2>1, ElementOfSeq
  <2>4. rest \in [1..(Len(queue) - 1) -> Jobs]
    BY <2>3
  <2>5. rest \in Seq(Jobs)
    <3> HIDE DEF rest
    <3>1. QED
      BY <2>2, <2>4, SeqDef
  <2>6. Without(queue, j) = rest
    BY <1>1 DEF Without
  <2>7. QED
    BY <2>1, <2>5, <2>6
<1>2. CASE ~ \E k \in 1..Len(queue) : queue[k] = j
  BY <1>2 DEF Without
<1>3. QED
  BY <1>1, <1>2

LEMMA SubmitTypeOK ==
  ASSUME TypeOK,
         NEW j \in Jobs, NEW n \in Models,
         NEW sid \in SubmissionIds \cup {None}, NEW fp \in Fingerprints,
         Submit(j, n, sid, fp)
  PROVE  TypeOK'
<1>1. StoreTypeOK'
  BY ReserveTypeOK DEF Submit, TypeOK
<1>2. QED
  BY <1>1 DEF Submit, TypeOK, schedVars, workerVars, closeVars

LEMMA SubmitStepTypeOK ==
  ASSUME TypeOK, NEW j \in Jobs, SubmitStep(j)
  PROVE  TypeOK'
<1>1. CASE SchedulerSubmit(j)
  <2>1. StoreTypeOK'
    BY <1>1, StoreUnchanged DEF SchedulerSubmit, TypeOK
  <2>2. /\ active' \in SUBSET Jobs
        /\ futures' \in SUBSET Jobs
        /\ fifo' \in Seq(Tasks)
        /\ pc' \in [Tasks -> Steps]
    BY <1>1, StartJobTypeOK DEF SchedulerSubmit, TypeOK, schedVars
  <2>3. pending' \in Seq(Jobs)
    <3>1. Append(pending, j) \in Seq(Jobs)
      BY AppendProperties DEF TypeOK
    <3>2. QED
      BY <1>1, <3>1 DEF SchedulerSubmit, TypeOK, schedVars
  <2>4. QED
    BY <1>1, <2>1, <2>2, <2>3 DEF SchedulerSubmit, TypeOK, closeVars
<1>2. CASE CancelRejected(j)
  <2>1. StoreTypeOK'
    BY <1>2, TouchTypeOK, CancelJobTypeOK DEF CancelRejected, TypeOK
  <2>2. QED
    BY <1>2, <2>1
    DEF CancelRejected, TypeOK, schedVars, workerVars, closeVars
<1>3. QED
  BY <1>1, <1>2 DEF SubmitStep

LEMMA DispatchTypeOK ==
  ASSUME TypeOK, Dispatch
  PROVE  TypeOK'
<1>1. pending \in Seq(Jobs) /\ pending # <<>>
  BY DEF TypeOK, Dispatch, MoreToStart
<1>2. Head(pending) \in Jobs /\ Tail(pending) \in Seq(Jobs)
  BY <1>1, HeadTailProperties
<1>3. /\ active' \in SUBSET Jobs
      /\ futures' \in SUBSET Jobs
      /\ fifo' \in Seq(Tasks)
      /\ pc' \in [Tasks -> Steps]
  <2>1. CASE StartJob(Head(pending))
    BY <2>1, <1>2, StartJobTypeOK
  <2>2. CASE UNCHANGED <<active, futures, fifo, pc>>
    BY <2>2 DEF TypeOK
  <2>3. QED
    BY <2>1, <2>2 DEF Dispatch
<1>4. StoreTypeOK'
  BY TouchTypeOK DEF Dispatch, TypeOK
<1>5. lock' \in Tasks \cup Handlers \cup {None}
  BY DEF Dispatch, LoopOrRelease, TypeOK
<1>6. pending' \in Seq(Jobs)
  BY <1>2 DEF Dispatch
<1>7. QED
  BY <1>3, <1>4, <1>5, <1>6 DEF Dispatch, TypeOK, httpVars, closeVars

LEMMA PickTypeOK ==
  ASSUME TypeOK, NEW t \in Tasks, Pick(t)
  PROVE  TypeOK'
<1>1. PICK k \in 1..Len(fifo) : fifo' = SubSeq(fifo, k + 1, Len(fifo))
  BY DEF Pick
<1>2. fifo' \in Seq(Tasks)
  <2>1. fifo \in Seq(Tasks) /\ Len(fifo) \in Nat
    BY LenProperties DEF TypeOK
  <2>2. \A i \in (k + 1)..Len(fifo) : fifo[i] \in Tasks
    BY <2>1, ElementOfSeq
  <2>3. QED
    BY <1>1, <2>1, <2>2, SubSeqProperties
<1>3. StoreTypeOK'
  BY StoreUnchanged DEF Pick, TypeOK
<1>4. QED
  BY <1>2, <1>3
  DEF Pick, Goto, TypeOK, Steps, RunningSteps, httpVars, closeVars

LEMMA WorkerStepTypeOK ==
  ASSUME TypeOK, NEW t \in Tasks, WorkerStep(t)
  PROVE  TypeOK'
<1>0. StoreTypeOK'
  <2>1. t[1] \in Jobs /\ answer[t] \in Results
    BY TaskParts DEF TypeOK
  <2>2. \/ UNCHANGED storeVars
        \/ Touch
        \/ StartModel(t)
        \/ FinishModel(t, answer[t])
    BY DEF WorkerStep, BeginModel, Spawn, Register, Communicate, Timeout,
           StopProcess, Unregister, Report, Return, Callback
  <2>3. QED
    BY <2>1, <2>2, StoreUnchanged, TouchTypeOK, StartModelTypeOK,
       FinishModelTypeOK DEF TypeOK
<1>1. pc' \in [Tasks -> Steps]
  BY DEF WorkerStep, BeginModel, Spawn, Register, Communicate, Timeout,
         StopProcess, Unregister, Report, Return, Callback, Goto, TypeOK,
         Steps, RunningSteps, DoneSteps
<1>2. answer' \in [Tasks -> Results]
  BY DEF WorkerStep, BeginModel, Spawn, Register, Communicate, Timeout,
         StopProcess, Unregister, Report, Return, Callback, TypeOK
<1>3. /\ proc' \in [Tasks -> {"none", "live", "signalled", "dead"}]
      /\ registered' \in SUBSET Tasks
  BY DEF WorkerStep, BeginModel, Spawn, Register, Communicate, Timeout,
         StopProcess, Unregister, Report, Return, Callback, TypeOK
<1>4. /\ active' \in SUBSET Jobs
      /\ futures' \in SUBSET Jobs
      /\ lock' \in Tasks \cup Handlers \cup {None}
      /\ pending' = pending
      /\ fifo' = fifo
  <2>1. CASE Callback(t)
    BY <2>1, TaskParts, ForgetFinishedTypeOK DEF Callback
  <2>2. CASE ~Callback(t)
    BY <2>2
    DEF WorkerStep, BeginModel, Spawn, Register, Communicate, Timeout,
        StopProcess, Unregister, Report, Return, TypeOK, schedVars
  <2>3. QED
    BY <2>1, <2>2
<1>5. UNCHANGED <<httpVars, closeVars>>
  BY DEF WorkerStep, BeginModel, Spawn, Register, Communicate, Timeout,
         StopProcess, Unregister, Report, Return, Callback
<1>6. QED
  BY <1>0, <1>1, <1>2, <1>3, <1>4, <1>5 DEF TypeOK, httpVars, closeVars

LEMMA StoreCancelTypeOK ==
  ASSUME TypeOK, NEW h \in Handlers, NEW j \in Jobs, StoreCancel(h, j),
         toCancel' \in SUBSET Jobs
  PROVE  TypeOK'
<1>1. StoreTypeOK'
  BY TouchTypeOK, CancelJobTypeOK DEF StoreCancel, TypeOK
<1>2. handler' \in [Handlers -> [step : HandlerSteps, job : Jobs \cup {None},
                                procs : SUBSET Tasks]]
  BY DEF StoreCancel, TypeOK, HandlerSteps
<1>3. QED
  BY <1>1, <1>2 DEF StoreCancel, TypeOK, schedVars, workerVars

LEMMA HandlerStepTypeOK ==
  ASSUME TypeOK, NEW h \in Handlers, HandlerStep(h)
  PROVE  TypeOK'
<1>1. CASE CancelFutures(h)
  <2> DEFINE j == handler[h].job
  <2>1. StoreTypeOK'
    BY <1>1, StoreUnchanged DEF CancelFutures, TypeOK
  <2>2. pending' \in Seq(Jobs)
    BY <1>1, WithoutProperties DEF CancelFutures, TypeOK
  <2>3. pc' \in [Tasks -> Steps]
    BY <1>1 DEF CancelFutures, TypeOK, Steps, DoneSteps
  <2>4. handler' \in [Handlers -> [step : HandlerSteps, job : Jobs \cup {None},
                                  procs : SUBSET Tasks]]
    BY <1>1 DEF CancelFutures, TypeOK, HandlerSteps
  <2>5. /\ active' \in SUBSET Jobs
        /\ futures' \in SUBSET Jobs
        /\ lock' \in Tasks \cup Handlers \cup {None}
    BY <1>1 DEF CancelFutures, ForgetFinished, LoopOrRelease, TypeOK
  <2>6. QED
    BY <1>1, <2>1, <2>2, <2>3, <2>4, <2>5
    DEF CancelFutures, TypeOK, closeVars
<1>2. CASE FinishCancel(h)
  <2>1. StoreTypeOK'
    BY <1>2, StoreUnchanged DEF FinishCancel, TypeOK
  <2>2. handler' \in [Handlers -> [step : HandlerSteps, job : Jobs \cup {None},
                                  procs : SUBSET Tasks]]
    BY <1>2 DEF FinishCancel, IdleHandler, TypeOK, HandlerSteps
  <2>3. QED
    BY <1>2, <2>1, <2>2
    DEF FinishCancel, TypeOK, schedVars, workerVars, closeVars
<1>3. CASE \E t \in Tasks : SignalProcess(h, t)
  <2>1. PICK t \in Tasks : SignalProcess(h, t)
    BY <1>3
  <2>2. StoreTypeOK'
    BY <2>1, StoreUnchanged DEF SignalProcess, TypeOK
  <2>3. handler' \in [Handlers -> [step : HandlerSteps, job : Jobs \cup {None},
                                  procs : SUBSET Tasks]]
    BY <2>1 DEF SignalProcess, TypeOK
  <2>4. proc' \in [Tasks -> {"none", "live", "signalled", "dead"}]
    BY <2>1 DEF SignalProcess, TypeOK
  <2>5. QED
    BY <2>1, <2>2, <2>3, <2>4 DEF SignalProcess, TypeOK, schedVars, closeVars
<1>4. QED
  BY <1>1, <1>2, <1>3 DEF HandlerStep

LEMMA BeginCloseTypeOK ==
  ASSUME TypeOK, BeginClose
  PROVE  TypeOK'
<1>1. StoreTypeOK'
  BY StoreUnchanged DEF BeginClose, TypeOK
<1>2. toCancel' \in SUBSET Jobs
  BY ElementOfSeq DEF BeginClose, Outstanding, TypeOK
<1>3. QED
  BY <1>1, <1>2 DEF BeginClose, TypeOK, schedVars, workerVars, httpVars

LEMMA CloseStepTypeOK ==
  ASSUME TypeOK, CloseStep
  PROVE  TypeOK'
<1>1. CASE \E j \in Jobs : CloseCancel(j)
  <2>1. PICK j \in Jobs : CloseCancel(j)
    BY <1>1
  <2>2. toCancel' \in SUBSET Jobs
    BY <2>1 DEF CloseCancel, TypeOK
  <2>3. CASE StoreCancel(Closer, j)
    BY <2>2, <2>3, StoreCancelTypeOK DEF Handlers
  <2>4. CASE Touch /\ UNCHANGED <<schedVars, workerVars, httpVars, shutdown, lock>>
    <3>1. StoreTypeOK'
      BY <2>4, TouchTypeOK DEF TypeOK
    <3>2. QED
      BY <2>2, <2>4, <3>1 DEF TypeOK, schedVars, workerVars, httpVars
  <2>5. QED
    BY <2>1, <2>3, <2>4 DEF CloseCancel
<1>2. CASE ShutdownExecutor
  <2>1. StoreTypeOK'
    BY <1>2, StoreUnchanged DEF ShutdownExecutor, TypeOK
  <2>2. pc' \in [Tasks -> Steps] /\ fifo' \in Seq(Tasks)
    BY <1>2, EmptySeq DEF ShutdownExecutor, TypeOK, Steps, DoneSteps
  <2>3. QED
    BY <1>2, <2>1, <2>2 DEF ShutdownExecutor, TypeOK, httpVars
<1>3. CASE Join
  <2>1. StoreTypeOK'
    BY <1>3, StoreUnchanged DEF Join, TypeOK
  <2>2. QED
    BY <1>3, <2>1 DEF Join, TypeOK, schedVars, workerVars, httpVars
<1>4. QED
  BY <1>1, <1>2, <1>3 DEF CloseStep

LEMMA StoreOnlyTypeOK ==
  ASSUME TypeOK, StoreTypeOK', UNCHANGED serviceVars
  PROVE  TypeOK'
  BY DEF TypeOK, serviceVars, schedVars, workerVars, httpVars, closeVars

LEMMA InitTypeOK == Init => TypeOK
<1> SUFFICES ASSUME Init  PROVE TypeOK
  OBVIOUS
<1>1. StoreTypeOK
  BY InitStoreTypeOK DEF Init
<1>2. QED
  BY <1>1, EmptySeq
  DEF Init, TypeOK, Steps, Results, IdleHandler, HandlerSteps

LEMMA NextTypeOK == TypeOK /\ [Next]_vars => TypeOK'
<1> SUFFICES ASSUME TypeOK, [Next]_vars  PROVE TypeOK'
  OBVIOUS
<1>1. CASE \E j \in Jobs, n \in Models, sid \in SubmissionIds \cup {None},
             fp \in Fingerprints : Submit(j, n, sid, fp)
  BY <1>1, SubmitTypeOK
<1>2. CASE \E j \in Jobs : SubmitStep(j)
  BY <1>2, SubmitStepTypeOK
<1>3. CASE \E t \in Tasks : Pick(t) \/ WorkerStep(t)
  BY <1>3, PickTypeOK, WorkerStepTypeOK
<1>4. CASE Dispatch
  BY <1>4, DispatchTypeOK
<1>5. CASE \E h \in Clients, j \in Jobs : ClientCancel(h, j)
  <2>1. PICK h \in Clients, j \in Jobs : ClientCancel(h, j)
    BY <1>5
  <2>2. toCancel' \in SUBSET Jobs /\ h \in Handlers
    BY <2>1 DEF ClientCancel, TypeOK, Handlers
  <2>3. QED
    BY <2>1, <2>2, StoreCancelTypeOK DEF ClientCancel
<1>6. CASE \E h \in Handlers : HandlerStep(h)
  BY <1>6, HandlerStepTypeOK
<1>7. CASE BeginClose
  BY <1>7, BeginCloseTypeOK
<1>8. CASE CloseStep
  BY <1>8, CloseStepTypeOK
<1>9. CASE ClientRead
  BY <1>9, TouchTypeOK, StoreOnlyTypeOK DEF ClientRead, TypeOK
<1>10. CASE \E j \in Jobs : Elapse(j) /\ UNCHANGED serviceVars
  BY <1>10, ElapseTypeOK, StoreOnlyTypeOK DEF TypeOK
<1>11. CASE UNCHANGED vars
  BY <1>11, StoreUnchanged, StoreOnlyTypeOK DEF vars, TypeOK
<1>12. QED
  BY <1>1, <1>2, <1>3, <1>4, <1>5, <1>6, <1>7, <1>8, <1>9, <1>10, <1>11
  DEF Next

(* Every variable of the service keeps its type, for all constants.        *)
THEOREM ServiceTypes == Spec => []TypeOK
  BY InitTypeOK, NextTypeOK, PTL DEF Spec

-----------------------------------------------------------------------------
(* Slots.  The bound on active jobs and the absence of lost wake-ups are   *)
(* inductive together with the finiteness of the active set.               *)

SlotsInv ==
  /\ IsFiniteSet(active)
  /\ SlotsBounded
  /\ WorkConserving

LEMMA NoneIsNoThread == \A x \in Tasks \cup Handlers : x # None
  BY ServiceAssumption

(* Whoever leaves the dispatch loop, or does not enter it, leaves no job   *)
(* waiting beside a free slot.                                             *)
LEMMA LoopOrReleaseConserves ==
  ASSUME NEW thread, thread # None, LoopOrRelease(thread),
         IsFiniteSet(active'), shutdown' = shutdown
  PROVE  WorkConserving'
<1>1. Cardinality(active') \in Nat
  BY FS_CardinalityType
<1>2. QED
  BY <1>1, StoreAssumption
  DEF LoopOrRelease, MoreToStart, WorkConserving, LockFree, Closed

LEMMA StartJobSlots ==
  ASSUME NEW j, IsFiniteSet(active), Cardinality(active) < MaxActive,
         active' = active \cup {j}
  PROVE  IsFiniteSet(active') /\ SlotsBounded'
<1>1. Cardinality(active) \in Nat
  BY FS_CardinalityType
<1>2. /\ IsFiniteSet(active \cup {j})
      /\ Cardinality(active \cup {j}) =
           IF j \in active THEN Cardinality(active) ELSE Cardinality(active) + 1
  BY FS_AddElement
<1>3. QED
  BY <1>1, <1>2, StoreAssumption DEF SlotsBounded

LEMMA FewerSlots ==
  ASSUME IsFiniteSet(active), SlotsBounded, active' \in SUBSET active
  PROVE  IsFiniteSet(active') /\ SlotsBounded'
<1>1. IsFiniteSet(active') /\ Cardinality(active') <= Cardinality(active)
  BY FS_Subset
<1>2. Cardinality(active) \in Nat /\ Cardinality(active') \in Nat
  BY <1>1, FS_CardinalityType
<1>3. QED
  BY <1>1, <1>2, StoreAssumption DEF SlotsBounded

LEMMA ForgetFinishedSlots ==
  ASSUME NEW j, NEW thread, thread # None, SlotsInv, LockFree,
         ForgetFinished(j, thread), shutdown' = shutdown,
         pending' # <<>> => pending # <<>>
  PROVE  SlotsInv'
<1>1. active' \in SUBSET active
  BY DEF ForgetFinished
<1>2. IsFiniteSet(active') /\ SlotsBounded'
  BY <1>1, FewerSlots DEF SlotsInv
<1>3. WorkConserving'
  <2>1. CASE j \in futures /\ AllDone(j, pc')
    BY <1>2, <2>1, LoopOrReleaseConserves DEF ForgetFinished
  <2>2. CASE ~(j \in futures /\ AllDone(j, pc'))
    BY <2>2 DEF ForgetFinished, SlotsInv, WorkConserving, LockFree, Closed
  <2>3. QED
    BY <2>1, <2>2
<1>4. QED
  BY <1>2, <1>3 DEF SlotsInv

LEMMA SlotsUnchanged ==
  ASSUME SlotsInv, UNCHANGED <<active, pending, lock>>, Closed => Closed'
  PROVE  SlotsInv'
  BY DEF SlotsInv, SlotsBounded, WorkConserving, LockFree

LEMMA NextSlots ==
  ASSUME TypeOK, SlotsInv, [Next]_vars
  PROVE  SlotsInv'
<1>1. CASE \E j \in Jobs : SchedulerSubmit(j)
  <2>1. PICK j \in Jobs : SchedulerSubmit(j)
    BY <1>1
  <2>2. LockFree /\ shutdown' = shutdown /\ lock' = lock
    BY <2>1 DEF SchedulerSubmit, closeVars
  <2>3. CASE Closed /\ UNCHANGED schedVars
    BY <2>2, <2>3, SlotsUnchanged DEF schedVars, Closed
  <2>4. CASE /\ Cardinality(active) >= MaxActive
             /\ UNCHANGED active
    BY <2>2, <2>4 DEF SlotsInv, SlotsBounded, WorkConserving
  <2>5. CASE /\ ~Closed
             /\ Cardinality(active) < MaxActive
             /\ StartJob(j)
             /\ UNCHANGED pending
    <3>1. Cardinality(active) \in Nat
      BY FS_CardinalityType DEF SlotsInv
    <3>2. pending = <<>>
      BY <2>2, <2>5, <3>1, StoreAssumption DEF SlotsInv, WorkConserving
    <3>3. IsFiniteSet(active') /\ SlotsBounded'
      BY <2>5, StartJobSlots DEF SlotsInv, StartJob
    <3>4. QED
      BY <2>5, <3>2, <3>3 DEF SlotsInv, WorkConserving
  <2>6. QED
    BY <2>1, <2>3, <2>4, <2>5 DEF SchedulerSubmit
<1>2. CASE Dispatch
  <2>1. lock # None /\ LoopOrRelease(lock) /\ shutdown' = shutdown
    BY <1>2 DEF Dispatch, closeVars
  <2>2. IsFiniteSet(active') /\ SlotsBounded'
    <3>1. CASE StartJob(Head(pending))
      BY <1>2, <3>1, StartJobSlots DEF Dispatch, MoreToStart, SlotsInv, StartJob
    <3>2. CASE UNCHANGED active
      BY <3>2 DEF SlotsInv, SlotsBounded
    <3>3. QED
      BY <1>2, <3>1, <3>2 DEF Dispatch
  <2>3. QED
    BY <2>1, <2>2, LoopOrReleaseConserves DEF SlotsInv
<1>3. CASE \E t \in Tasks : Callback(t)
  <2>1. PICK t \in Tasks : Callback(t)
    BY <1>3
  <2>2. QED
    BY <2>1, NoneIsNoThread, ForgetFinishedSlots DEF Callback, closeVars
<1>4. CASE \E h \in Handlers : CancelFutures(h)
  <2>1. PICK h \in Handlers : CancelFutures(h)
    BY <1>4
  <2>2. /\ LockFree
        /\ shutdown' = shutdown
        /\ pending' # <<>> => pending # <<>>
    BY <2>1, WithoutProperties DEF CancelFutures, TypeOK, closeVars
  <2>3. CASE ForgetFinished(handler[h].job, h)
    BY <2>2, <2>3, NoneIsNoThread, ForgetFinishedSlots
  <2>4. CASE UNCHANGED <<futures, active, lock>>
    BY <2>2, <2>4 DEF SlotsInv, SlotsBounded, WorkConserving, LockFree, Closed
  <2>5. QED
    BY <2>1, <2>3, <2>4 DEF CancelFutures
<1>5. CASE ShutdownExecutor
  <2>1. active' \in SUBSET active /\ Closed'
    BY <1>5 DEF ShutdownExecutor, Closed
  <2>2. QED
    BY <2>1, FewerSlots DEF SlotsInv, WorkConserving
<1>6. CASE /\ UNCHANGED <<active, pending, lock>>
           /\ Closed => Closed'
  BY <1>6, SlotsUnchanged
<1>7. QED
  <2>1. CASE Next
    BY <2>1, <1>1, <1>2, <1>3, <1>4, <1>5, <1>6
    DEF Next, Submit, SubmitStep, CancelRejected, Pick, WorkerStep, BeginModel,
        Spawn, Register, Communicate, Timeout, StopProcess, Unregister, Report,
        Return, ClientCancel, StoreCancel, HandlerStep, FinishCancel,
        SignalProcess, BeginClose, CloseStep, CloseCancel, Join, ClientRead,
        serviceVars, schedVars, closeVars, Closed
  <2>2. CASE UNCHANGED vars
    BY <2>2, <1>6 DEF vars, serviceVars, schedVars, closeVars, Closed
  <2>3. QED
    BY <2>1, <2>2

LEMMA InitSlots == Init => SlotsInv
<1>1. Init => IsFiniteSet(active) /\ Cardinality(active) = 0
  BY FS_EmptySet DEF Init
<1>2. QED
  BY <1>1, StoreAssumption DEF Init, SlotsInv, SlotsBounded, WorkConserving

(* While jobs wait, no slot is free unless a thread is in the dispatch     *)
(* loop; and no more than max_active_jobs are ever active.                 *)
THEOREM SlotsAreUsed == Spec => [](WorkConserving /\ SlotsBounded)
<1>1. Init => TypeOK /\ SlotsInv
  BY InitTypeOK, InitSlots
<1>2. TypeOK /\ SlotsInv /\ [Next]_vars => (TypeOK /\ SlotsInv)'
  BY NextTypeOK, NextSlots
<1>3. SlotsInv => WorkConserving /\ SlotsBounded
  BY DEF SlotsInv
<1>4. QED
  BY <1>1, <1>2, <1>3, PTL DEF Spec

-----------------------------------------------------------------------------
(***************************************************************************)
(* The scheduler and its threads together with the store: the service      *)
(* uses the store as the store's own specification says, starts every job  *)
(* once, misses no process when it cancels, and stops clean.               *)
(***************************************************************************)

(* The jobs in a queue; those in _pending_jobs wait for a slot.            *)
Places(queue) == {queue[k] : k \in 1..Len(queue)}
Waiting == Places(pending)

(* While a worker thread is at one of these steps its model was marked as  *)
(* started; at the others that follow, its part is over.                   *)
MarkedSteps == {"spawning", "registering", "waiting", "stopping", "cleanup",
                "reaping", "reporting"}
OverSteps == {"returning"} \cup DoneSteps

(* Futures exist for models of jobs that were created.                     *)
PlacesInv ==
  /\ \A t \in Tasks : pc[t] # "none" => t \in TasksOf(t[1])
  /\ \A t \in Tasks : pc[t] \in MarkedSteps => model[t] # "queued"

-----------------------------------------------------------------------------
(* The service calls the store as StoreNext allows.                        *)

LEMMA ServiceCallsStore ==
  ASSUME TypeOK, PlacesInv, [Next]_vars
  PROVE  [StoreNext]_storeVars
<1>1. CASE \E j \in Jobs, n \in Models, sid \in SubmissionIds \cup {None},
             fp \in Fingerprints : Submit(j, n, sid, fp)
  BY <1>1 DEF Submit, StoreNext
<1>2. CASE \E j \in Jobs : CancelJob(j)
  BY <1>2 DEF StoreNext
<1>3. CASE Touch \/ \E j \in Jobs : Elapse(j)
  BY <1>3 DEF StoreNext
<1>4. CASE \E t \in Tasks : BeginModel(t)
  <2>1. PICK t \in Tasks : BeginModel(t)
    BY <1>4
  <2>2. t \in TasksOf(t[1])
    BY <2>1 DEF BeginModel, PlacesInv
  <2>3. QED
    BY <2>1, <2>2 DEF BeginModel, StoreNext
<1>5. CASE \E t \in Tasks : Report(t)
  <2>1. PICK t \in Tasks : Report(t)
    BY <1>5
  <2>2. model[t] # "queued" /\ answer[t] \in Results
    BY <2>1 DEF Report, PlacesInv, MarkedSteps, TypeOK
  <2>3. QED
    BY <2>1, <2>2 DEF Report, StoreNext
<1>6. CASE UNCHANGED storeVars
  BY <1>6
<1>7. QED
  BY <1>1, <1>2, <1>3, <1>4, <1>5, <1>6
  DEF Next, SubmitStep, SchedulerSubmit, CancelRejected, Pick, WorkerStep,
      Spawn, Register, Communicate, Timeout, StopProcess, Unregister, Return,
      Callback, Dispatch, ClientCancel, StoreCancel, HandlerStep,
      CancelFutures, FinishCancel, SignalProcess, BeginClose, CloseStep,
      CloseCancel, ShutdownExecutor, Join, ClientRead, vars

(* A future comes into being only by _start_job, and reaches the steps     *)
(* behind start_model only through it.                                     *)
LEMMA FutureMoves ==
  ASSUME TypeOK, [Next]_vars, NEW t \in Tasks
  PROVE  /\ pc'[t] # "none" => pc[t] # "none" \/ t \in TasksOf(t[1])
         /\ pc'[t] \in MarkedSteps => pc[t] \in MarkedSteps \/ StartModel(t)
<1>1. CASE \E u \in Tasks : Pick(u) \/ WorkerStep(u)
  <2>1. PICK u \in Tasks : Pick(u) \/ WorkerStep(u)
    BY <1>1
  <2>2. CASE u = t
    BY <2>1, <2>2
    DEF Pick, WorkerStep, BeginModel, Spawn, Register, Communicate, Timeout,
        StopProcess, Unregister, Report, Return, Callback, Goto, TypeOK,
        MarkedSteps
  <2>3. CASE u # t
    <3>1. pc'[t] = pc[t]
      BY <2>1, <2>3
      DEF Pick, WorkerStep, BeginModel, Spawn, Register, Communicate, Timeout,
          StopProcess, Unregister, Report, Return, Callback, Goto, TypeOK
    <3>2. QED
      BY <3>1
  <2>4. QED
    BY <2>2, <2>3
<1>2. CASE \E j \in Jobs : StartJob(j)
  BY <1>2 DEF StartJob, TasksOf, MarkedSteps
<1>3. CASE \E h \in Handlers : CancelFutures(h)
  BY <1>3 DEF CancelFutures, MarkedSteps
<1>4. CASE ShutdownExecutor
  BY <1>4 DEF ShutdownExecutor, MarkedSteps
<1>5. CASE pc' = pc
  BY <1>5
<1>6. Dispatch => Head(pending) \in Jobs
  BY HeadTailProperties DEF Dispatch, MoreToStart, TypeOK
<1>7. QED
  BY <1>1, <1>2, <1>3, <1>4, <1>5, <1>6
  DEF Next, Submit, SubmitStep, SchedulerSubmit, CancelRejected, Dispatch,
      ClientCancel, StoreCancel, HandlerStep, FinishCancel, SignalProcess,
      BeginClose, CloseStep, CloseCancel, Join, ClientRead, vars, serviceVars,
      workerVars

LEMMA TasksStay ==
  ASSUME StoreInv, [StoreNext]_storeVars, NEW j \in Jobs, size[j] > 0
  PROVE  TasksOf(j)' = TasksOf(j)
  BY StoreEffects DEF TasksOf

LEMMA TaskHasSize ==
  ASSUME StoreTypeOK, NEW t \in Tasks, t \in TasksOf(t[1])
  PROVE  size[t[1]] > 0
  BY TaskParts, StoreAssumption DEF TasksOf, StoreTypeOK, Models

LEMMA PlacesStep ==
  ASSUME TypeOK, StoreInv, PlacesInv, [Next]_vars
  PROVE  PlacesInv'
<1>1. [StoreNext]_storeVars
  BY ServiceCallsStore
<1>2. ASSUME NEW t \in Tasks, pc'[t] # "none"  PROVE t \in TasksOf(t[1])'
  <2>1. t \in TasksOf(t[1])
    BY <1>2, FutureMoves DEF PlacesInv
  <2>2. QED
    BY <1>1, <2>1, TaskParts, TaskHasSize, TasksStay DEF StoreInv
<1>3. ASSUME NEW t \in Tasks, pc'[t] \in MarkedSteps
      PROVE  model'[t] # "queued"
  <2>1. CASE StartModel(t)
    BY <2>1 DEF StartModel, StoreInv, StoreTypeOK
  <2>2. CASE pc[t] \in MarkedSteps
    BY <1>1, <2>2, StoreEffects DEF PlacesInv
  <2>3. QED
    BY <1>3, <2>1, <2>2, FutureMoves
<1>4. QED
  BY <1>2, <1>3 DEF PlacesInv

BaseInv == TypeOK /\ StoreInv /\ PlacesInv

LEMMA InitBase == Init => BaseInv
<1>1. Init => PlacesInv
  BY DEF Init, PlacesInv, MarkedSteps
<1>2. QED
  BY <1>1, InitTypeOK, InitStoreInv DEF Init, BaseInv

LEMMA BaseStep == BaseInv /\ [Next]_vars => BaseInv'
  BY NextTypeOK, ServiceCallsStore, StoreInvStep, PlacesStep DEF BaseInv

LEMMA BaseAlways == Spec => []BaseInv
  BY InitBase, BaseStep, PTL DEF Spec

(* Handlers, worker threads, the dispatch loop and close call the store    *)
(* only as its specification allows, so everything proved of the store     *)
(* holds inside the service.                                               *)
THEOREM ServiceUsesStore == Spec => UsesStore
<1>1. Init => StoreInit
  BY DEF Init
<1>2. BaseInv /\ [Next]_vars => [StoreNext]_storeVars
  BY ServiceCallsStore DEF BaseInv
<1>3. QED
  BY <1>1, <1>2, BaseAlways, PTL DEF Spec, UsesStore, StoreSpec

(* Hence clients of the whole service read truthful statuses, the results  *)
(* it retains stay within their limits, a repeated submission names the    *)
(* same job, and the service keeps the contract.                           *)
THEOREM ServiceHonoursStore ==
  Spec => /\ [](StatusSummarises /\ BytesWithinLimits)
          /\ SubmissionsStick
          /\ HonoursContract
<1>1. Spec => StoreSpec
  BY ServiceUsesStore DEF UsesStore
<1>2. QED
  BY <1>1, StatusIsTruthful, BytesAreBounded, SubmissionsAreKept,
     StoreHonoursContract, PTL

-----------------------------------------------------------------------------
(* One place for each job.                                                 *)

NoRepeat(queue) ==
  \A k, m \in 1..Len(queue) : queue[k] = queue[m] => k = m

OnceInv ==
  /\ active = futures
  /\ NoRepeat(pending)
  /\ submitting \cap rejected = {}
  /\ Waiting \cap (submitting \cup rejected) = {}
  /\ \A j \in submitting \cup rejected \cup Waiting :
       size[j] > 0 /\ \A t \in TasksOf(j) : pc[t] = "none"
  /\ \A j \in active :
       size[j] > 0 /\ \A t \in TasksOf(j) : pc[t] # "none"

LEMMA OnceInvIsEnough == TypeOK /\ OnceInv => ScheduledOnce
<1> SUFFICES ASSUME TypeOK, OnceInv  PROVE ScheduledOnce
  OBVIOUS
<1>1. ASSUME NEW j \in Waiting, j \in active  PROVE FALSE
  <2>1. <<j, 1>> \in TasksOf(j)
    BY <1>1, FirstTask DEF OnceInv, TypeOK
  <2>2. QED
    BY <1>1, <2>1 DEF OnceInv
<1>2. QED
  BY <1>1 DEF ScheduledOnce, OnceInv, NoRepeat, Waiting, Places

LEMMA AppendOnce ==
  ASSUME NEW queue \in Seq(Jobs), NEW j \in Jobs, NoRepeat(queue),
         j \notin Places(queue)
  PROVE  /\ NoRepeat(Append(queue, j))
         /\ Places(Append(queue, j)) = Places(queue) \cup {j}
<1>1. /\ Len(Append(queue, j)) = Len(queue) + 1
      /\ \A i \in 1..Len(queue) : Append(queue, j)[i] = queue[i]
      /\ Append(queue, j)[Len(queue) + 1] = j
      /\ Len(queue) \in Nat
  BY AppendProperties, LenProperties
<1>2. \A i \in 1..(Len(queue) + 1) : i \in 1..Len(queue) \/ i = Len(queue) + 1
  BY <1>1
<1>3. Len(queue) + 1 \in 1..(Len(queue) + 1)
      /\ 1..Len(queue) \subseteq 1..(Len(queue) + 1)
  BY <1>1
<1>4. Places(Append(queue, j)) = Places(queue) \cup {j}
  BY <1>1, <1>2, <1>3 DEF Places
<1>5. NoRepeat(Append(queue, j))
  BY <1>1, <1>2 DEF NoRepeat, Places
<1>6. QED
  BY <1>4, <1>5

LEMMA TailOnce ==
  ASSUME NEW queue \in Seq(Jobs), queue # <<>>, NoRepeat(queue)
  PROVE  /\ NoRepeat(Tail(queue))
         /\ Places(Tail(queue)) = Places(queue) \ {Head(queue)}
         /\ Head(queue) \in Places(queue)
<1>1. /\ Len(Tail(queue)) = Len(queue) - 1
      /\ \A i \in 1..Len(Tail(queue)) : Tail(queue)[i] = queue[i + 1]
      /\ Len(queue) \in Nat /\ Len(queue) > 0
      /\ Head(queue) = queue[1]
  BY HeadTailProperties, EmptySeq
<1>2. \A i \in 1..(Len(queue) - 1) : i + 1 \in 1..Len(queue) /\ i + 1 # 1
  BY <1>1
<1>3. \A i \in 1..Len(queue) : i = 1 \/ i - 1 \in 1..(Len(queue) - 1)
  BY <1>1
<1>4. NoRepeat(Tail(queue))
  <2> SUFFICES ASSUME NEW k \in 1..(Len(queue) - 1),
                      NEW m \in 1..(Len(queue) - 1),
                      queue[k + 1] = queue[m + 1]
               PROVE  k = m
    BY <1>1 DEF NoRepeat
  <2>1. k + 1 = m + 1
    BY <1>2 DEF NoRepeat
  <2>2. QED
    BY <2>1
<1>5. Places(Tail(queue)) \subseteq Places(queue) \ {Head(queue)}
  BY <1>1, <1>2 DEF Places, NoRepeat
<1>6. Places(queue) \ {Head(queue)} \subseteq Places(Tail(queue))
  <2> SUFFICES ASSUME NEW i \in 1..Len(queue), i # 1
               PROVE  queue[i] \in Places(Tail(queue))
    BY <1>1 DEF Places
  <2>1. i - 1 \in 1..Len(Tail(queue)) /\ (i - 1) + 1 = i
    BY <1>1, <1>3
  <2>2. QED
    BY <1>1, <2>1 DEF Places
<1>7. Head(queue) \in Places(queue)
  BY <1>1 DEF Places
<1>8. QED
  BY <1>4, <1>5, <1>6, <1>7

LEMMA WithoutOnce ==
  ASSUME NEW queue \in Seq(Jobs), NEW j, NoRepeat(queue)
  PROVE  /\ NoRepeat(Without(queue, j))
         /\ Places(Without(queue, j)) = Places(queue) \ {j}
<1>1. CASE \E k \in 1..Len(queue) : queue[k] = j
  <2> DEFINE n == Len(queue) - 1
             at == CHOOSE k \in 1..Len(queue) : queue[k] = j
             old(k) == IF k < at THEN k ELSE k + 1
             rest == [k \in 1..n |-> queue[old(k)]]
  <2>1. at \in 1..Len(queue) /\ queue[at] = j /\ Len(queue) \in Nat
    BY <1>1, LenProperties
  <2> HIDE DEF at
  <2>2. Without(queue, j) = rest
    BY <1>1 DEF Without, at
  <2>3. \A k \in 1..n : queue[old(k)] \in Jobs
    BY <2>1, ElementOfSeq
  <2>4. n \in Nat
    BY <2>1
  <2>5. rest \in [1..n -> Jobs]
    BY <2>3
  <2>6. Len(rest) = n
    <3> HIDE DEF rest, n
    <3>1. QED
      BY <2>4, <2>5, FunctionIsSequence
  <2>7. \A k \in 1..n : old(k) \in 1..Len(queue) /\ old(k) # at
    BY <2>1
  <2>8. \A k, m \in 1..n : old(k) = old(m) => k = m
    BY <2>1
  <2>9. \A i \in 1..Len(queue) : i # at => \E k \in 1..n : old(k) = i
    <3> SUFFICES ASSUME NEW i \in 1..Len(queue), i # at
                 PROVE  \E k \in 1..n : old(k) = i
      OBVIOUS
    <3>1. CASE i < at
      <4>1. i \in 1..n /\ old(i) = i
        BY <3>1, <2>1
      <4>2. QED
        BY <4>1
    <3>2. CASE i > at
      <4>1. i - 1 \in 1..n /\ old(i - 1) = i
        BY <3>2, <2>1
      <4>2. QED
        BY <4>1
    <3>3. QED
      BY <3>1, <3>2, <2>1
  <2>10. \A k \in 1..n : rest[k] = queue[old(k)]
    OBVIOUS
  <2> HIDE DEF old, rest, n
  <2>11. NoRepeat(rest)
    BY <2>6, <2>7, <2>8, <2>10 DEF NoRepeat
  <2>12. Places(rest) \subseteq Places(queue) \ {j}
    BY <2>1, <2>6, <2>7, <2>10 DEF NoRepeat, Places
  <2>13. Places(queue) \ {j} \subseteq Places(rest)
    BY <2>1, <2>6, <2>9, <2>10 DEF Places
  <2>14. QED
    BY <2>2, <2>11, <2>12, <2>13
<1>2. CASE ~ \E k \in 1..Len(queue) : queue[k] = j
  BY <1>2 DEF Without, Places
<1>3. QED
  BY <1>1, <1>2

(* Steps that put no job anywhere new and start none.                      *)
LEMMA OnceKept ==
  ASSUME BaseInv, OnceInv, [Next]_vars,
         active' \subseteq active, futures' = active',
         NoRepeat(pending'), Waiting' \subseteq Waiting,
         submitting' \subseteq submitting, rejected' \subseteq rejected,
         \A t \in Tasks : pc'[t] = "none" <=> pc[t] = "none"
  PROVE  OnceInv'
<1>1. /\ active \subseteq Jobs /\ submitting \subseteq Jobs
      /\ rejected \subseteq Jobs /\ Waiting \subseteq Jobs
  BY ElementOfSeq DEF BaseInv, TypeOK, Waiting, Places
<1>2. [StoreNext]_storeVars /\ StoreInv
  BY ServiceCallsStore DEF BaseInv
<1>3. \A j \in Jobs : size[j] > 0 =>
        size'[j] = size[j] /\ TasksOf(j)' = TasksOf(j) /\ TasksOf(j) \subseteq Tasks
  BY <1>2, StoreEffects, TasksStay DEF TasksOf
<1>4. \A j \in submitting' \cup rejected' \cup Waiting' :
        size'[j] > 0 /\ \A t \in TasksOf(j)' : pc'[t] = "none"
  BY <1>1, <1>3 DEF OnceInv
<1>5. \A j \in active' :
        size'[j] > 0 /\ \A t \in TasksOf(j)' : pc'[t] # "none"
  BY <1>1, <1>3 DEF OnceInv
<1>6. QED
  BY <1>4, <1>5 DEF OnceInv

(* A job that has no future yet and waits nowhere is started.              *)
LEMMA OnceStarted ==
  ASSUME BaseInv, OnceInv, [Next]_vars,
         NEW j \in Jobs, size[j] > 0, StartJob(j),
         NoRepeat(pending'), Waiting' \subseteq Waiting \ {j},
         submitting' \subseteq submitting \ {j},
         rejected' = rejected, j \notin rejected
  PROVE  OnceInv'
<1>1. /\ active \subseteq Jobs /\ submitting \subseteq Jobs
      /\ rejected \subseteq Jobs /\ Waiting \subseteq Jobs
  BY ElementOfSeq DEF BaseInv, TypeOK, Waiting, Places
<1>2. [StoreNext]_storeVars /\ StoreInv
  BY ServiceCallsStore DEF BaseInv
<1>3. \A i \in Jobs : size[i] > 0 =>
        size'[i] = size[i] /\ TasksOf(i)' = TasksOf(i) /\ TasksOf(i) \subseteq Tasks
  BY <1>2, StoreEffects, TasksStay DEF TasksOf
<1>4. \A t \in Tasks : pc'[t] = IF t \in TasksOf(j) THEN "queued" ELSE pc[t]
  BY DEF StartJob
<1>5. active' = active \cup {j} /\ futures' = futures \cup {j}
  BY DEF StartJob
<1>6. \A i \in Jobs \ {j} : \A t \in TasksOf(i) : t \notin TasksOf(j)
  BY DEF TasksOf
<1>7. \A i \in submitting' \cup rejected' \cup Waiting' :
        size'[i] > 0 /\ \A t \in TasksOf(i)' : pc'[t] = "none"
  BY <1>1, <1>3, <1>4, <1>6 DEF OnceInv
<1>8. \A i \in active' :
        size'[i] > 0 /\ \A t \in TasksOf(i)' : pc'[t] # "none"
  BY <1>1, <1>3, <1>4, <1>5 DEF OnceInv
<1>9. QED
  BY <1>5, <1>7, <1>8 DEF OnceInv

LEMMA OnceSubmitted ==
  ASSUME BaseInv, OnceInv, [Next]_vars,
         NEW j \in Jobs, NEW n \in Models,
         NEW sid \in SubmissionIds \cup {None}, NEW fp \in Fingerprints,
         Submit(j, n, sid, fp)
  PROVE  OnceInv'
<1>1. /\ active \subseteq Jobs /\ submitting \subseteq Jobs
      /\ rejected \subseteq Jobs /\ Waiting \subseteq Jobs
  BY ElementOfSeq DEF BaseInv, TypeOK, Waiting, Places
<1>2. [StoreNext]_storeVars /\ StoreInv
  BY ServiceCallsStore DEF BaseInv
<1>3. \A i \in Jobs : size[i] > 0 =>
        size'[i] = size[i] /\ TasksOf(i)' = TasksOf(i)
  BY <1>2, StoreEffects, TasksStay
<1>4. /\ size[j] = 0 /\ size'[j] > 0
      /\ UNCHANGED <<active, futures, pending, rejected, pc>>
      /\ submitting' = submitting \cup {j}
  BY StoreAssumption
  DEF Submit, Reserve, Models, StoreInv, StoreTypeOK, BaseInv, schedVars,
      workerVars
<1>5. \A t \in Tasks : t[1] = j => pc[t] = "none"
  <2> SUFFICES ASSUME NEW t \in Tasks, t[1] = j, pc[t] # "none"
               PROVE  FALSE
    OBVIOUS
  <2>1. size[t[1]] > 0
    BY <1>2, TaskHasSize DEF BaseInv, PlacesInv, StoreInv
  <2>2. QED
    BY <1>4, <2>1
<1>6. \A t \in TasksOf(j)' : t \in Tasks /\ t[1] = j
  BY DEF TasksOf
<1>7. j \notin rejected /\ j \notin Waiting
  BY <1>4 DEF OnceInv
<1>8. Waiting' = Waiting
  BY <1>4 DEF Waiting
<1>9. \A i \in submitting' \cup rejected' \cup Waiting' :
        size'[i] > 0 /\ \A t \in TasksOf(i)' : pc'[t] = "none"
  BY <1>1, <1>3, <1>4, <1>5, <1>6, <1>8 DEF OnceInv
<1>10. \A i \in active' :
        size'[i] > 0 /\ \A t \in TasksOf(i)' : pc'[t] # "none"
  BY <1>1, <1>3, <1>4 DEF OnceInv
<1>11. QED
  BY <1>4, <1>7, <1>8, <1>9, <1>10 DEF OnceInv

LEMMA OnceHandedOver ==
  ASSUME BaseInv, OnceInv, [Next]_vars, NEW j \in Jobs, SchedulerSubmit(j)
  PROVE  OnceInv'
<1>1. /\ j \in submitting /\ submitting' = submitting \ {j}
      /\ UNCHANGED storeVars
  BY DEF SchedulerSubmit
<1>2. j \notin rejected /\ j \notin Waiting /\ size[j] > 0
  BY <1>1 DEF OnceInv
<1>3. \A i \in Jobs : size'[i] = size[i] /\ TasksOf(i)' = TasksOf(i)
  BY <1>1 DEF storeVars, TasksOf
<1>4. /\ active \subseteq Jobs /\ submitting \subseteq Jobs
      /\ rejected \subseteq Jobs /\ Waiting \subseteq Jobs
  BY ElementOfSeq DEF BaseInv, TypeOK, Waiting, Places
<1>5. CASE rejected' = rejected \cup {j} /\ UNCHANGED <<schedVars, pc>>
  <2>1. Waiting' = Waiting
    BY <1>5 DEF schedVars, Waiting
  <2>2. QED
    BY <1>1, <1>2, <1>3, <1>4, <1>5, <2>1 DEF OnceInv, schedVars
<1>6. CASE /\ pending' = Append(pending, j)
           /\ UNCHANGED <<active, futures, pc, rejected>>
  <2>1. NoRepeat(pending') /\ Waiting' = Waiting \cup {j}
    BY <1>2, <1>6, AppendOnce DEF BaseInv, TypeOK, OnceInv, Waiting
  <2>2. QED
    BY <1>1, <1>2, <1>3, <1>4, <1>6, <2>1 DEF OnceInv
<1>7. CASE StartJob(j) /\ UNCHANGED <<pending, rejected>>
  <2>1. NoRepeat(pending') /\ Waiting' \subseteq Waiting \ {j}
    BY <1>2, <1>7 DEF OnceInv, Waiting
  <2>2. QED
    BY <1>1, <1>2, <1>7, <2>1, OnceStarted
<1>8. QED
  BY <1>5, <1>6, <1>7 DEF SchedulerSubmit

LEMMA OnceDispatched ==
  ASSUME BaseInv, OnceInv, Dispatch
  PROVE  OnceInv'
<1> DEFINE j == Head(pending)
<1>1. pending \in Seq(Jobs) /\ pending # <<>>
  BY DEF BaseInv, TypeOK, Dispatch, MoreToStart
<1>2. /\ NoRepeat(pending') /\ Waiting' = Waiting \ {j}
      /\ j \in Waiting /\ j \in Jobs
  BY <1>1, TailOnce, HeadTailProperties DEF Dispatch, OnceInv, Waiting
<1>3. /\ submitting' = submitting /\ rejected' = rejected
      /\ j \notin submitting \cup rejected /\ size[j] > 0
  BY <1>2 DEF Dispatch, httpVars, OnceInv
<1>4. [Next]_vars
  BY DEF Next
<1>5. CASE StartJob(j)
  BY <1>2, <1>3, <1>4, <1>5, OnceStarted
<1>6. CASE UNCHANGED <<active, futures, fifo, pc>>
  BY <1>2, <1>3, <1>4, <1>6, OnceKept DEF OnceInv
<1>7. QED
  BY <1>5, <1>6 DEF Dispatch

LEMMA OnceCancelled ==
  ASSUME BaseInv, OnceInv, NEW h \in Handlers, CancelFutures(h)
  PROVE  OnceInv'
<1> DEFINE j == handler[h].job
<1>1. NoRepeat(pending') /\ Waiting' \subseteq Waiting
  BY WithoutOnce DEF CancelFutures, BaseInv, TypeOK, OnceInv, Waiting
<1>2. active' \subseteq active /\ futures' = active'
  BY DEF CancelFutures, ForgetFinished, OnceInv
<1>3. submitting' = submitting /\ rejected' = rejected
  BY DEF CancelFutures
<1>4. \A t \in Tasks : pc'[t] = "none" <=> pc[t] = "none"
  BY DEF CancelFutures
<1>5. [Next]_vars
  BY DEF Next, HandlerStep
<1>6. QED
  BY <1>1, <1>2, <1>3, <1>4, <1>5, OnceKept

LEMMA OnceStep == BaseInv /\ OnceInv /\ [Next]_vars => OnceInv'
<1> SUFFICES ASSUME BaseInv, OnceInv, [Next]_vars  PROVE OnceInv'
  OBVIOUS
<1>1. CASE \E j \in Jobs, n \in Models, sid \in SubmissionIds \cup {None},
             fp \in Fingerprints : Submit(j, n, sid, fp)
  BY <1>1, OnceSubmitted
<1>2. CASE \E j \in Jobs : SchedulerSubmit(j)
  BY <1>2, OnceHandedOver
<1>3. CASE Dispatch
  BY <1>3, OnceDispatched
<1>4. CASE \E h \in Handlers : CancelFutures(h)
  BY <1>4, OnceCancelled
<1>5. CASE \E t \in Tasks : Pick(t) \/ WorkerStep(t)
  <2>1. PICK t \in Tasks : Pick(t) \/ WorkerStep(t)
    BY <1>5
  <2>2. pc[t] # "none" /\ pc'[t] # "none"
    BY <2>1
    DEF Pick, WorkerStep, BeginModel, Spawn, Register, Communicate, Timeout,
        StopProcess, Unregister, Report, Return, Callback, Goto, BaseInv,
        TypeOK
  <2>3. \A u \in Tasks : u # t => pc'[u] = pc[u]
    BY <2>1
    DEF Pick, WorkerStep, BeginModel, Spawn, Register, Communicate, Timeout,
        StopProcess, Unregister, Report, Return, Callback, Goto, BaseInv,
        TypeOK
  <2>4. /\ active' \subseteq active /\ futures' = active'
        /\ UNCHANGED <<pending, submitting, rejected>>
    BY <2>1
    DEF Pick, WorkerStep, BeginModel, Spawn, Register, Communicate, Timeout,
        StopProcess, Unregister, Report, Return, Callback, ForgetFinished,
        schedVars, httpVars, OnceInv
  <2>5. NoRepeat(pending') /\ Waiting' = Waiting
    BY <2>4 DEF OnceInv, Waiting
  <2>6. QED
    BY <2>2, <2>3, <2>4, <2>5, OnceKept
<1>6. CASE ShutdownExecutor
  <2>1. /\ active' \subseteq active /\ futures' = active'
        /\ UNCHANGED <<pending, submitting, rejected>>
        /\ \A t \in Tasks : pc'[t] = "none" <=> pc[t] = "none"
    BY <1>6 DEF ShutdownExecutor, httpVars, OnceInv
  <2>2. NoRepeat(pending') /\ Waiting' = Waiting
    BY <2>1 DEF OnceInv, Waiting
  <2>3. QED
    BY <2>1, <2>2, OnceKept
<1>7. CASE /\ UNCHANGED <<active, futures, pending, pc, submitting>>
           /\ rejected' \subseteq rejected
  <2>1. NoRepeat(pending') /\ Waiting' = Waiting
    BY <1>7 DEF OnceInv, Waiting
  <2>2. QED
    BY <1>7, <2>1, OnceKept DEF OnceInv
<1>8. QED
  BY <1>1, <1>2, <1>3, <1>4, <1>5, <1>6, <1>7
  DEF Next, SubmitStep, CancelRejected, ClientCancel, StoreCancel,
      HandlerStep, FinishCancel, SignalProcess, BeginClose, CloseStep,
      CloseCancel, Join, ClientRead, vars, serviceVars, schedVars, workerVars,
      httpVars

LEMMA OnceAlways == Spec => [](BaseInv /\ OnceInv)
<1>1. Init => OnceInv
  <2> SUFFICES ASSUME Init  PROVE OnceInv
    OBVIOUS
  <2>1. Waiting = {} /\ NoRepeat(pending)
    BY EmptySeq DEF Init, Waiting, Places, NoRepeat
  <2>2. QED
    BY <2>1 DEF Init, OnceInv
<1>2. QED
  BY <1>1, InitBase, BaseStep, OnceStep, PTL DEF Spec

(* No job is queued or started twice: it is being submitted, or waits in   *)
(* one place, or holds a slot together with its futures.                   *)
THEOREM JobsAreScheduledOnce == Spec => []ScheduledOnce
<1>1. BaseInv /\ OnceInv => ScheduledOnce
  BY OnceInvIsEnough DEF BaseInv
<1>2. QED
  BY <1>1, OnceAlways, PTL

-----------------------------------------------------------------------------
(* No process escapes a cancellation.  A process that runs unsignalled is  *)
(* either not registered yet, and its thread will read the status under    *)
(* the lock, or registered and waited for, and then every handler that     *)
(* takes the lock finds it.                                                *)

ReachInv ==
  /\ \A t \in Tasks : proc[t] = "live" => pc[t] \in {"registering", "waiting"}
  /\ \A t \in Tasks : pc[t] = "waiting" => t \in registered
  /\ \A h \in Handlers : handler[h].step = "idle" => handler[h].procs = {}
  /\ CancelReachesProcesses

(* The handlers that may still reach t.                                    *)
Reaches(h, t) ==
  /\ handler[h].job = t[1]
  /\ handler[h].step = "scheduler" \/ t \in handler[h].procs

(* Unsignalled processes, and waiting threads, come only from Spawn and    *)
(* Register; only the latter's check lets a live process be waited for.    *)
LEMMA ProcessMoves ==
  ASSUME TypeOK, ReachInv, NEW u \in Tasks, Pick(u) \/ WorkerStep(u),
         NEW t \in Tasks
  PROVE  /\ proc'[t] = "live" => pc'[t] \in {"registering", "waiting"}
         /\ pc'[t] = "waiting" => t \in registered'
         /\ proc'[t] = "live" /\ pc'[t] # "registering" =>
              \/ proc[t] = "live" /\ pc[t] = "waiting"
              \/ Startable(t[1]) /\ Touch
<1>1. CASE u = t
  BY <1>1
  DEF Pick, WorkerStep, BeginModel, Spawn, Register, Communicate, Timeout,
      StopProcess, Unregister, Report, Return, Callback, Goto, TypeOK, ReachInv
<1>2. CASE u # t
  <2>1. /\ pc'[t] = pc[t] /\ proc'[t] = proc[t]
        /\ t \in registered => t \in registered'
    BY <1>2
    DEF Pick, WorkerStep, BeginModel, Spawn, Register, Communicate, Timeout,
        StopProcess, Unregister, Report, Return, Callback, Goto, TypeOK
  <2>2. QED
    BY <2>1 DEF ReachInv
<1>3. QED
  BY <1>1, <1>2

LEMMA ReachWorker ==
  ASSUME BaseInv, ReachInv, NEW u \in Tasks, Pick(u) \/ WorkerStep(u)
  PROVE  ReachInv'
<1>1. TypeOK /\ handler' = handler
  BY DEF Pick, WorkerStep, BeginModel, Spawn, Register, Communicate, Timeout,
         StopProcess, Unregister, Report, Return, Callback, httpVars, BaseInv
<1>2. \A j \in Jobs : status'[j] = "cancelled" => status[j] = "cancelled"
  <2>1. \/ UNCHANGED storeVars
        \/ Touch
        \/ StartModel(u)
        \/ \E r \in Results : FinishModel(u, r)
    BY <1>1 DEF Pick, WorkerStep, BeginModel, Spawn, Register, Communicate,
                Timeout, StopProcess, Unregister, Report, Return, Callback,
                TypeOK
  <2>2. u[1] \in Jobs /\ status \in [Jobs -> Statuses]
    BY TaskParts DEF BaseInv, TypeOK, StoreTypeOK
  <2>3. QED
    BY <2>1, <2>2
    DEF storeVars, Touch, StartModel, FinishModel, FinalStatus
<1>3. ASSUME NEW t \in Tasks, status'[t[1]] = "cancelled", proc'[t] = "live",
             pc'[t] # "registering"
      PROVE  \E h \in Handlers : Reaches(h, t)'
  <2>1. status[t[1]] = "cancelled"
    BY <1>2, <1>3, TaskParts
  <2>2. proc[t] = "live" /\ pc[t] = "waiting"
    BY <1>1, <1>3, <2>1, ProcessMoves DEF Startable
  <2>3. \E h \in Handlers : Reaches(h, t)
    BY <2>1, <2>2 DEF ReachInv, CancelReachesProcesses, Reaches
  <2>4. QED
    BY <1>1, <2>3 DEF Reaches
<1>4. CancelReachesProcesses'
  BY <1>3 DEF CancelReachesProcesses, Reaches
<1>5. \A t \in Tasks :
        /\ proc'[t] = "live" => pc'[t] \in {"registering", "waiting"}
        /\ pc'[t] = "waiting" => t \in registered'
  BY <1>1, ProcessMoves
<1>6. \A h \in Handlers : handler'[h].step = "idle" => handler'[h].procs = {}
  BY <1>1 DEF ReachInv
<1>7. QED
  BY <1>4, <1>5, <1>6 DEF ReachInv

(* A handler cancels a job: from now on it reaches every process of it.    *)
LEMMA ReachStoreCancel ==
  ASSUME BaseInv, ReachInv, NEW h \in Handlers, NEW j \in Jobs,
         StoreCancel(h, j)
  PROVE  ReachInv'
<1>1. /\ handler[h].step = "idle" /\ handler[h].procs = {}
      /\ UNCHANGED <<pc, proc, registered>>
      /\ handler' = [handler EXCEPT ![h] =
                       [step |-> "scheduler", job |-> j, procs |-> {}]]
  BY DEF StoreCancel, ReachInv, workerVars
<1>2. /\ handler'[h] = [step |-> "scheduler", job |-> j, procs |-> {}]
      /\ \A g \in Handlers : g # h => handler'[g] = handler[g]
  BY <1>1 DEF BaseInv, TypeOK
<1>3. \A i \in Jobs : i # j => status'[i] = status[i]
  BY DEF StoreCancel, CancelJob, Touch, BaseInv, TypeOK, StoreTypeOK
<1>4. ASSUME NEW t \in Tasks, status'[t[1]] = "cancelled", proc'[t] = "live",
             pc'[t] # "registering"
      PROVE  \E g \in Handlers : Reaches(g, t)'
  <2>1. CASE t[1] = j
    BY <1>2, <2>1 DEF Reaches
  <2>2. CASE t[1] # j
    <3>1. PICK g \in Handlers : Reaches(g, t)
      BY <1>1, <1>3, <1>4, <2>2, TaskParts
      DEF ReachInv, CancelReachesProcesses, Reaches
    <3>2. g # h
      BY <1>1, <3>1 DEF Reaches
    <3>3. QED
      BY <1>2, <3>1, <3>2 DEF Reaches
  <2>3. QED
    BY <2>1, <2>2
<1>5. CancelReachesProcesses'
  BY <1>4 DEF CancelReachesProcesses, Reaches
<1>6. \A g \in Handlers : handler'[g].step = "idle" => handler'[g].procs = {}
  BY <1>2 DEF ReachInv
<1>7. QED
  BY <1>1, <1>5, <1>6 DEF ReachInv

(* Under the lock, the handler takes note of every process registered.     *)
LEMMA ReachCancelFutures ==
  ASSUME BaseInv, ReachInv, NEW h \in Handlers, CancelFutures(h)
  PROVE  ReachInv'
<1> DEFINE j == handler[h].job
<1>1. /\ UNCHANGED <<status, proc, registered>>
      /\ handler' = [handler EXCEPT ![h] =
                       [step |-> "signal", job |-> j,
                        procs |-> {t \in registered : t[1] = j}]]
  BY DEF CancelFutures, storeVars
<1>2. /\ handler'[h] = [step |-> "signal", job |-> j,
                        procs |-> {t \in registered : t[1] = j}]
      /\ \A g \in Handlers : g # h => handler'[g] = handler[g]
  BY <1>1 DEF BaseInv, TypeOK
<1>3. \A t \in Tasks :
        /\ pc[t] \in {"registering", "waiting"} => pc'[t] = pc[t]
        /\ pc'[t] \in {"registering", "waiting"} => pc'[t] = pc[t]
  BY DEF CancelFutures
<1>4. ASSUME NEW t \in Tasks, status'[t[1]] = "cancelled", proc'[t] = "live",
             pc'[t] # "registering"
      PROVE  \E g \in Handlers : Reaches(g, t)'
  <2>1. pc[t] = "waiting" /\ t \in registered
    BY <1>1, <1>3, <1>4 DEF ReachInv
  <2>2. PICK g \in Handlers : Reaches(g, t)
    BY <1>1, <1>4, <2>1 DEF ReachInv, CancelReachesProcesses, Reaches
  <2>3. CASE g = h
    BY <1>2, <2>1, <2>2, <2>3 DEF Reaches
  <2>4. CASE g # h
    BY <1>2, <2>2, <2>4 DEF Reaches
  <2>5. QED
    BY <2>3, <2>4
<1>5. CancelReachesProcesses'
  BY <1>4 DEF CancelReachesProcesses, Reaches
<1>6. \A g \in Handlers : handler'[g].step = "idle" => handler'[g].procs = {}
  BY <1>2 DEF ReachInv
<1>7. QED
  BY <1>1, <1>3, <1>5, <1>6 DEF ReachInv

LEMMA ReachSignal ==
  ASSUME BaseInv, ReachInv, NEW h \in Handlers, NEW u \in Tasks,
         SignalProcess(h, u)
  PROVE  ReachInv'
<1>1. /\ UNCHANGED <<status, pc, registered>>
      /\ proc' = [proc EXCEPT ![u] =
                    IF proc[u] = "live" THEN "signalled" ELSE proc[u]]
      /\ handler' = [handler EXCEPT ![h].procs = handler[h].procs \ {u}]
      /\ handler[h].step = "signal"
  BY DEF SignalProcess, storeVars
<1>2. \A g \in Handlers :
        /\ handler'[g].step = handler[g].step
        /\ handler'[g].job = handler[g].job
        /\ handler'[g].procs = IF g = h THEN handler[g].procs \ {u}
                               ELSE handler[g].procs
  BY <1>1 DEF BaseInv, TypeOK
<1>3. \A t \in Tasks : proc'[t] = "live" => proc[t] = "live" /\ t # u
  BY <1>1 DEF BaseInv, TypeOK
<1>4. ASSUME NEW t \in Tasks, status'[t[1]] = "cancelled", proc'[t] = "live",
             pc'[t] # "registering"
      PROVE  \E g \in Handlers : Reaches(g, t)'
  <2>1. PICK g \in Handlers : Reaches(g, t)
    BY <1>1, <1>3, <1>4 DEF ReachInv, CancelReachesProcesses, Reaches
  <2>2. QED
    BY <1>2, <1>3, <1>4, <2>1 DEF Reaches
<1>5. CancelReachesProcesses'
  BY <1>4 DEF CancelReachesProcesses, Reaches
<1>6. \A g \in Handlers : handler'[g].step = "idle" => handler'[g].procs = {}
  BY <1>1, <1>2 DEF ReachInv
<1>7. QED
  BY <1>1, <1>3, <1>5, <1>6 DEF ReachInv

LEMMA ReachFinish ==
  ASSUME BaseInv, ReachInv, NEW h \in Handlers, FinishCancel(h)
  PROVE  ReachInv'
<1>1. /\ UNCHANGED <<status, pc, proc, registered>>
      /\ handler[h].step = "signal" /\ handler[h].procs = {}
      /\ handler' = [handler EXCEPT ![h] = IdleHandler]
  BY DEF FinishCancel, storeVars, workerVars
<1>2. /\ handler'[h] = IdleHandler
      /\ \A g \in Handlers : g # h => handler'[g] = handler[g]
  BY <1>1 DEF BaseInv, TypeOK
<1>3. \A t \in Tasks, g \in Handlers : Reaches(g, t) => Reaches(g, t)'
  BY <1>1, <1>2 DEF Reaches
<1>4. CancelReachesProcesses'
  BY <1>1, <1>3 DEF ReachInv, CancelReachesProcesses, Reaches
<1>5. \A g \in Handlers : handler'[g].step = "idle" => handler'[g].procs = {}
  BY <1>2 DEF ReachInv, IdleHandler
<1>6. QED
  BY <1>1, <1>4, <1>5 DEF ReachInv

(* Steps that cancel no job, and touch neither processes nor handlers.     *)
LEMMA ReachUntouched ==
  ASSUME ReachInv, UNCHANGED <<proc, registered, handler>>,
         \A t \in Tasks :
           /\ pc[t] \in {"registering", "waiting"} => pc'[t] = pc[t]
           /\ pc'[t] = "waiting" => pc[t] = "waiting",
         \A t \in Tasks : status'[t[1]] = "cancelled" /\ proc[t] = "live"
                            => status[t[1]] = "cancelled"
  PROVE  ReachInv'
<1>1. CancelReachesProcesses'
  BY DEF ReachInv, CancelReachesProcesses
<1>2. QED
  BY <1>1 DEF ReachInv

(* The closed scheduler refused the job, so no process of it ever started. *)
LEMMA ReachRejected ==
  ASSUME BaseInv, OnceInv, ReachInv, NEW j \in Jobs, CancelRejected(j)
  PROVE  ReachInv'
<1>1. /\ j \in rejected
      /\ UNCHANGED <<pc, proc, registered, handler>>
  BY DEF CancelRejected, workerVars
<1>2. \A t \in Tasks : t[1] = j => proc[t] # "live"
  BY <1>1 DEF OnceInv, BaseInv, PlacesInv, ReachInv
<1>3. \A i \in Jobs : i # j => status'[i] = status[i]
  BY DEF CancelRejected, CancelJob, Touch, BaseInv, TypeOK, StoreTypeOK
<1>4. \A t \in Tasks : status'[t[1]] = "cancelled" /\ proc[t] = "live"
        => status[t[1]] = "cancelled"
  BY <1>2, <1>3, TaskParts
<1>5. QED
  BY <1>1, <1>4, ReachUntouched

(* Starting a job makes futures only where there were none.                *)
LEMMA ReachStarted ==
  ASSUME BaseInv, OnceInv, ReachInv, NEW j \in Jobs, StartJob(j),
         j \in submitting \cup Waiting,
         UNCHANGED <<status, proc, registered, handler>>
  PROVE  ReachInv'
<1>1. \A t \in TasksOf(j) : pc[t] = "none"
  BY DEF OnceInv
<1>2. \A t \in Tasks : pc'[t] = IF t \in TasksOf(j) THEN "queued" ELSE pc[t]
  BY DEF StartJob
<1>3. QED
  BY <1>1, <1>2, ReachUntouched

LEMMA ReachStep == BaseInv /\ OnceInv /\ ReachInv /\ [Next]_vars => ReachInv'
<1> SUFFICES ASSUME BaseInv, OnceInv, ReachInv, [Next]_vars  PROVE ReachInv'
  OBVIOUS
<1>1. CASE \E t \in Tasks : Pick(t) \/ WorkerStep(t)
  BY <1>1, ReachWorker
<1>2. CASE \E h \in Handlers, j \in Jobs : StoreCancel(h, j)
  BY <1>2, ReachStoreCancel
<1>3. CASE \E h \in Handlers : HandlerStep(h)
  BY <1>3, ReachCancelFutures, ReachSignal, ReachFinish DEF HandlerStep
<1>4. CASE \E j \in Jobs : CancelRejected(j)
  BY <1>4, ReachRejected
<1>5. CASE \E j \in Jobs : SchedulerSubmit(j)
  <2>1. PICK j \in Jobs : SchedulerSubmit(j)
    BY <1>5
  <2>2. UNCHANGED <<status, proc, registered, handler>> /\ j \in submitting
    BY <2>1 DEF SchedulerSubmit, storeVars
  <2>3. CASE StartJob(j)
    BY <2>2, <2>3, ReachStarted
  <2>4. CASE pc' = pc
    BY <2>2, <2>4, ReachUntouched
  <2>5. QED
    BY <2>1, <2>3, <2>4 DEF SchedulerSubmit
<1>6. CASE Dispatch
  <2>1. UNCHANGED <<status, proc, registered, handler>>
    BY <1>6 DEF Dispatch, Touch, httpVars
  <2>2. Head(pending) \in Jobs /\ Head(pending) \in Waiting
    BY <1>6, TailOnce, HeadTailProperties
    DEF Dispatch, MoreToStart, BaseInv, TypeOK, OnceInv, Waiting
  <2>3. CASE StartJob(Head(pending))
    BY <2>1, <2>2, <2>3, ReachStarted
  <2>4. CASE pc' = pc
    BY <2>1, <2>4, ReachUntouched
  <2>5. QED
    BY <1>6, <2>3, <2>4 DEF Dispatch
<1>7. CASE ShutdownExecutor
  <2>1. UNCHANGED <<status, proc, registered, handler>>
    BY <1>7 DEF ShutdownExecutor, storeVars, httpVars
  <2>2. \A t \in Tasks :
          pc'[t] = IF pc[t] = "queued" THEN "cancelled" ELSE pc[t]
    BY <1>7 DEF ShutdownExecutor
  <2>3. QED
    BY <2>1, <2>2, ReachUntouched
<1>8. CASE UNCHANGED <<status, pc, proc, registered, handler>>
  BY <1>8, ReachUntouched
<1>9. QED
  BY <1>1, <1>2, <1>3, <1>4, <1>5, <1>6, <1>7, <1>8
  DEF Next, Submit, Reserve, SubmitStep, ClientCancel, BeginClose, CloseStep,
      CloseCancel, Join, ClientRead, Elapse, Touch, vars, serviceVars,
      storeVars, workerVars, httpVars, Handlers

LEMMA ReachAlways == Spec => [](BaseInv /\ OnceInv /\ ReachInv)
<1>1. Init => ReachInv
  BY DEF Init, ReachInv, CancelReachesProcesses, IdleHandler
<1>2. QED
  BY <1>1, ReachStep, OnceAlways, PTL DEF Spec

(* Once a job is cancelled none of its processes is overlooked: whoever    *)
(* still runs unsignalled is about to read the status, or is on the list   *)
(* of a handler that has not finished its cancellation.                    *)
THEOREM CancellationReachesAll == Spec => []CancelReachesProcesses
  BY ReachAlways, PTL DEF ReachInv

-----------------------------------------------------------------------------
(* Nothing is left undecided.  A job is over once the store has settled or *)
(* forgotten it; until then the scheduler holds it somewhere, and close    *)
(* has it on its list.                                                     *)

Over(j) == j \notin present \/ terminal[j]
Held == submitting \cup rejected \cup Waiting \cup futures

(* Every job that is not over is somewhere in the scheduler.               *)
HeldInv == \A j \in present : terminal[j] \/ j \in Held

(* A future that has to run belongs to a job that holds its slot.          *)
FutureInv ==
  \A t \in Tasks : pc[t] \in {"queued"} \cup RunningSteps => t[1] \in futures

(* A model is running in the hands of a worker thread, or its job is over. *)
RunningInv ==
  \A t \in Tasks : model[t] = "running" => pc[t] \in MarkedSteps \/ Over(t[1])

(* No worker thread lets go of a model the store still waits for.          *)
SettledInv ==
  \A t \in Tasks :
    pc[t] \in OverSteps => t[1] \notin present \/ model[t] \notin OpenStates

(* A handler that goes on to the scheduler has settled its job.            *)
HandledInv ==
  \A h \in Handlers :
    handler[h].step # "idle" =>
      \E j \in Jobs : handler[h].job = j /\ size[j] > 0 /\ Over(j)

(* close settles every job that has futures or waits.                      *)
ListedInv == Closed => \A j \in futures \cup Waiting : j \in toCancel \/ Over(j)

OverInv ==
  HeldInv /\ FutureInv /\ RunningInv /\ SettledInv /\ HandledInv /\ ListedInv

(* What is over stays so.                                                  *)
LEMMA OverStays ==
  ASSUME StoreInv, [StoreNext]_storeVars, NEW j \in Jobs, size[j] > 0, Over(j)
  PROVE  Over(j)'
  BY StoreEffects DEF Over

(* A job is started from where it waits, while the scheduler is open.      *)
Starts(j) == StartJob(j) /\ ~Closed /\ j \in submitting \cup Waiting

LEMMA DispatchStarts ==
  ASSUME BaseInv, OnceInv, Dispatch
  PROVE  /\ Head(pending) \in Jobs /\ Head(pending) \in Waiting
         /\ Waiting' = Waiting \ {Head(pending)}
         /\ ~Closed
  BY TailOnce, HeadTailProperties
  DEF Dispatch, MoreToStart, BaseInv, TypeOK, OnceInv, Waiting

(* How a future gets to the steps that matter here.                        *)
LEMMA StepMoves ==
  ASSUME BaseInv, OnceInv, [Next]_vars, NEW t \in Tasks
  PROVE  /\ pc'[t] \in {"queued"} \cup RunningSteps =>
              \/ pc[t] \in {"queued"} \cup RunningSteps
              \/ \E j \in Jobs : Starts(j) /\ t \in TasksOf(j)
         /\ pc[t] \in MarkedSteps => pc'[t] \in MarkedSteps \/ Report(t)
         /\ pc'[t] \in OverSteps =>
              \/ pc[t] \in OverSteps
              \/ Report(t)
              \/ BeginModel(t) /\ ~CanStart(t) /\ Touch
              \/ /\ pc[t] = "queued"
                 /\ \/ \E h \in Handlers :
                         CancelFutures(h) /\ handler[h].job = t[1]
                    \/ ShutdownExecutor
<1>1. CASE \E u \in Tasks : Pick(u) \/ WorkerStep(u)
  <2>1. PICK u \in Tasks : Pick(u) \/ WorkerStep(u)
    BY <1>1
  <2>2. CASE u = t
    BY <2>1, <2>2
    DEF Pick, WorkerStep, BeginModel, Spawn, Register, Communicate, Timeout,
        StopProcess, Unregister, Report, Return, Callback, Goto, BaseInv,
        TypeOK, MarkedSteps, OverSteps, RunningSteps, DoneSteps
  <2>3. CASE u # t
    <3>1. pc'[t] = pc[t]
      BY <2>1, <2>3
      DEF Pick, WorkerStep, BeginModel, Spawn, Register, Communicate, Timeout,
          StopProcess, Unregister, Report, Return, Callback, Goto, BaseInv, TypeOK
    <3>2. QED
      BY <3>1
  <2>4. QED
    BY <2>2, <2>3
<1>2. CASE \E j \in Jobs : Starts(j)
  <2>1. PICK j \in Jobs : Starts(j)
    BY <1>2
  <2>2. pc'[t] = IF t \in TasksOf(j) THEN "queued" ELSE pc[t]
    BY <2>1 DEF Starts, StartJob
  <2>3. t \in TasksOf(j) => pc[t] = "none"
    BY <2>1 DEF Starts, OnceInv
  <2>4. QED
    BY <2>1, <2>2, <2>3 DEF MarkedSteps, OverSteps, DoneSteps
<1>3. CASE \E h \in Handlers : CancelFutures(h)
  <2>1. PICK h \in Handlers : CancelFutures(h)
    BY <1>3
  <2>2. \/ pc'[t] = pc[t]
        \/ pc'[t] = "cancelled" /\ pc[t] = "queued" /\ handler[h].job = t[1]
    BY <2>1 DEF CancelFutures, TasksOf
  <2>3. QED
    BY <2>1, <2>2 DEF MarkedSteps, OverSteps, RunningSteps, DoneSteps
<1>4. CASE ShutdownExecutor
  <2>1. pc'[t] = IF pc[t] = "queued" THEN "cancelled" ELSE pc[t]
    BY <1>4 DEF ShutdownExecutor
  <2>2. QED
    BY <1>4, <2>1 DEF MarkedSteps, OverSteps, RunningSteps, DoneSteps
<1>5. CASE pc' = pc
  BY <1>5
<1>6. QED
  BY <1>1, <1>2, <1>3, <1>4, <1>5, DispatchStarts
  DEF Starts, Next, Submit, SubmitStep, SchedulerSubmit, CancelRejected, Dispatch,
      ClientCancel, StoreCancel, HandlerStep, FinishCancel, SignalProcess,
      BeginClose, CloseStep, CloseCancel, Join, ClientRead, vars, serviceVars,
      workerVars

(* A job's futures are dropped when all of them are done, and appear when  *)
(* it is started, which a closed scheduler does not do.                    *)
LEMMA FuturesMove ==
  ASSUME BaseInv, OnceInv, [Next]_vars, NEW j \in Jobs
  PROVE  /\ j \in futures /\ j \notin futures' => AllDone(j, pc')
         /\ j \in futures' /\ j \notin futures => Starts(j)
<1>1. CASE \E i \in Jobs : Starts(i)
  BY <1>1 DEF Starts, StartJob
<1>2. CASE \E t \in Tasks : Callback(t)
  BY <1>2 DEF Callback, ForgetFinished
<1>3. CASE \E h \in Handlers : CancelFutures(h)
  BY <1>3 DEF CancelFutures, ForgetFinished
<1>4. CASE ShutdownExecutor
  BY <1>4 DEF ShutdownExecutor
<1>5. CASE futures' = futures
  BY <1>5
<1>6. QED
  BY <1>1, <1>2, <1>3, <1>4, <1>5, DispatchStarts
  DEF Starts, Next, Submit, SubmitStep, SchedulerSubmit, CancelRejected, Dispatch,
      MoreToStart, Pick, WorkerStep, BeginModel, Spawn, Register, Communicate,
      Timeout, StopProcess, Unregister, Report, Return, ClientCancel,
      StoreCancel, HandlerStep, FinishCancel, SignalProcess, BeginClose,
      CloseStep, CloseCancel, Join, ClientRead, vars, serviceVars, schedVars

LEMMA FutureStep ==
  ASSUME BaseInv, OnceInv, FutureInv, [Next]_vars
  PROVE  FutureInv'
<1> SUFFICES ASSUME NEW t \in Tasks, pc'[t] \in {"queued"} \cup RunningSteps
             PROVE  t[1] \in futures'
  BY DEF FutureInv
<1>1. CASE pc[t] \in {"queued"} \cup RunningSteps
  <2>1. t[1] \in futures /\ t \in TasksOf(t[1]) /\ t[1] \in Jobs
    BY <1>1, TaskParts DEF FutureInv, BaseInv, PlacesInv, RunningSteps
  <2>2. ~AllDone(t[1], pc')
    BY <2>1 DEF AllDone, RunningSteps, DoneSteps
  <2>3. QED
    BY <2>1, <2>2, FuturesMove
<1>2. CASE \E j \in Jobs : Starts(j) /\ t \in TasksOf(j)
  BY <1>2 DEF Starts, StartJob, TasksOf
<1>3. QED
  BY <1>1, <1>2, StepMoves

(* The steps of a worker that touch the model in the store.                *)
LEMMA ModelMarked ==
  ASSUME BaseInv, [Next]_vars, NEW t \in Tasks, model'[t] = "running"
  PROVE  model[t] = "running" \/ pc'[t] = "spawning"
<1>1. CASE \E u \in Tasks : BeginModel(u)
  <2>1. PICK u \in Tasks : BeginModel(u)
    BY <1>1
  <2>2. QED
    BY <2>1 DEF BeginModel, StartModel, Touch, Goto, BaseInv, TypeOK, StoreTypeOK
<1>2. CASE \E u \in Tasks : Report(u)
  <2>1. PICK u \in Tasks : Report(u)
    BY <1>2
  <2>2. QED
    BY <2>1 DEF Report, FinishModel, Touch, BaseInv, TypeOK, StoreTypeOK
<1>3. CASE model' = model \/ \E j \in Jobs : CancelJob(j)
  BY <1>3 DEF CancelJob
<1>4. QED
  BY <1>1, <1>2, <1>3
  DEF Next, Submit, Reserve, SubmitStep, SchedulerSubmit, CancelRejected,
      Dispatch, Pick, WorkerStep, Spawn, Register, Communicate, Timeout,
      StopProcess, Unregister, Return, Callback, ClientCancel, StoreCancel,
      HandlerStep, CancelFutures, FinishCancel, SignalProcess, BeginClose,
      CloseStep, CloseCancel, ShutdownExecutor, Join, ClientRead, Elapse,
      Touch, vars, storeVars

(* A report leaves the model answered, or its job forgotten.               *)
LEMMA ReportSettles ==
  ASSUME BaseInv, NEW t \in Tasks, Report(t)
  PROVE  t[1] \notin present' \/ model'[t] \notin OpenStates
<1>1. CASE FinishModel(t, answer[t])
  BY <1>1 DEF FinishModel, OpenStates, BaseInv, TypeOK, StoreTypeOK
<1>2. CASE ~StillOpen(t) /\ Touch
  BY <1>2 DEF StillOpen, Touch, Prune
<1>3. QED
  BY <1>1, <1>2 DEF Report

LEMMA RunningStep ==
  ASSUME BaseInv, OnceInv, RunningInv, [Next]_vars
  PROVE  RunningInv'
<1> SUFFICES ASSUME NEW t \in Tasks, model'[t] = "running"
             PROVE  pc'[t] \in MarkedSteps \/ Over(t[1])'
  BY DEF RunningInv
<1>1. CASE pc'[t] = "spawning"
  BY <1>1 DEF MarkedSteps
<1>2. CASE model[t] = "running" /\ pc[t] \in MarkedSteps
  <2>1. CASE Report(t)
    BY <2>1, ReportSettles DEF OpenStates, Over
  <2>2. CASE pc'[t] \in MarkedSteps
    BY <2>2
  <2>3. QED
    BY <1>2, <2>1, <2>2, StepMoves
<1>3. CASE model[t] = "running" /\ Over(t[1])
  <2>1. t[1] \in Jobs /\ size[t[1]] > 0
    BY <1>3, TaskParts, TaskHasSize DEF BaseInv, StoreInv, SummaryInv
  <2>2. QED
    BY <1>3, <2>1, OverStays, ServiceCallsStore DEF BaseInv
<1>4. QED
  BY <1>1, <1>2, <1>3, ModelMarked DEF RunningInv

LEMMA SettledStep ==
  ASSUME BaseInv, OnceInv, OverInv, [Next]_vars
  PROVE  SettledInv'
<1> SUFFICES ASSUME NEW t \in Tasks, pc'[t] \in OverSteps
             PROVE  t[1] \notin present' \/ model'[t] \notin OpenStates
  BY DEF SettledInv
<1>1. StoreInv /\ [StoreNext]_storeVars /\ t[1] \in Jobs
  BY ServiceCallsStore, TaskParts DEF BaseInv
<1>2. ASSUME t \in TasksOf(t[1]), t[1] \notin present \/ model[t] \notin OpenStates
      PROVE  t[1] \notin present' \/ model'[t] \notin OpenStates
  <2>1. size[t[1]] > 0
    BY <1>1, <1>2, TaskHasSize DEF StoreInv
  <2>2. QED
    BY <1>1, <1>2, <2>1, StoreEffects
<1>3. CASE pc[t] \in OverSteps
  BY <1>2, <1>3 DEF OverInv, SettledInv, OverSteps, DoneSteps, BaseInv, PlacesInv
<1>4. CASE Report(t)
  BY <1>4, ReportSettles DEF BaseInv
<1>5. CASE BeginModel(t) /\ ~CanStart(t) /\ Touch
  <2>1. CASE t[1] \notin Kept
    BY <1>5, <2>1 DEF Touch, Prune
  <2>2. CASE model[t] = "running"
    <3>1. Over(t[1]) /\ t \in TasksOf(t[1])
      BY <1>5, <2>2
      DEF OverInv, RunningInv, BeginModel, MarkedSteps, BaseInv, PlacesInv
    <3>2. QED
      BY <1>1, <1>2, <3>1, TerminalIsAnswered DEF Over
  <2>3. CASE model[t] \notin OpenStates
    BY <1>2, <1>5, <2>3 DEF BeginModel, BaseInv, PlacesInv
  <2>4. QED
    BY <1>5, <2>1, <2>2, <2>3 DEF CanStart, OpenStates
<1>6. CASE /\ pc[t] = "queued"
           /\ \/ \E h \in Handlers : CancelFutures(h) /\ handler[h].job = t[1]
              \/ ShutdownExecutor
  <2>1. t \in TasksOf(t[1]) /\ t[1] \in futures
    BY <1>6 DEF BaseInv, PlacesInv, OverInv, FutureInv
  <2>2. Over(t[1])
    <3>1. CASE \E h \in Handlers : CancelFutures(h) /\ handler[h].job = t[1]
      BY <3>1 DEF CancelFutures, OverInv, HandledInv
    <3>2. CASE ShutdownExecutor
      BY <2>1, <3>2 DEF ShutdownExecutor, Closed, OverInv, ListedInv
    <3>3. QED
      BY <1>6, <3>1, <3>2
  <2>3. QED
    BY <1>1, <1>2, <2>1, <2>2, TerminalIsAnswered DEF Over
<1>7. QED
  BY <1>3, <1>4, <1>5, <1>6, StepMoves

LEMMA StoreCancelSettles ==
  ASSUME BaseInv, NEW h \in Handlers, NEW j \in Jobs, StoreCancel(h, j)
  PROVE  size'[j] > 0 /\ Over(j)'
<1>1. size[j] > 0 /\ size' = size
  BY DEF StoreCancel, CancelJob, Touch, Kept, BaseInv, StoreInv, PresentCreated
<1>2. CASE CancelJob(j)
  BY <1>1, <1>2 DEF CancelJob, Over, BaseInv, StoreInv, StoreTypeOK
<1>3. CASE ~CanCancel(j) /\ Touch
  BY <1>1, <1>3 DEF StoreCancel, CanCancel, Touch, Over
<1>4. QED
  BY <1>2, <1>3 DEF StoreCancel

LEMMA HandledStep ==
  ASSUME BaseInv, HandledInv, [Next]_vars
  PROVE  HandledInv'
<1> SUFFICES ASSUME NEW h \in Handlers, handler'[h].step # "idle"
             PROVE  \E j \in Jobs :
                      handler'[h].job = j /\ size'[j] > 0 /\ Over(j)'
  BY DEF HandledInv
<1>1. CASE handler[h].step # "idle" /\ handler'[h].job = handler[h].job
  <2>1. PICK j \in Jobs : handler[h].job = j /\ size[j] > 0 /\ Over(j)
    BY <1>1 DEF HandledInv
  <2>2. QED
    BY <1>1, <2>1, OverStays, ServiceCallsStore, StoreEffects DEF BaseInv
<1>2. CASE \E j \in Jobs : StoreCancel(h, j)
  <2>1. PICK j \in Jobs : StoreCancel(h, j)
    BY <1>2
  <2>2. handler'[h].job = j
    BY <2>1 DEF StoreCancel, BaseInv, TypeOK
  <2>3. QED
    BY <2>1, <2>2, StoreCancelSettles
<1>3. \/ handler[h].step # "idle" /\ handler'[h].job = handler[h].job
      \/ \E j \in Jobs : StoreCancel(h, j)
  <2>1. CASE \E g \in Handlers : CancelFutures(g)
    BY <2>1 DEF CancelFutures, BaseInv, TypeOK
  <2>2. CASE \E g \in Handlers, u \in Tasks : SignalProcess(g, u)
    BY <2>2 DEF SignalProcess, BaseInv, TypeOK
  <2>3. CASE \E g \in Handlers : FinishCancel(g)
    BY <2>3 DEF FinishCancel, IdleHandler, BaseInv, TypeOK
  <2>4. CASE \E g \in Handlers, j \in Jobs : StoreCancel(g, j)
    BY <2>4 DEF StoreCancel, BaseInv, TypeOK
  <2>5. CASE handler' = handler
    BY <2>5
  <2>6. QED
    BY <2>1, <2>2, <2>3, <2>4, <2>5
    DEF Next, Submit, SubmitStep, SchedulerSubmit, CancelRejected, Dispatch,
        Pick, WorkerStep, BeginModel, Spawn, Register, Communicate, Timeout,
        StopProcess, Unregister, Report, Return, Callback, ClientCancel,
        HandlerStep, BeginClose, CloseStep, CloseCancel, ShutdownExecutor,
        Join, ClientRead, Handlers, vars, serviceVars, httpVars
<1>4. QED
  BY <1>1, <1>2, <1>3

(* A job waits from the moment the scheduler takes it until it is started, *)
(* skipped or cancelled.                                                   *)
LEMMA WaitingMoves ==
  ASSUME BaseInv, OnceInv, HandledInv, [Next]_vars, NEW j \in Jobs
  PROVE  /\ j \in Waiting' /\ j \notin Waiting => ~Closed
         /\ j \in Waiting /\ j \notin Waiting' => j \in futures' \/ Over(j)'
<1>1. CASE \E i \in Jobs : SchedulerSubmit(i)
  <2>1. PICK i \in Jobs : SchedulerSubmit(i)
    BY <1>1
  <2>2. CASE pending' = Append(pending, i) /\ ~Closed
    <3>1. Waiting' = Waiting \cup {i}
      <4>1. i \notin Waiting
        BY <2>1 DEF SchedulerSubmit, OnceInv
      <4>2. QED
        BY <2>2, <4>1, AppendOnce DEF BaseInv, TypeOK, OnceInv, Waiting
    <3>2. QED
      BY <2>2, <3>1
  <2>3. CASE pending' = pending
    BY <2>3 DEF Waiting
  <2>4. QED
    BY <2>1, <2>2, <2>3 DEF SchedulerSubmit, schedVars
<1>2. CASE Dispatch
  <2> DEFINE i == Head(pending)
  <2>1. i \in Jobs /\ Waiting' = Waiting \ {i}
    BY <1>2, DispatchStarts
  <2>2. CASE Startable(i)
    BY <1>2, <2>1, <2>2 DEF Dispatch, StartJob
  <2>3. CASE i \notin Kept
    BY <1>2, <2>1, <2>3 DEF Dispatch, Touch, Prune, Over
  <2>4. CASE i \in Kept /\ status[i] = "cancelled"
    <3>1. terminal[i]
      BY <2>1, <2>4
      DEF Kept, BaseInv, StoreInv, PresentCreated, SummaryInv, Summary,
          TerminalStatuses
    <3>2. QED
      BY <1>2, <2>1, <3>1 DEF Dispatch, Touch, Over
  <2>5. QED
    BY <2>2, <2>3, <2>4 DEF Startable
<1>3. CASE \E h \in Handlers : CancelFutures(h)
  <2>1. PICK h \in Handlers : CancelFutures(h)
    BY <1>3
  <2>2. Waiting' = Waiting \ {handler[h].job}
    BY <2>1, WithoutOnce DEF CancelFutures, BaseInv, TypeOK, OnceInv, Waiting
  <2>3. Over(handler[h].job) /\ UNCHANGED storeVars
    BY <2>1 DEF CancelFutures, HandledInv
  <2>4. QED
    BY <2>2, <2>3 DEF Over, storeVars
<1>4. CASE pending' = pending
  BY <1>4 DEF Waiting
<1>5. QED
  BY <1>1, <1>2, <1>3, <1>4
  DEF Next, Submit, SubmitStep, CancelRejected, Pick, WorkerStep, BeginModel,
      Spawn, Register, Communicate, Timeout, StopProcess, Unregister, Report,
      Return, Callback, ClientCancel, StoreCancel, HandlerStep, FinishCancel,
      SignalProcess, BeginClose, CloseStep, CloseCancel, ShutdownExecutor,
      Join, ClientRead, vars, serviceVars, schedVars

LEMMA ListedStep ==
  ASSUME BaseInv, OnceInv, OverInv, [Next]_vars
  PROVE  ListedInv'
<1> SUFFICES ASSUME Closed', NEW j \in futures' \cup Waiting'
             PROVE  j \in toCancel' \/ Over(j)'
  BY DEF ListedInv, Over
<1>1. TypeOK'
  BY BaseStep DEF BaseInv
<1>2. j \in Jobs
  BY <1>1, ElementOfSeq DEF TypeOK, Waiting, Places
<1>3. CASE BeginClose
  BY <1>3 DEF BeginClose, Outstanding, Waiting, Places, schedVars
<1>4. CASE Closed
  <2>1. j \in futures \cup Waiting
    BY <1>2, <1>4, FuturesMove, WaitingMoves DEF Starts, OverInv
  <2>2. j \in toCancel \/ Over(j)
    BY <1>4, <2>1 DEF OverInv, ListedInv
  <2>3. Over(j) => Over(j)'
    BY <1>2, <2>1, OverStays, ServiceCallsStore DEF BaseInv, OnceInv
  <2>4. CASE CloseCancel(j)
    <3>1. j \notin Kept /\ Touch => Over(j)'
      BY DEF Touch, Prune, Over
    <3>2. QED
      BY <1>2, <2>4, <3>1, StoreCancelSettles DEF CloseCancel, Handlers
  <2>5. CASE \E i \in Jobs \ {j} : CloseCancel(i)
    BY <2>2, <2>3, <2>5 DEF CloseCancel
  <2>6. CASE toCancel' = toCancel
    BY <2>2, <2>3, <2>6
  <2>7. QED
    BY <1>3, <2>4, <2>5, <2>6
    DEF Next, Submit, SubmitStep, SchedulerSubmit, CancelRejected, Dispatch,
        Pick, WorkerStep, BeginModel, Spawn, Register, Communicate, Timeout,
        StopProcess, Unregister, Report, Return, Callback, ClientCancel,
        HandlerStep, CancelFutures, FinishCancel, SignalProcess, BeginClose,
        CloseStep, ShutdownExecutor, Join, ClientRead, vars, serviceVars,
        closeVars, Closed
<1>5. QED
  <2>1. ~Closed => BeginClose
    BY DEF Next, Submit, SubmitStep, SchedulerSubmit, CancelRejected, Dispatch,
        Pick, WorkerStep, BeginModel, Spawn, Register, Communicate, Timeout,
        StopProcess, Unregister, Report, Return, Callback, ClientCancel,
        StoreCancel, HandlerStep, CancelFutures, FinishCancel, SignalProcess,
        CloseStep, CloseCancel, ShutdownExecutor, Join, ClientRead, vars,
        serviceVars, closeVars, Closed
  <2>2. QED
    BY <1>3, <1>4, <2>1

(* A job that the scheduler no longer holds is over: its last future was   *)
(* done, so all of its models are settled.                                 *)
LEMMA AllDoneIsOver ==
  ASSUME BaseInv', SettledInv', NEW j \in Jobs, size'[j] > 0,
         \A t \in TasksOf(j)' : pc'[t] \in DoneSteps
  PROVE  Over(j)'
<1> SUFFICES ASSUME j \in present'  PROVE terminal'[j]
  BY DEF Over
<1>1. \A t \in TasksOf(j)' : t \in Tasks /\ t[1] = j
  BY DEF TasksOf
<1>2. \A t \in TasksOf(j)' : model'[t] \notin OpenStates
  BY <1>1 DEF SettledInv, OverSteps
<1>3. QED
  BY <1>2 DEF BaseInv, StoreInv, SummaryInv, Summary

LEMMA HeldStep ==
  ASSUME BaseInv, OnceInv, OverInv, [Next]_vars
  PROVE  HeldInv'
<1> SUFFICES ASSUME NEW j \in Jobs, j \in present', ~terminal'[j]
             PROVE  j \in Held'
  BY BaseStep DEF HeldInv, BaseInv, TypeOK, StoreTypeOK
<1>1. StoreInv /\ [StoreNext]_storeVars /\ BaseInv' /\ SettledInv'
  BY ServiceCallsStore, BaseStep, SettledStep DEF BaseInv
<1>2. ~Over(j)'
  BY DEF Over
<1>3. CASE \E n \in Models, sid \in SubmissionIds \cup {None},
             fp \in Fingerprints : Submit(j, n, sid, fp)
  BY <1>3 DEF Submit, Held
<1>4. CASE j \in present
  <2>1. j \in Held /\ size[j] > 0
    BY <1>1, <1>4, StoreEffects
    DEF OverInv, HeldInv, StoreInv, PresentCreated
  <2>2. CASE j \in submitting
    <3>1. CASE SchedulerSubmit(j)
      <4>1. pending' = Append(pending, j) => j \in Waiting'
        BY AppendOnce, <2>2 DEF BaseInv, TypeOK, OnceInv, Waiting
      <4>2. QED
        BY <3>1, <4>1 DEF SchedulerSubmit, StartJob, Held
    <3>2. CASE j \in submitting'
      BY <3>2 DEF Held
    <3>3. QED
      BY <2>2, <3>1, <3>2
      DEF Next, Submit, SubmitStep, SchedulerSubmit, CancelRejected, Dispatch,
          Pick, WorkerStep, BeginModel, Spawn, Register, Communicate, Timeout,
          StopProcess, Unregister, Report, Return, Callback, ClientCancel,
          StoreCancel, HandlerStep, CancelFutures, FinishCancel,
          SignalProcess, BeginClose, CloseStep, CloseCancel,
          ShutdownExecutor, Join, ClientRead, vars, serviceVars, httpVars
  <2>3. CASE j \in rejected
    <3>1. CASE CancelRejected(j)
      <4>1. CASE CancelJob(j)
        BY <1>1, <4>1 DEF CancelJob, StoreInv, StoreTypeOK
      <4>2. CASE ~CanCancel(j) /\ Touch
        BY <4>2 DEF CanCancel, Touch, Prune
      <4>3. QED
        BY <3>1, <4>1, <4>2 DEF CancelRejected
    <3>2. CASE j \in rejected'
      BY <3>2 DEF Held
    <3>3. QED
      BY <2>3, <3>1, <3>2
      DEF Next, Submit, SubmitStep, SchedulerSubmit, CancelRejected, Dispatch,
          Pick, WorkerStep, BeginModel, Spawn, Register, Communicate, Timeout,
          StopProcess, Unregister, Report, Return, Callback, ClientCancel,
          StoreCancel, HandlerStep, CancelFutures, FinishCancel,
          SignalProcess, BeginClose, CloseStep, CloseCancel,
          ShutdownExecutor, Join, ClientRead, vars, serviceVars, httpVars
  <2>4. CASE j \in Waiting
    BY <1>2, <2>4, WaitingMoves DEF OverInv, Held
  <2>5. CASE j \in futures
    <3>1. AllDone(j, pc') => Over(j)'
      <4>1. size'[j] > 0 /\ TasksOf(j)' = TasksOf(j)
        BY <1>1, <2>1, StoreEffects, TasksStay
      <4>2. QED
        BY <1>1, <4>1, AllDoneIsOver DEF AllDone
    <3>2. QED
      BY <1>2, <2>5, <3>1, FuturesMove DEF Held
  <2>6. QED
    BY <2>1, <2>2, <2>3, <2>4, <2>5 DEF Held
<1>5. CASE j \notin present
  <2>1. \E i \in Jobs, n \in Models, sid \in SubmissionIds \cup {None},
          fp \in Fingerprints : Submit(i, n, sid, fp)
    BY <1>5
    DEF Next, SubmitStep, SchedulerSubmit, CancelRejected, Dispatch, Pick,
        WorkerStep, BeginModel, Spawn, Register, Communicate, Timeout,
        StopProcess, Unregister, Report, Return, Callback, ClientCancel,
        StoreCancel, HandlerStep, CancelFutures, FinishCancel, SignalProcess,
        BeginClose, CloseStep, CloseCancel, ShutdownExecutor, Join,
        ClientRead, Elapse, Touch, StartModel, FinishModel, CancelJob, Prune,
        Kept, vars, storeVars
  <2>2. PICK i \in Jobs, n \in Models, sid \in SubmissionIds \cup {None},
             fp \in Fingerprints : Submit(i, n, sid, fp)
    BY <2>1
  <2>3. present' = Kept \cup {i} /\ submitting' = submitting \cup {i}
    BY <2>2 DEF Submit, Reserve
  <2>4. QED
    BY <1>5, <2>3 DEF Kept, Held
<1>6. QED
  BY <1>4, <1>5

LEMMA OverAlways == Spec => [](BaseInv /\ OnceInv /\ OverInv)
<1>1. Init => OverInv
  <2> SUFFICES ASSUME Init  PROVE OverInv
    OBVIOUS
  <2>1. HeldInv /\ ListedInv
    BY DEF Init, StoreInit, HeldInv, ListedInv, Closed
  <2>2. FutureInv /\ RunningInv /\ SettledInv /\ HandledInv
    BY DEF Init, StoreInit, FutureInv, RunningInv, SettledInv, HandledInv,
           RunningSteps, MarkedSteps, OverSteps, DoneSteps, IdleHandler
  <2>3. QED
    BY <2>1, <2>2 DEF OverInv
<1>2. BaseInv /\ OnceInv /\ OverInv /\ [Next]_vars => OverInv'
  BY FutureStep, RunningStep, SettledStep, HandledStep, ListedStep, HeldStep
  DEF OverInv
<1>3. QED
  BY <1>1, <1>2, OnceAlways, PTL DEF Spec

-----------------------------------------------------------------------------
(* Nothing is left running.  A job keeps its slot only while one of its    *)
(* futures owes its callback, and close waits for the threads that do.     *)

(* A process told to terminate still has a thread that will reap it.       *)
SignalledInv ==
  \A t \in Tasks :
    proc[t] = "signalled" =>
      pc[t] \in {"registering", "waiting", "stopping", "cleanup", "reaping"}

(* The last callback of a job gives its slot back.                         *)
OwedInv ==
  \A j \in futures : \E t \in TasksOf(j) : pc[t] \notin {"done", "cancelled"}

(* Once the executor is shut down nothing is queued, and once it is joined *)
(* no thread is busy.                                                      *)
JoinedInv ==
  /\ shutdown \in {"joining", "stopped"} =>
       toCancel = {} /\ \A t \in Tasks : pc[t] # "queued"
  /\ shutdown = "stopped" =>
       \A t \in Tasks : pc[t] \notin RunningSteps \cup {"finished"}

StopInv == SignalledInv /\ OwedInv /\ JoinedInv

LEMMA StopIsClean ==
  ASSUME BaseInv, OnceInv, OverInv, ReachInv, StopInv, shutdown = "stopped"
  PROVE  /\ futures = {}
         /\ \A t \in Tasks : proc[t] \in {"none", "dead"}
         /\ \A j \in present : terminal[j] \/ j \in submitting \cup rejected
<1>1. futures = {}
  <2> SUFFICES ASSUME NEW j \in futures  PROVE FALSE
    OBVIOUS
  <2>1. PICK t \in TasksOf(j) : pc[t] \notin {"done", "cancelled"}
    BY DEF StopInv, OwedInv
  <2>2. t \in Tasks /\ pc[t] \in Steps /\ pc[t] # "none"
    BY <2>1 DEF TasksOf, OnceInv, BaseInv, TypeOK
  <2>3. QED
    BY <2>1, <2>2 DEF StopInv, JoinedInv, Steps, DoneSteps
<1>2. \A t \in Tasks : proc[t] \in {"none", "dead"}
  BY DEF StopInv, SignalledInv, JoinedInv, ReachInv,
            RunningSteps, BaseInv, TypeOK
<1>3. \A j \in present : terminal[j] \/ j \in submitting \cup rejected
  BY <1>1 DEF StopInv, JoinedInv, OverInv, HeldInv, Held, ListedInv, Over, Closed
<1>4. QED
  BY <1>1, <1>2, <1>3

LEMMA SignalledStep ==
  ASSUME BaseInv, OnceInv, ReachInv, SignalledInv, [Next]_vars
  PROVE  SignalledInv'
<1> SUFFICES ASSUME NEW t \in Tasks, proc'[t] = "signalled"
             PROVE  pc'[t] \in {"registering", "waiting", "stopping",
                                "cleanup", "reaping"}
  BY DEF SignalledInv
<1>1. CASE \E u \in Tasks : Pick(u) \/ WorkerStep(u)
  <2>1. PICK u \in Tasks : Pick(u) \/ WorkerStep(u)
    BY <1>1
  <2>2. CASE u = t
    BY <2>1, <2>2
    DEF Pick, WorkerStep, BeginModel, Spawn, Register, Communicate, Timeout,
        StopProcess, Unregister, NeedsReaping, Report, Return, Callback, Goto,
        BaseInv, TypeOK, SignalledInv
  <2>3. CASE u # t
    <3>1. pc'[t] = pc[t] /\ proc'[t] = proc[t]
      BY <2>1, <2>3
      DEF Pick, WorkerStep, BeginModel, Spawn, Register, Communicate, Timeout,
          StopProcess, Unregister, Report, Return, Callback, Goto, BaseInv,
          TypeOK
    <3>2. QED
      BY <3>1 DEF SignalledInv
  <2>4. QED
    BY <2>2, <2>3
<1>2. CASE \E h \in Handlers, u \in Tasks : SignalProcess(h, u)
  BY <1>2 DEF SignalProcess, BaseInv, TypeOK, ReachInv, SignalledInv
<1>3. CASE proc' = proc /\ pc'[t] = pc[t]
  BY <1>3 DEF SignalledInv
<1>4. CASE \E j \in Jobs : Starts(j) /\ proc' = proc
  <2>1. PICK j \in Jobs : Starts(j)
    BY <1>4
  <2>2. pc[t] # "none"
    BY <1>4 DEF SignalledInv
  <2>3. pc'[t] = pc[t]
    BY <2>1, <2>2 DEF Starts, StartJob, OnceInv
  <2>4. QED
    BY <1>3, <1>4, <2>3
<1>5. CASE (\E h \in Handlers : CancelFutures(h)) \/ ShutdownExecutor
  <2>1. proc' = proc
    BY <1>5 DEF CancelFutures, ShutdownExecutor
  <2>2. pc[t] = "queued" \/ pc'[t] = pc[t]
    BY <1>5 DEF CancelFutures, ShutdownExecutor
  <2>3. QED
    BY <1>3, <2>1, <2>2 DEF SignalledInv
<1>6. QED
  BY <1>1, <1>2, <1>3, <1>4, <1>5, DispatchStarts
  DEF Starts, Next, Submit, SubmitStep, SchedulerSubmit, CancelRejected,
      Dispatch, ClientCancel, StoreCancel, HandlerStep, FinishCancel,
      BeginClose, CloseStep, CloseCancel, Join, ClientRead, vars,
      serviceVars, workerVars

LEMMA OwedStep ==
  ASSUME BaseInv, OnceInv, OwedInv, [Next]_vars
  PROVE  OwedInv'
<1> SUFFICES ASSUME NEW j \in Jobs, j \in futures'
             PROVE  \E t \in TasksOf(j)' : pc'[t] \notin {"done", "cancelled"}
  BY BaseStep DEF OwedInv, BaseInv, TypeOK
<1>1. StoreInv /\ [StoreNext]_storeVars
  BY ServiceCallsStore DEF BaseInv
<1>2. size[j] > 0
  BY FuturesMove DEF OnceInv, Starts
<1>3. TasksOf(j)' = TasksOf(j) /\ TasksOf(j) \subseteq Tasks
  BY <1>1, <1>2, TasksStay DEF TasksOf
<1>4. CASE ~AllDone(j, pc')
  BY <1>3, <1>4 DEF AllDone, DoneSteps
<1>5. CASE \A t \in TasksOf(j) : pc'[t] = pc[t]
  <2>1. j \in futures
    <3>1. Starts(j) => <<j, 1>> \in TasksOf(j) /\ pc[<<j, 1>>] = "none"
      BY <1>1, <1>2, FirstTask DEF StoreInv, Starts, OnceInv
    <3>2. Starts(j) => pc'[<<j, 1>>] = "queued"
      BY <1>3, <3>1 DEF Starts, StartJob
    <3>3. QED
      BY <1>5, <3>1, <3>2, FuturesMove
  <2>2. QED
    BY <1>3, <1>5, <2>1 DEF OwedInv
<1>6. CASE Starts(j)
  <2>1. <<j, 1>> \in TasksOf(j)
    BY <1>1, <1>2, FirstTask DEF StoreInv
  <2>2. QED
    BY <1>3, <2>1, <1>6 DEF Starts, StartJob
<1>7. CASE \E i \in Jobs \ {j} : Starts(i)
  <2>1. \A t \in TasksOf(j) : pc'[t] = pc[t]
    BY <1>3, <1>7 DEF Starts, StartJob, TasksOf
  <2>2. QED
    BY <1>5, <2>1
<1>8. CASE \E u \in Tasks : Pick(u) \/ WorkerStep(u)
  <2>1. PICK u \in Tasks : Pick(u) \/ WorkerStep(u)
    BY <1>8
  <2>2. CASE u \in TasksOf(j)
    <3>1. CASE Callback(u)
      <4>1. u[1] = j
        BY <2>2 DEF TasksOf
      <4>2. ~AllDone(j, pc')
        BY <3>1, <4>1 DEF Callback, ForgetFinished
      <4>3. QED
        BY <1>4, <4>2
    <3>2. CASE ~Callback(u)
      <4>1. pc'[u] \notin {"done", "cancelled"}
        BY <2>1, <3>2
        DEF Pick, WorkerStep, BeginModel, Spawn, Register, Communicate,
            Timeout, StopProcess, Unregister, Report, Return, Goto, BaseInv,
            TypeOK
      <4>2. QED
        BY <1>3, <2>2, <4>1
    <3>3. QED
      BY <3>1, <3>2
  <2>3. CASE u \notin TasksOf(j)
    <3>1. \A t \in TasksOf(j) : pc'[t] = pc[t]
      BY <1>3, <2>1, <2>3
      DEF Pick, WorkerStep, BeginModel, Spawn, Register, Communicate, Timeout,
          StopProcess, Unregister, Report, Return, Callback, Goto, BaseInv,
          TypeOK
    <3>2. QED
      BY <1>5, <3>1
  <2>4. QED
    BY <2>2, <2>3
<1>9. CASE \E h \in Handlers : CancelFutures(h)
  <2>1. PICK h \in Handlers : CancelFutures(h)
    BY <1>9
  <2>2. CASE handler[h].job = j /\ \E t \in TasksOf(j) : j \in futures /\ pc[t] = "queued"
    <3>1. ~AllDone(j, pc')
      BY <2>1, <2>2 DEF CancelFutures, ForgetFinished
    <3>2. QED
      BY <1>4, <3>1
  <2>3. CASE ~(handler[h].job = j /\ \E t \in TasksOf(j) : j \in futures /\ pc[t] = "queued")
    <3>1. \A t \in TasksOf(j) : pc'[t] = pc[t]
      BY <1>3, <2>1, <2>3 DEF CancelFutures, TasksOf
    <3>2. QED
      BY <1>5, <3>1
  <2>4. QED
    BY <2>2, <2>3
<1>10. CASE ShutdownExecutor
  <2>1. AllDone(j, pc') => \A t \in TasksOf(j) : pc[t] # "queued"
    BY <1>10 DEF ShutdownExecutor, TasksOf
  <2>2. AllDone(j, pc') => \A t \in TasksOf(j) : pc'[t] = pc[t]
    BY <1>3, <1>10, <2>1 DEF ShutdownExecutor
  <2>3. QED
    BY <1>4, <1>5, <2>2
<1>11. CASE pc' = pc
  BY <1>5, <1>11
<1>12. QED
  BY <1>6, <1>7, <1>8, <1>9, <1>10, <1>11, DispatchStarts
  DEF Starts, Next, Submit, SubmitStep, SchedulerSubmit, CancelRejected,
      Dispatch, ClientCancel, StoreCancel, HandlerStep, FinishCancel,
      SignalProcess, BeginClose, CloseStep, CloseCancel, Join, ClientRead,
      vars, serviceVars, workerVars

LEMMA JoinedStep ==
  ASSUME BaseInv, OnceInv, JoinedInv, [Next]_vars
  PROVE  JoinedInv'
<1>1. CASE ShutdownExecutor
  BY <1>1 DEF ShutdownExecutor, JoinedInv
<1>2. CASE Join
  BY <1>2 DEF Join, Busy, workerVars, JoinedInv
<1>3. CASE shutdown \notin {"joining", "stopped"} /\ shutdown' \in {shutdown, "closing"}
  BY <1>3 DEF JoinedInv
<1>4. CASE UNCHANGED <<pc, shutdown, toCancel>>
  BY <1>4 DEF JoinedInv
<1>5. CASE /\ UNCHANGED <<shutdown, toCancel>>
           /\ \E u \in Tasks : Pick(u) \/ WorkerStep(u)
  <2>1. PICK u \in Tasks : Pick(u) \/ WorkerStep(u)
    BY <1>5
  <2>2. /\ pc[u] \in {"queued", "finished"} \cup RunningSteps
        /\ pc'[u] # "queued"
        /\ \A t \in Tasks : t # u => pc'[t] = pc[t]
    BY <2>1
    DEF Pick, WorkerStep, BeginModel, Spawn, Register, Communicate, Timeout,
        StopProcess, Unregister, Report, Return, Callback, Goto, BaseInv,
        TypeOK, RunningSteps
  <2>3. QED
    BY <1>5, <2>2 DEF JoinedInv
<1>6. CASE UNCHANGED <<shutdown, toCancel>> /\ \E h \in Handlers : CancelFutures(h)
  <2>1. \A t \in Tasks : pc'[t] = pc[t] \/ pc'[t] = "cancelled"
    BY <1>6 DEF CancelFutures
  <2>2. QED
    BY <1>6, <2>1 DEF JoinedInv, RunningSteps
<1>7. CASE shutdown' = shutdown /\ \E j \in Jobs : Starts(j)
  BY <1>3, <1>7 DEF Starts, Closed
<1>8. QED
  BY <1>1, <1>2, <1>3, <1>4, <1>5, <1>6, <1>7, DispatchStarts
  DEF Starts, Next, Submit, SubmitStep, SchedulerSubmit, CancelRejected,
      Dispatch, ClientCancel, StoreCancel, HandlerStep, FinishCancel,
      SignalProcess, CancelFutures, BeginClose, CloseStep, CloseCancel,
      ClientRead, Pick, WorkerStep, BeginModel, Spawn, Register, Communicate,
      Timeout, StopProcess, Unregister, Report, Return, Callback, vars,
      serviceVars, workerVars, closeVars

(* After close has returned no process is left, no future owes a callback, *)
(* and every job the store retains is settled, except those the closed     *)
(* scheduler is about to refuse.                                           *)
THEOREM CloseLeavesNothing == Spec => []StoppedClean
<1>1. Init => StopInv
  BY DEF Init, StopInv, SignalledInv, OwedInv, JoinedInv
<1>2. BaseInv /\ OnceInv /\ ReachInv /\ StopInv /\ [Next]_vars => StopInv'
  BY SignalledStep, OwedStep, JoinedStep DEF StopInv
<1>3. BaseInv /\ OnceInv /\ OverInv /\ ReachInv /\ StopInv => StoppedClean
  BY StopIsClean DEF StoppedClean
<1>4. QED
  BY <1>1, <1>2, <1>3, ReachAlways, OverAlways, PTL DEF Spec
=============================================================================
