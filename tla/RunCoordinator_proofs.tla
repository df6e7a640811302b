------------------------ MODULE RunCoordinator_proofs ------------------------
(***************************************************************************)
(* Proofs about the run coordinator over the workspace store, for any      *)
(* number of workspaces, runs and scenarios, any sizes and limits, and any *)
(* behaviour of the simulation service that keeps its contract.            *)
(***************************************************************************)
EXTENDS RunCoordinator, WorkspaceStore_proofs, SequenceTheorems

-----------------------------------------------------------------------------
(* Types of the parts of the state                                         *)

StatusRecord == [state : States, cancel : BOOLEAN, job : BOOLEAN,
                 paused : BOOLEAN, error : Errors,
                 cursor : 0..Cardinality(Configs)]

ExecRecord == [at : Places, seen : States, failures : 0..MaxFailures]

BatchRecord == [todo : Seq(Outcome), then : {"none", "cached", "page", "failed"},
                by : Executions \cup {Null}, next : 0..Cardinality(Configs)]

Entry == [model : Nat, verdict : Verdicts]

PartsOK ==
  /\ status \in [Runs -> StatusRecord]
  /\ tasks \in [Runs -> Slots \cup {Null}]
  /\ exec \in [Executions -> ExecRecord]
  /\ batch \in BatchRecord
  /\ closing \in {"open", "closing", "closed"}

(* The invariant in parts, each about one run or one execution.            *)

(* One execution works on a run, and only while the run is running; an     *)
(* execution that is known is not idle.                                    *)
WorksAlone(r) ==
  /\ \A s \in Slots : exec[<<r, s>>].at \in Live => tasks[r] = s /\ r \in ActiveRuns
  /\ tasks[r] # Null => exec[<<r, tasks[r]>>].at # "idle"

Served(r) ==
  r \in ActiveRuns =>
    IF status[r].paused THEN tasks[r] = Null
    ELSE closing = "open" => tasks[r] # Null /\ exec[<<r, tasks[r]>>].at \in Live

(* A number that is still to be registered has left no trace anywhere.     *)
Untouched(r) ==
  /\ r \notin DOMAIN runs => status[r] = NewStatus
  /\ nextRun <= r => /\ tasks[r] = Null
                     /\ \A s \in Slots : exec[<<r, s>>] = Idling

BatchOwned ==
  /\ \A c \in Executions : exec[c].at = "batch" <=> batch.by = c
  /\ batch.by = Null => batch = NoBatch

Control ==
  /\ PartsOK
  /\ \A r \in Runs : WorksAlone(r) /\ Served(r) /\ Untouched(r)
  /\ BatchOwned

(* What the service did for a run's job.                                   *)
ServiceOf(r) ==
  /\ \A i \in DOMAIN log[r] : log[r][i].model \in 1..accepted[r]
  /\ \A i, j \in DOMAIN log[r] : log[r][i].model = log[r][j].model => i = j
  /\ r \in announced <=> accepted[r] > 0 /\ AnsweredModels(r) = 1..accepted[r]
  /\ r \in DOMAIN runs /\ accepted[r] > 0 => accepted[r] = Cardinality(runs[r].missing)
  /\ nextRun <= r => accepted[r] = 0

ServiceKept ==
  /\ accepted \in [Runs -> 0..Cardinality(Configs)]
  /\ log \in [Runs -> Seq(Entry)]
  /\ announced \subseteq Runs
  /\ \A r \in Runs : ServiceOf(r)

(* Runs ask for scenarios of their task set, at least for one.             *)
Asked(r) ==
  /\ runs[r].keys \in Selections(runs[r].taskSet)
  /\ runs[r].missing \subseteq runs[r].keys

TodoKeys == {batch.todo[i].key : i \in DOMAIN batch.todo}

(* A batch answers scenarios of its run: the cached ones, those of a page  *)
(* of the log, or, once the run has failed, all that are open.             *)
BatchFits ==
  batch # NoBatch =>
    LET r == batch.by[1]
    IN /\ TodoKeys \subseteq runs[r].keys
       /\ batch.then # "none"
       /\ batch.then = "cached" =>
            /\ Pending(r) \ runs[r].missing \subseteq TodoKeys
            /\ TodoKeys \cap runs[r].missing = {}
            /\ \A i \in DOMAIN batch.todo : batch.todo[i].verdict = "succeeded"
       /\ batch.then = "page" => TodoKeys \subseteq runs[r].missing
       /\ batch.then = "failed" =>
            /\ Pending(r) \subseteq TodoKeys
            /\ \A i \in DOMAIN batch.todo : batch.todo[i].verdict = "failed"

Data == ServiceKept /\ (\A r \in DOMAIN runs : Asked(r)) /\ BatchFits

-----------------------------------------------------------------------------
(* The truth of what a run says                                            *)

Failing(r) == batch.then = "failed" /\ batch.by[1] = r

(* The executions that have collected the cached results of their run.     *)
Collected(c) ==
  \/ exec[c].at \in {"ready", "submit", "cancel", "status", "page", "sleep"}
  \/ exec[c].at = "batch" /\ batch.then = "page"

(* Of the scenarios the job has, those answered are in the answers L, as   *)
(* the service gave them.                                                  *)
Heard(r, L) ==
  \A k \in runs[r].missing :
    runs[r].verdict[k] # Unanswered =>
      \E i \in DOMAIN L : KeyOf(r, L[i].model) = k /\ L[i].verdict = runs[r].verdict[k]

(* The first n of the answers L have been handled.                         *)
CaughtUp(r, n, L) ==
  n <= Len(L) /\ \A i \in 1..n : runs[r].verdict[KeyOf(r, L[i].model)] # Unanswered

Agrees(r) ==
  /\ \A k \in runs[r].keys \ runs[r].missing :
       runs[r].verdict[k] \in {Unanswered, "succeeded"}
  /\ ~status[r].job =>
       /\ status[r].cursor = 0
       /\ \A k \in runs[r].missing : runs[r].verdict[k] = Unanswered
  /\ Exists(r) => Heard(r, log[r]) /\ CaughtUp(r, status[r].cursor, log[r])

(* Verdicts of a run, the ones under way included.                         *)
Settled(r) == {runs[r].verdict[k] : k \in runs[r].keys} \ {Unanswered}
UnderWay == {batch.todo[i].verdict : i \in DOMAIN batch.todo}

Justified(state, verdicts) ==
  /\ state = "completed" => verdicts \subseteq {"succeeded"}
  /\ state = "completed_with_errors" => "failed" \in verdicts /\ "cancelled" \notin verdicts
  /\ state = "cancelled" => "cancelled" \in verdicts

(* The page under way is one of the answers L: what it does not answer has *)
(* been answered.                                                          *)
PageOutOf(r, L) ==
  /\ batch.next <= Len(L)
  /\ \A i \in DOMAIN batch.todo : \E j \in 1..batch.next :
       /\ batch.todo[i].key = KeyOf(r, L[j].model)
       /\ batch.todo[i].verdict = L[j].verdict
  /\ \A j \in 1..batch.next :
       LET k == KeyOf(r, L[j].model)
       IN runs[r].verdict[k] # Unanswered \/ k \in TodoKeys

(* A page does not contradict itself or what has been answered, and after  *)
(* a terminal status it is the last one.  It needs the service no more.    *)
PageAgrees(c) ==
  LET r == c[1]
  IN /\ \A i, j \in DOMAIN batch.todo :
          batch.todo[i].key = batch.todo[j].key => batch.todo[i].verdict = batch.todo[j].verdict
     /\ \A i \in DOMAIN batch.todo :
          runs[r].verdict[batch.todo[i].key] \in {Unanswered, batch.todo[i].verdict}
     /\ Exists(r) => PageOutOf(r, log[r])
     /\ exec[c].seen \in Terminal =>
          /\ Pending(r) \subseteq TodoKeys
          /\ Justified(exec[c].seen, Settled(r) \cup UnderWay)
          /\ exec[c].seen # "failed"

(* What an execution may rely on where it stands.                          *)
Relies(c) ==
  LET r == c[1]
      at == exec[c].at
  IN /\ Collected(c) => Pending(r) \subseteq runs[r].missing
     /\ at \in {"ready", "submit"} => ~status[r].job
     /\ at \in {"cancel", "status", "page"} => status[r].job
     /\ at = "batch" /\ batch.then = "page" => status[r].job /\ PageAgrees(c)
     /\ at = "abort" => status[r].error # "none"
     /\ at = "batch" /\ batch.then = "failed" => status[r].error # "none"
     /\ at = "page" /\ exec[c].seen \in Terminal /\ Exists(r) =>
          r \in announced /\ exec[c].seen = UpstreamStatus(r)

SaysTruth(r) ==
  LET verdicts == {runs[r].verdict[k] : k \in runs[r].keys}
      state == status[r].state
  IN /\ runs[r].over <=> state \in Terminal
     /\ runs[r].over => Unanswered \notin verdicts /\ Justified(state, verdicts)
     /\ state = "failed" => status[r].error # "none"

Sound(r) ==
  /\ ~Failing(r) => Agrees(r)
  /\ \A s \in Slots : Relies(<<r, s>>)

Truth ==
  /\ \A r \in ActiveRuns : Sound(r)
  /\ \A r \in DOMAIN runs : SaysTruth(r)
  /\ ReadsConsistent

-----------------------------------------------------------------------------
(* Sequences of outcomes                                                   *)

LEMMA SequenceOfSet ==
  ASSUME NEW S, IsFiniteSet(S)
  PROVE  /\ Cardinality(S) \in Nat
         /\ SetToSeq(S) \in [1..Cardinality(S) -> S]
         /\ \A i, j \in 1..Cardinality(S) : SetToSeq(S)[i] = SetToSeq(S)[j] => i = j
         /\ \A x \in S : \E i \in 1..Cardinality(S) : SetToSeq(S)[i] = x
<1> DEFINE n == Cardinality(S)
           f == SetToSeq(S)
<1>1. n \in Nat /\ ExistsBijection(1..n, S)
  BY FS_CardinalityType
<1>2. PICK g : g \in Bijection(1..n, S)
  BY <1>1 DEF ExistsBijection
<1>3. g \in [1..n -> S] /\ IsInjective(g)
  BY <1>2 DEF Bijection, Injection
<1>4. f \in [1..n -> S] /\ IsInjective(f)
  BY <1>3 DEF SetToSeq
<1>5. f \in Injection(1..n, S)
  BY <1>4 DEF Injection
<1>6. Cardinality(1..n) = n
  BY <1>1, FS_Interval
<1>7. f \in Surjection(1..n, S)
  BY <1>5, <1>6, FS_Injection
<1>8. \A x \in S : \E i \in 1..n : f[i] = x
  BY <1>7 DEF Surjection
<1>9. \A i, j \in 1..n : f[i] = f[j] => i = j
  BY <1>4 DEF IsInjective
<1>10. QED
  BY <1>1, <1>4, <1>8, <1>9

LEMMA AllAsAnswers ==
  ASSUME NEW keys \in SUBSET Keys, IsFiniteSet(keys), NEW v \in Verdicts
  PROVE  /\ AllAs(keys, v) \in Seq(Outcome)
         /\ {AllAs(keys, v)[i].key : i \in DOMAIN AllAs(keys, v)} = keys
         /\ \A i \in DOMAIN AllAs(keys, v) : AllAs(keys, v)[i].verdict = v
<1> DEFINE n == Cardinality(keys)
           all == AllAs(keys, v)
<1>1. /\ n \in Nat
      /\ SetToSeq(keys) \in [1..n -> keys]
      /\ \A x \in keys : \E i \in 1..n : SetToSeq(keys)[i] = x
  BY SequenceOfSet
<1>2. DOMAIN all = 1..n
      /\ \A i \in 1..n : all[i] = [key |-> SetToSeq(keys)[i], verdict |-> v]
  BY DEF AllAs
<1>3. \A i \in 1..n : all[i] \in Outcome
  BY <1>1, <1>2 DEF Outcome
<1> HIDE DEF all
<1>4. all \in [1..n -> Outcome]
  <2>1. all = [i \in 1..n |-> all[i]]
    BY <1>2 DEF all, AllAs
  <2>2. QED
    BY <1>3, <2>1
<1>5. all \in Seq(Outcome)
  BY <1>1, <1>4
<1>6. {all[i].key : i \in DOMAIN all} = keys
  BY <1>1, <1>2
<1>7. QED
  BY <1>2, <1>5, <1>6 DEF all

(* A run asks for finitely many scenarios.                                 *)
LEMMA AskedFinite ==
  ASSUME NEW r \in DOMAIN runs, WorkspaceTypeOK, Asked(r)
  PROVE  /\ runs[r] \in RunRecord
         /\ runs[r].keys \subseteq Keys /\ runs[r].keys # {}
         /\ IsFiniteSet(runs[r].keys) /\ IsFiniteSet(runs[r].missing)
         /\ Pending(r) \subseteq runs[r].keys
         /\ IsFiniteSet(Pending(r)) /\ IsFiniteSet(Pending(r) \ runs[r].missing)
<1>1. runs[r] \in RunRecord
  BY DEF WorkspaceTypeOK
<1>2. runs[r].taskSet \in TaskSets
  BY <1>1 DEF RunRecord
<1>3. runs[r].keys \subseteq Keys /\ IsFiniteSet(runs[r].keys)
  BY <1>2, SelectionsFinite DEF Asked
<1>4. runs[r].keys # {}
  <2>1. runs[r].keys \notin {{}}
    BY DEF Asked, Selections
  <2>2. QED
    BY <2>1
<1>5. Pending(r) \subseteq runs[r].keys
  BY DEF Pending
<1>6. /\ IsFiniteSet(runs[r].missing) /\ IsFiniteSet(Pending(r))
      /\ IsFiniteSet(Pending(r) \ runs[r].missing)
  BY <1>3, <1>5, FS_Subset DEF Asked
<1>7. QED
  BY <1>1, <1>3, <1>4, <1>5, <1>6

(* The models of a request are the missing scenarios, each once.           *)
LEMMA ModelsAreMissing ==
  ASSUME NEW r \in DOMAIN runs, WorkspaceTypeOK, Asked(r)
  PROVE  LET n == Cardinality(runs[r].missing)
         IN /\ n \in Nat
            /\ \A i \in 1..n : KeyOf(r, i) \in runs[r].missing
            /\ \A i, j \in 1..n : KeyOf(r, i) = KeyOf(r, j) => i = j
            /\ \A k \in runs[r].missing : \E i \in 1..n : KeyOf(r, i) = k
<1>1. IsFiniteSet(runs[r].missing)
  BY AskedFinite
<1>2. QED
  BY <1>1, SequenceOfSet DEF KeyOf

-----------------------------------------------------------------------------
(* What the steps of the store do to the runs                              *)

SameRun(old, new) ==
  /\ new.keys = old.keys /\ new.missing = old.missing /\ new.taskSet = old.taskSet
  /\ new.verdict = old.verdict /\ new.over = old.over

(* Runs may go unless they are running; the others stay.                   *)
RunsStay ==
  /\ \A r \in DOMAIN runs' : r \in DOMAIN runs /\ SameRun(runs[r], runs'[r])
  /\ ActiveRuns \subseteq DOMAIN runs'
  /\ nextRun' = nextRun

(* One run is replaced by a record of the same request.                    *)
RunBecomes(r, new) ==
  /\ runs' = [runs EXCEPT ![r] = new]
  /\ new.keys = runs[r].keys /\ new.missing = runs[r].missing
  /\ new.taskSet = runs[r].taskSet
  /\ nextRun' = nextRun

LEMMA UnchangedStay ==
  ASSUME UNCHANGED <<runs, nextRun>>
  PROVE  RunsStay
  BY DEF RunsStay, SameRun, ActiveRuns

LEMMA MarksStay ==
  ASSUME WorkspaceTypeOK, NEW r \in DOMAIN runs, Pin(r) \/ Unpin(r) \/ Supersede(r)
  PROVE  RunsStay
<1>1. runs[r] \in RunRecord
  BY DEF WorkspaceTypeOK
<1>2. PICK new : runs' = [runs EXCEPT ![r] = new] /\ SameRun(runs[r], new)
  <2>1. CASE Pin(r)
    <3> WITNESS [runs[r] EXCEPT !.pinned = TRUE]
    <3>1. QED
      BY <1>1, <2>1 DEF Pin, SameRun, RunRecord
  <2>2. CASE Unpin(r)
    <3> WITNESS [runs[r] EXCEPT !.pinned = FALSE]
    <3>1. QED
      BY <1>1, <2>2 DEF Unpin, SameRun, RunRecord
  <2>3. CASE Supersede(r)
    <3> WITNESS [runs[r] EXCEPT !.superseded = TRUE]
    <3>1. QED
      BY <1>1, <2>3 DEF Supersede, SameRun, RunRecord
  <2>4. QED
    BY <2>1, <2>2, <2>3
<1>3. nextRun' = nextRun
  BY DEF Pin, Unpin, Supersede
<1>4. QED
  BY <1>2, <1>3 DEF RunsStay, SameRun, ActiveRuns

LEMMA RemovalsStay ==
  ASSUME NEW gone, RemoveRuns(gone), gone \cap ActiveRuns = {}, nextRun' = nextRun
  PROVE  RunsStay
  BY DEF RemoveRuns, Without, RunsStay, SameRun, ActiveRuns

StoreOperations ==
  \/ \E w \in Workspaces : Create(w)
  \/ \E w \in DOMAIN workspaces, ts \in TaskSets :
       SaveEditor(w, ts) \/ DeleteTaskSet(w, ts)
  \/ \E r \in DOMAIN runs : Pin(r) \/ Unpin(r) \/ Baseline(r)
  \/ Deletion

LEMMA StoreOperationsStay ==
  ASSUME WorkspaceTypeOK, StoreOperations
  PROVE  RunsStay
<1>1. ASSUME NEW w, Create(w) PROVE RunsStay
  BY <1>1, UnchangedStay DEF Create
<1>2. ASSUME NEW w, NEW ts, SaveEditor(w, ts) \/ DeleteTaskSet(w, ts) PROVE RunsStay
  BY <1>2, UnchangedStay DEF SaveEditor, DeleteTaskSet
<1>3. ASSUME NEW r \in DOMAIN runs, Pin(r) \/ Unpin(r) PROVE RunsStay
  BY <1>3, MarksStay
<1>4. ASSUME NEW r \in DOMAIN runs, Baseline(r) PROVE RunsStay
  BY <1>4, UnchangedStay DEF Baseline
<1>5. ASSUME NEW w \in DOMAIN workspaces, DeleteWorkspace(w) PROVE RunsStay
  <2>1. RemoveRuns(Owned(w)) /\ Owned(w) \cap ActiveRuns = {} /\ nextRun' = nextRun
    BY <1>5 DEF DeleteWorkspace, Idle
  <2>2. QED
    BY <2>1, RemovalsStay
<1>6. ASSUME NEW r \in DOMAIN runs, DeleteComparison(r) PROVE RunsStay
  <2>1. RemoveRuns({r}) /\ {r} \cap ActiveRuns = {} /\ nextRun' = nextRun
    BY <1>6 DEF DeleteComparison, ActiveRuns
  <2>2. QED
    BY <2>1, RemovalsStay
<1>7. QED
  BY <1>1, <1>2, <1>3, <1>4, <1>5, <1>6 DEF StoreOperations, Deletion

(* A registration is refused, or adds the run that is next.                *)
LEMMA RegisterStays ==
  ASSUME WorkspaceTypeOK, NEW w, NEW ts, NEW ks, NEW intent,
         Register(w, ts, ks, intent)
  PROVE  \/ RunsStay
         \/ /\ nextRun' = nextRun + 1
            /\ nextRun \in DOMAIN runs'
            /\ runs'[nextRun] = NewRun(w, ts, ks, intent)
            /\ \A r \in DOMAIN runs' \ {nextRun} : r \in DOMAIN runs /\ runs'[r] = runs[r]
            /\ ActiveRuns \subseteq DOMAIN runs'
<1>1. PICK gone \in SUBSET DOMAIN runs :
        /\ \A r \in gone : r \notin ActiveRuns
        /\ RefusedWithout(gone) \/ AdmittedWithout(gone, w, ts, ks, intent)
  BY RegisterPrunes
<1>2. CASE RefusedWithout(gone)
  BY <1>1, <1>2 DEF RefusedWithout, Without, RunsStay, SameRun, ActiveRuns
<1>3. CASE AdmittedWithout(gone, w, ts, ks, intent)
  BY <1>1, <1>3 DEF AdmittedWithout, ActiveRuns
<1>4. QED
  BY <1>1, <1>2, <1>3

LEMMA AnswerBecomes ==
  ASSUME WorkspaceTypeOK, NEW r \in DOMAIN runs, NEW k \in runs[r].keys,
         NEW v \in Verdicts, Answer(r, k, v)
  PROVE  /\ runs[r].verdict[k] = Unanswered
         /\ \E new : /\ RunBecomes(r, new)
                     /\ new.over = runs[r].over
                     /\ new.verdict = [runs[r].verdict EXCEPT ![k] = v]
<1>1. runs[r] \in RunRecord
  BY DEF WorkspaceTypeOK
<1> DEFINE answered == [runs[r] EXCEPT !.verdict = [@ EXCEPT ![k] = v]]
           kept == [runs[r] EXCEPT !.verdict = [@ EXCEPT ![k] = v],
                                   !.retained = @ \cup {k},
                                   !.reservation = @ - ChargedBytes(k)]
<1>2. /\ answered.keys = runs[r].keys /\ answered.missing = runs[r].missing
      /\ answered.taskSet = runs[r].taskSet /\ answered.over = runs[r].over
      /\ answered.verdict = [runs[r].verdict EXCEPT ![k] = v]
  BY <1>1 DEF RunRecord
<1>3. /\ kept.keys = runs[r].keys /\ kept.missing = runs[r].missing
      /\ kept.taskSet = runs[r].taskSet /\ kept.over = runs[r].over
      /\ kept.verdict = [runs[r].verdict EXCEPT ![k] = v]
  BY <1>1 DEF RunRecord
<1>4. runs' = [runs EXCEPT ![r] = answered] \/ runs' = [runs EXCEPT ![r] = kept]
  <2>1. CASE v = "succeeded"
    BY <2>1 DEF Answer
  <2>2. CASE v # "succeeded"
    BY <2>2 DEF Answer
  <2>3. QED
    BY <2>1, <2>2
<1>5. nextRun' = nextRun /\ runs[r].verdict[k] = Unanswered
  BY DEF Answer
<1> HIDE DEF answered, kept
<1>6. QED
  BY <1>2, <1>3, <1>4, <1>5 DEF RunBecomes

LEMMA FinishBecomes ==
  ASSUME WorkspaceTypeOK, NEW r \in DOMAIN runs, Finish(r)
  PROVE  \E new : /\ RunBecomes(r, new)
                  /\ new.over = TRUE
                  /\ new.verdict = runs[r].verdict
<1>1. runs[r] \in RunRecord
  BY DEF WorkspaceTypeOK
<1> DEFINE new == [runs[r] EXCEPT !.over = TRUE, !.reservation = 0]
<1>2. /\ new.keys = runs[r].keys /\ new.missing = runs[r].missing
      /\ new.taskSet = runs[r].taskSet /\ new.over = TRUE
      /\ new.verdict = runs[r].verdict
  BY <1>1 DEF RunRecord
<1>3. runs' = [runs EXCEPT ![r] = new] /\ nextRun' = nextRun
  BY DEF Finish
<1>4. QED
  BY <1>2, <1>3 DEF RunBecomes

-----------------------------------------------------------------------------
(* Every step is a step of the store                                       *)

Coordinated == Consistent /\ Control /\ Data

(* An execution that works: what is known of its run.                      *)
LEMMA WorkingRun ==
  ASSUME Coordinated, NEW c \in Executions, exec[c].at \in Live
  PROVE  /\ c[1] \in Runs /\ c[2] \in Slots /\ c = <<c[1], c[2]>>
         /\ c[1] \in ActiveRuns /\ c[1] \in DOMAIN runs /\ Active(c[1])
         /\ tasks[c[1]] = c[2]
         /\ Asked(c[1]) /\ WorkspaceTypeOK
<1>1. c[1] \in Runs /\ c[2] \in Slots /\ c = <<c[1], c[2]>>
  BY DEF Executions
<1>2. tasks[c[1]] = c[2] /\ c[1] \in ActiveRuns
  BY <1>1 DEF Coordinated, Control, WorksAlone
<1>3. QED
  BY <1>1, <1>2 DEF ActiveRuns, Coordinated, Data, Consistent

LEMMA BatchWorks ==
  ASSUME Coordinated, NEW c \in Executions, batch.by = c
  PROVE  exec[c].at = "batch" /\ exec[c].at \in Live /\ batch # NoBatch
<1>1. exec[c].at = "batch"
  BY DEF Coordinated, Control, BatchOwned
<1>2. c # Null
  BY CoordinatorAssumption DEF Executions, Slots
<1>3. QED
  BY <1>1, <1>2 DEF Live, Places, NoBatch

LEMMA FirstOutcome ==
  ASSUME Coordinated, NEW c \in Executions, batch.by = c, batch.todo # <<>>
  PROVE  LET o == Head(batch.todo)
         IN /\ o = batch.todo[1] /\ 1 \in DOMAIN batch.todo
            /\ o \in Outcome
            /\ o.key \in runs[c[1]].keys /\ o.key \in TodoKeys
            /\ o.verdict \in Verdicts
<1>1. batch.todo \in Seq(Outcome)
  BY DEF Coordinated, Control, PartsOK, BatchRecord
<1>2. 1 \in DOMAIN batch.todo /\ Head(batch.todo) = batch.todo[1]
  BY <1>1
<1>3. Head(batch.todo) \in Outcome
  BY <1>1, <1>2
<1>4. Head(batch.todo).key \in TodoKeys
  BY <1>2 DEF TodoKeys
<1>5. TodoKeys \subseteq runs[c[1]].keys
  BY BatchWorks DEF Coordinated, Data, BatchFits
<1>6. QED
  BY <1>2, <1>3, <1>4, <1>5 DEF Outcome

LEMMA NothingToDo ==
  ASSUME batch.todo = <<>>
  PROVE  TodoKeys = {}
  BY DEF TodoKeys

(* A batch ends with the run over only if every scenario is answered.      *)
LEMMA BatchDoneFinishes ==
  ASSUME Coordinated, NEW c \in Executions, BatchDone(c)
  PROVE  \/ UNCHANGED workspaceVars
         \/ Pending(c[1]) = {} /\ Finish(c[1])
<1>1. batch.by = c /\ TodoKeys = {} /\ batch # NoBatch
  BY BatchWorks, NothingToDo DEF BatchDone
<1>2. CASE batch.then = "cached" /\ CachedDone(c)
  <2>1. Pending(c[1]) \ runs[c[1]].missing \subseteq {}
    BY <1>1, <1>2 DEF Coordinated, Data, BatchFits
  <2>2. QED
    BY <1>2, <2>1 DEF CachedDone, Settle, Raise, Onward, workspaceVars
<1>3. CASE batch.then = "page" /\ PageDone(c)
  BY <1>3 DEF PageDone, Settle, Raise, workspaceVars
<1>4. CASE batch.then = "failed" /\ Settle(c, [status[c[1]] EXCEPT !.state = "failed"])
  <2>1. Pending(c[1]) \subseteq {}
    BY <1>1, <1>4 DEF Coordinated, Data, BatchFits
  <2>2. QED
    BY <1>4, <2>1 DEF Settle
<1>5. QED
  BY <1>2, <1>3, <1>4 DEF BatchDone

LEMMA ExecutionIsStoreStep ==
  ASSUME Coordinated, NEW c \in Executions, Execution(c)
  PROVE  [WorkspaceNext]_workspaceVars
<1>1. CASE Begin(c) \/ Abort(c) \/ Wake(c)
  BY <1>1 DEF Begin, Abort, Wake, Onward, workspaceVars
<1>2. CASE Call(c)
  <2>1. CASE Answered(c)
    BY <2>1 DEF Answered, Onward, workspaceVars
  <2>2. CASE Unavailable(c)
    BY <2>2 DEF Unavailable, workspaceVars
  <2>3. CASE Refused(c)
    BY <2>3 DEF Refused, Raise, workspaceVars
  <2>4. QED
    BY <1>2, <2>1, <2>2, <2>3 DEF Call
<1>3. CASE CompleteOne(c)
  <2> DEFINE o == Head(batch.todo)
  <2>1. batch.by = c /\ batch.todo # <<>>
    BY <1>3 DEF CompleteOne
  <2>2. c[1] \in ActiveRuns /\ o.key \in runs[c[1]].keys /\ o.verdict \in Verdicts
    BY <2>1, BatchWorks, WorkingRun, FirstOutcome
  <2>3. UNCHANGED workspaceVars \/ Answer(c[1], o.key, o.verdict)
    BY <1>3 DEF CompleteOne, Raise, workspaceVars
  <2> HIDE DEF o
  <2>4. QED
    BY <2>2, <2>3 DEF WorkspaceNext
<1>4. CASE BatchDone(c)
  <2>1. batch.by = c
    BY <1>4 DEF BatchDone
  <2>2. c[1] \in ActiveRuns
    BY <2>1, BatchWorks, WorkingRun
  <2>3. CASE UNCHANGED workspaceVars
    BY <2>3
  <2>4. CASE Pending(c[1]) = {} /\ Finish(c[1])
    <3>1. \A k \in runs[c[1]].keys : runs[c[1]].verdict[k] # Unanswered
      BY <2>4 DEF Pending
    <3>2. QED
      BY <2>2, <2>4, <3>1 DEF WorkspaceNext
  <2>5. QED
    BY <1>4, <2>3, <2>4, BatchDoneFinishes
<1>5. QED
  BY <1>1, <1>2, <1>3, <1>4 DEF Execution

LEMMA AdmitIsStoreStep ==
  ASSUME Coordinated, NEW w \in DOMAIN workspaces,
         NEW ks \in Selections(workspaces[w].current)
  PROVE  /\ workspaces[w].current # Null /\ StartManual(w, ks) => Registration
         /\ \A source \in Owned(w) :
              Changes(w, source, ks) /\ Admit(w, ks, "interactive") => Registration
<1>1. workspaces[w].current \in TaskSets \cup {Null}
  BY DEF Coordinated, Consistent, WorkspaceTypeOK, Workspace
<1>2. \A r \in DOMAIN runs : runs[r].taskSet \in TaskSets
  BY DEF Coordinated, Consistent, WorkspaceTypeOK, RunRecord
<1>3. ASSUME NEW intent \in {"manual", "interactive"}, Admit(w, ks, intent),
             workspaces[w].current \in TaskSets,
             intent = "interactive" => \E source \in Owned(w) : Changes(w, source, ks)
      PROVE  Registration
  <2>1. MayRun(w, workspaces[w].current, intent)
    BY <1>3 DEF MayRun, Changes
  <2>2. nextRun \in Runs /\ Register(w, workspaces[w].current, ks, intent)
    BY <1>3 DEF Admit
  <2>3. QED
    BY <1>3, <2>1, <2>2 DEF Registration
<1>4. ASSUME NEW source \in Owned(w), Changes(w, source, ks)
      PROVE  workspaces[w].current \in TaskSets
  BY <1>2, <1>4 DEF Changes, Owned
<1>5. QED
  BY <1>1, <1>3, <1>4 DEF StartManual

LEMMA RequestIsStoreStep ==
  ASSUME Coordinated, Requests
  PROVE  [WorkspaceNext]_workspaceVars
<1>1. ASSUME NEW w \in DOMAIN workspaces, NEW ks \in Selections(workspaces[w].current),
             workspaces[w].current # Null, StartManual(w, ks)
      PROVE  WorkspaceNext
  BY <1>1, AdmitIsStoreStep DEF WorkspaceNext
<1>2. ASSUME NEW w \in DOMAIN workspaces, NEW ks \in Selections(workspaces[w].current),
             NEW source \in Owned(w), StartInteractive(w, source, ks)
      PROVE  WorkspaceNext
  <2>1. CASE Admit(w, ks, "interactive")
    BY <1>2, <2>1, AdmitIsStoreStep DEF StartInteractive, WorkspaceNext
  <2>2. CASE \E r \in Owned(w) \cap ActiveRuns : Supersede(r)
    BY <2>2 DEF WorkspaceNext
  <2>3. QED
    BY <1>2, <2>1, <2>2 DEF StartInteractive
<1>3. ASSUME NEW r \in DOMAIN runs, CancelRun(r) \/ Resume(r)
      PROVE  UNCHANGED workspaceVars
  BY <1>3 DEF CancelRun, Resume, workspaceVars
<1>4. CASE StoreRoutes
  BY <1>4 DEF StoreRoutes, WorkspaceNext
<1>5. QED
  BY <1>1, <1>2, <1>3, <1>4 DEF Requests

LEMMA StoreStep ==
  ASSUME Coordinated, [Next]_vars
  PROVE  [WorkspaceNext]_workspaceVars
<1>1. ASSUME NEW c \in Executions, Callback(c) PROVE UNCHANGED workspaceVars
  BY <1>1 DEF Callback, workspaceVars
<1>2. CASE BeginClose \/ FinishClose \/ \E r \in ActiveRuns : CloseCancel(r)
  BY <1>2 DEF BeginClose, FinishClose, CloseCancel, workspaceVars
<1>3. CASE SimulationService
  BY <1>3
  DEF SimulationService, ServiceAnswers, ServiceForgets, ServiceRestarts, workspaceVars
<1>4. CASE UNCHANGED vars
  BY <1>4 DEF vars
<1>5. QED
  BY <1>1, <1>2, <1>3, <1>4, RequestIsStoreStep, ExecutionIsStoreStep DEF Next

-----------------------------------------------------------------------------
(* The executions keep the control                                         *)

Acting(c) ==
  /\ c \in Executions
  /\ exec[c].at \in Live
  /\ batch = NoBatch \/ batch.by = c

(* The execution goes on, with a batch of its own or none.                 *)
Moved(c) ==
  \E e \in ExecRecord, st \in StatusRecord :
    /\ exec' = [exec EXCEPT ![c] = e]
    /\ status' = [status EXCEPT ![c[1]] = st]
    /\ UNCHANGED <<tasks, closing>>
    /\ e.at \in Live
    /\ st.paused = status[c[1]].paused
    /\ IF e.at = "batch" THEN batch' \in BatchRecord /\ batch'.by = c
                         ELSE batch' = NoBatch

RunsGoOn ==
  /\ DOMAIN runs' = DOMAIN runs
  /\ \A r \in DOMAIN runs : runs'[r].over = runs[r].over
  /\ nextRun' = nextRun

LEMMA NoBatchFits ==
  NoBatch \in BatchRecord /\ (batch' = NoBatch => BatchFits')
<1>1. <<>> \in Seq(Outcome) /\ 0 \in 0..Cardinality(Configs)
  BY FS_CardinalityType, WorkspaceAssumption
<1>2. QED
  BY <1>1 DEF NoBatch, BatchRecord, BatchFits

LEMMA OtherPairs ==
  ASSUME NEW c, c = <<c[1], c[2]>>, NEW r, NEW s, r # c[1] \/ s # c[2]
  PROVE  <<r, s>> # c
  OBVIOUS

LEMMA MovedKeepsControl ==
  ASSUME Coordinated, NEW c, Acting(c), Moved(c), RunsGoOn
  PROVE  Control'
<1>1. PICK e \in ExecRecord, st \in StatusRecord :
        /\ exec' = [exec EXCEPT ![c] = e]
        /\ status' = [status EXCEPT ![c[1]] = st]
        /\ UNCHANGED <<tasks, closing>>
        /\ e.at \in Live
        /\ st.paused = status[c[1]].paused
        /\ IF e.at = "batch" THEN batch' \in BatchRecord /\ batch'.by = c
                             ELSE batch' = NoBatch
  BY DEF Moved
<1>2. /\ c \in Executions /\ c[1] \in Runs /\ c[2] \in Slots /\ c = <<c[1], c[2]>>
      /\ c[1] \in ActiveRuns /\ c[1] \in DOMAIN runs
      /\ tasks[c[1]] = c[2]
  BY WorkingRun DEF Acting
<1>3. PartsOK /\ BatchOwned /\ \A r \in Runs : WorksAlone(r) /\ Served(r) /\ Untouched(r)
  BY DEF Coordinated, Control
<1>4. c # Null /\ c[2] # Null
  BY <1>2, CoordinatorAssumption DEF Executions, Slots
<1>5. PartsOK'
  BY <1>1, <1>2, <1>3, NoBatchFits DEF PartsOK
<1>6. ActiveRuns' = ActiveRuns
  BY DEF RunsGoOn, ActiveRuns, Active
<1>7. BatchOwned'
  <2>1. \A d \in Executions \ {c} : exec'[d].at # "batch"
    <3>1. \A d \in Executions \ {c} : batch.by # d
      BY CoordinatorAssumption DEF Acting, NoBatch, Executions, Slots
    <3>2. QED
      BY <1>1, <1>3, <3>1 DEF BatchOwned
  <2>2. exec'[c] = e
    BY <1>1, <1>2, <1>3 DEF PartsOK
  <2>3. CASE e.at = "batch"
    BY <1>1, <1>4, <2>1, <2>2, <2>3 DEF BatchOwned
  <2>4. CASE e.at # "batch"
    <3>1. batch' = NoBatch /\ batch'.by = Null
      BY <1>1, <2>4 DEF NoBatch
    <3>2. \A d \in Executions : batch'.by # d
      BY <3>1, CoordinatorAssumption DEF Executions, Slots
    <3>3. QED
      BY <2>1, <2>2, <2>4, <3>1, <3>2 DEF BatchOwned
  <2>5. QED
    BY <2>3, <2>4
<1>8. ASSUME NEW r \in Runs PROVE (WorksAlone(r) /\ Served(r) /\ Untouched(r))'
  <2>1. \A s \in Slots : r # c[1] \/ s # c[2] => exec'[<<r, s>>] = exec[<<r, s>>]
    <3>1. \A s \in Slots : <<r, s>> \in Executions
      BY DEF Executions
    <3>2. \A s \in Slots : r # c[1] \/ s # c[2] => <<r, s>> # c
      BY <1>2, OtherPairs
    <3>3. QED
      BY <1>1, <1>3, <3>1, <3>2 DEF PartsOK
  <2>2. exec'[c] = e
    BY <1>1, <1>2, <1>3 DEF PartsOK
  <2>3. e.at # "idle"
    BY <1>1 DEF Live
  <2>4. WorksAlone(r) /\ Served(r) /\ Untouched(r)
    BY <1>3
  <2>5. CASE r = c[1]
    <3>1. \A s \in Slots : exec[<<r, s>>].at \in Live => s = c[2]
      BY <1>2, <2>4, <2>5 DEF WorksAlone
    <3>2. \A s \in Slots : exec'[<<r, s>>].at \in Live => s = c[2]
      BY <1>2, <2>1, <2>5, <3>1
    <3>3. WorksAlone(r)'
      BY <1>1, <1>2, <1>6, <2>2, <2>3, <2>5, <3>2 DEF WorksAlone
    <3>4. Served(r)'
      <4>1. status'[r] = st
        BY <1>1, <1>2, <1>3, <2>5 DEF PartsOK
      <4>2. ~status[r].paused
        BY <1>2, <1>4, <2>4, <2>5 DEF Served
      <4>3. QED
        BY <1>1, <1>2, <1>4, <2>2, <2>5, <4>1, <4>2 DEF Served
    <3>5. Untouched(r)'
      <4>1. r < nextRun /\ r \in DOMAIN runs'
        BY <1>2, <2>5 DEF RunsGoOn, Coordinated, Consistent, RunsNumbered
      <4>2. nextRun' = nextRun /\ nextRun \in Int /\ r \in Int
        BY WorkspaceAssumption
        DEF RunsGoOn, Coordinated, Consistent, WorkspaceTypeOK, Runs
      <4>3. QED
        BY <4>1, <4>2 DEF Untouched
    <3>6. QED
      BY <3>3, <3>4, <3>5
  <2>6. CASE r # c[1]
    <3>1. \A s \in Slots : exec'[<<r, s>>] = exec[<<r, s>>]
      BY <1>2, <2>1, <2>6
    <3>2. status'[r] = status[r] /\ tasks'[r] = tasks[r]
      BY <1>1, <2>6
    <3>3. tasks[r] \in Slots \cup {Null}
      BY <1>3 DEF PartsOK
    <3>4. WorksAlone(r)' /\ Served(r)'
      BY <1>1, <1>6, <2>4, <3>1, <3>2, <3>3 DEF WorksAlone, Served
    <3>5. Untouched(r)'
      BY <2>4, <3>1, <3>2 DEF Untouched, RunsGoOn
    <3>6. QED
      BY <3>4, <3>5
  <2>7. QED
    BY <2>5, <2>6
<1>9. QED
  BY <1>5, <1>7, <1>8 DEF Control

(* The execution ends, with the run over or paused.                        *)
Ended(c) ==
  /\ exec' = [exec EXCEPT ![c] = [Idling EXCEPT !.at = "over"]]
  /\ \E st \in StatusRecord :
       /\ status' = [status EXCEPT ![c[1]] = st]
       /\ \/ /\ \E new : RunBecomes(c[1], new) /\ new.over = TRUE
             /\ tasks' = tasks
          \/ /\ RunsGoOn /\ st.paused
             /\ tasks' = [tasks EXCEPT ![c[1]] = Null]
  /\ batch' = NoBatch /\ closing' = closing

LEMMA EndedKeepsControl ==
  ASSUME Coordinated, NEW c, Acting(c), Ended(c)
  PROVE  Control'
<1> DEFINE over == [Idling EXCEPT !.at = "over"]
<1>1. PICK st \in StatusRecord :
        /\ status' = [status EXCEPT ![c[1]] = st]
        /\ \/ /\ \E new : RunBecomes(c[1], new) /\ new.over = TRUE
              /\ tasks' = tasks
           \/ /\ RunsGoOn /\ st.paused
              /\ tasks' = [tasks EXCEPT ![c[1]] = Null]
  BY DEF Ended
<1>2. /\ exec' = [exec EXCEPT ![c] = over]
      /\ batch' = NoBatch /\ batch'.by = Null /\ closing' = closing
  BY DEF Ended, NoBatch
<1>3. /\ c \in Executions /\ c[1] \in Runs /\ c[2] \in Slots /\ c = <<c[1], c[2]>>
      /\ c[1] \in ActiveRuns /\ c[1] \in DOMAIN runs
      /\ tasks[c[1]] = c[2]
  BY WorkingRun DEF Acting
<1>4. PartsOK /\ BatchOwned /\ \A r \in Runs : WorksAlone(r) /\ Served(r) /\ Untouched(r)
  BY DEF Coordinated, Control
<1>5. over \in ExecRecord /\ over.at = "over"
  <2>1. MaxFailures \in Nat
    BY CoordinatorAssumption
  <2>2. QED
    BY <2>1 DEF Idling, ExecRecord, Places, States, Terminal
<1> HIDE DEF over
<1>6. PartsOK'
  <2>1. tasks' \in [Runs -> Slots \cup {Null}]
    BY <1>1, <1>3, <1>4 DEF PartsOK
  <2>2. QED
    BY <1>1, <1>2, <1>3, <1>4, <1>5, <2>1, NoBatchFits DEF PartsOK
<1>7. /\ DOMAIN runs' = DOMAIN runs /\ nextRun' = nextRun
      /\ \A r \in Runs \ {c[1]} : (r \in ActiveRuns)' <=> r \in ActiveRuns
  BY <1>1, <1>3 DEF RunBecomes, RunsGoOn, ActiveRuns, Active
<1>8. exec'[c] = over
  BY <1>2, <1>3, <1>4 DEF PartsOK
<1>9. BatchOwned'
  <2>1. \A d \in Executions : d # Null
    BY CoordinatorAssumption DEF Executions, Slots
  <2>2. \A d \in Executions \ {c} : batch.by # d
    BY <2>1 DEF Acting, NoBatch
  <2>3. \A d \in Executions : exec'[d].at # "batch"
    BY <1>2, <1>4, <1>5, <1>8, <2>2 DEF BatchOwned, PartsOK
  <2>4. QED
    BY <1>2, <2>1, <2>3 DEF BatchOwned
<1>10. ASSUME NEW r \in Runs PROVE (WorksAlone(r) /\ Served(r) /\ Untouched(r))'
  <2>1. \A s \in Slots : r # c[1] \/ s # c[2] => exec'[<<r, s>>] = exec[<<r, s>>]
    <3>1. \A s \in Slots : <<r, s>> \in Executions
      BY DEF Executions
    <3>2. \A s \in Slots : r # c[1] \/ s # c[2] => <<r, s>> # c
      BY <1>3, OtherPairs
    <3>3. QED
      BY <1>2, <1>4, <3>1, <3>2 DEF PartsOK
  <2>2. WorksAlone(r) /\ Served(r) /\ Untouched(r)
    BY <1>4
  <2>3. CASE r = c[1]
    <3>1. \A s \in Slots : exec[<<r, s>>].at \in Live => s = c[2]
      BY <1>3, <2>2, <2>3 DEF WorksAlone
    <3>2. \A s \in Slots : exec'[<<r, s>>].at \notin Live
      BY <1>3, <1>5, <1>8, <2>1, <2>3, <3>1 DEF Live
    <3>3. tasks'[r] # Null => exec'[<<r, tasks'[r]>>].at # "idle"
      BY <1>1, <1>3, <1>4, <1>5, <1>8, <2>3 DEF PartsOK
    <3>4. Served(r)'
      <4>1. status'[r] = st
        BY <1>1, <1>3, <1>4, <2>3 DEF PartsOK
      <4>2. CASE RunsGoOn /\ st.paused /\ tasks' = [tasks EXCEPT ![c[1]] = Null]
        BY <1>3, <1>4, <2>3, <4>1, <4>2 DEF Served, PartsOK
      <4>3. CASE \E new : RunBecomes(c[1], new) /\ new.over = TRUE
        BY <1>3, <2>3, <4>3 DEF Served, RunBecomes, ActiveRuns, Active
      <4>4. QED
        BY <1>1, <4>2, <4>3
    <3>5. Untouched(r)'
      <4>1. r < nextRun
        BY <1>3, <2>3 DEF Coordinated, Consistent, RunsNumbered
      <4>2. nextRun \in Int /\ r \in Int
        BY WorkspaceAssumption DEF Coordinated, Consistent, WorkspaceTypeOK, Runs
      <4>3. QED
        BY <1>3, <1>7, <2>3, <4>1, <4>2 DEF Untouched
    <3>6. QED
      BY <3>2, <3>3, <3>4, <3>5 DEF WorksAlone
  <2>4. CASE r # c[1]
    <3>1. \A s \in Slots : exec'[<<r, s>>] = exec[<<r, s>>]
      BY <2>1, <2>4
    <3>2. status'[r] = status[r] /\ tasks'[r] = tasks[r]
      BY <1>1, <1>3, <1>4, <2>4 DEF PartsOK
    <3>3. tasks[r] \in Slots \cup {Null} /\ ((r \in ActiveRuns)' <=> r \in ActiveRuns)
      BY <1>4, <1>7, <2>4 DEF PartsOK
    <3>4. WorksAlone(r)' /\ Served(r)'
      BY <1>2, <2>2, <3>1, <3>2, <3>3 DEF WorksAlone, Served
    <3>5. Untouched(r)'
      BY <1>7, <2>2, <3>1, <3>2 DEF Untouched
    <3>6. QED
      BY <3>4, <3>5
  <2>5. QED
    BY <2>3, <2>4
<1>11. QED
  BY <1>6, <1>9, <1>10 DEF Control

-----------------------------------------------------------------------------
(* Each step of an execution goes on or ends; its batch fits               *)

(* What a step must show of a status.                                      *)
LEMMA StatusParts ==
  ASSUME NEW st \in StatusRecord
  PROVE  /\ st.state \in States /\ st.cancel \in BOOLEAN /\ st.job \in BOOLEAN
         /\ st.paused \in BOOLEAN /\ st.error \in Errors
         /\ st.cursor \in 0..Cardinality(Configs)
  BY DEF StatusRecord

LEMMA ActingParts ==
  ASSUME Coordinated, NEW c, Acting(c)
  PROVE  /\ c \in Executions /\ c[1] \in Runs /\ status[c[1]] \in StatusRecord
         /\ exec[c] \in ExecRecord
         /\ c[1] \in DOMAIN runs /\ Asked(c[1]) /\ WorkspaceTypeOK
         /\ tasks[c[1]] = c[2]
  BY WorkingRun DEF Acting, Coordinated, Control, PartsOK

LEMMA MoveToMoves ==
  ASSUME Coordinated, NEW c, Acting(c), NEW place \in Live \ {"batch"}, MoveTo(c, place),
         NEW st \in StatusRecord, status' = [status EXCEPT ![c[1]] = st],
         st.paused = status[c[1]].paused, UNCHANGED <<tasks, closing>>
  PROVE  Moved(c) /\ BatchFits'
<1> DEFINE e == [exec[c] EXCEPT !.at = place]
<1>1. e \in ExecRecord /\ e.at = place
  BY ActingParts DEF ExecRecord, Live
<1>2. exec' = [exec EXCEPT ![c] = e] /\ batch' = NoBatch
  BY DEF MoveTo
<1> HIDE DEF e
<1>3. QED
  BY <1>1, <1>2, NoBatchFits DEF Moved

LEMMA StartMoves ==
  ASSUME Coordinated, NEW c, Acting(c), NEW then \in {"none", "cached", "page", "failed"},
         NEW todo \in Seq(Outcome), NEW next \in 0..Cardinality(Configs),
         Start(c, then, todo, next),
         NEW st \in StatusRecord, status' = [status EXCEPT ![c[1]] = st],
         st.paused = status[c[1]].paused, UNCHANGED <<tasks, closing>>
  PROVE  Moved(c)
<1> DEFINE e == [exec[c] EXCEPT !.at = "batch"]
<1>1. e \in ExecRecord /\ e.at = "batch" /\ e.at \in Live
  BY ActingParts DEF ExecRecord, Live, Places
<1>2. exec' = [exec EXCEPT ![c] = e]
  BY DEF Start
<1>3. batch' \in BatchRecord /\ batch'.by = c
  BY DEF Start, BatchRecord, Acting
<1> HIDE DEF e
<1>4. QED
  BY <1>1, <1>2, <1>3 DEF Moved

LEMMA SameStatus ==
  ASSUME Coordinated, NEW r \in Runs, status' = status
  PROVE  status' = [status EXCEPT ![r] = status[r]]
  BY DEF Coordinated, Control, PartsOK

(* A failing run answers all that is open.                                 *)
LEMMA UnfinishedFits ==
  ASSUME Coordinated, NEW c, Acting(c), Start(c, "failed", Unfinished(c[1]), 0),
         UNCHANGED runs
  PROVE  /\ Unfinished(c[1]) \in Seq(Outcome)
         /\ 0 \in 0..Cardinality(Configs)
         /\ BatchFits'
<1> DEFINE todo == Unfinished(c[1])
<1>1. /\ Pending(c[1]) \subseteq Keys /\ IsFiniteSet(Pending(c[1]))
      /\ Pending(c[1]) \subseteq runs[c[1]].keys
  BY ActingParts, AskedFinite
<1>2. "failed" \in Verdicts
  BY CoordinatorAssumption
<1>3. /\ todo \in Seq(Outcome)
      /\ {todo[i].key : i \in DOMAIN todo} = Pending(c[1])
      /\ \A i \in DOMAIN todo : todo[i].verdict = "failed"
  BY <1>1, <1>2, AllAsAnswers DEF Unfinished
<1>4. batch' = [todo |-> todo, then |-> "failed", by |-> c, next |-> 0]
  BY DEF Start
<1> HIDE DEF todo
<1>5. batch'.todo = todo /\ batch'.then = "failed" /\ batch'.by = c
  BY <1>4
<1>6. TodoKeys' = Pending(c[1])
  BY <1>3, <1>5 DEF TodoKeys
<1>7. Pending(c[1])' = Pending(c[1])
  BY DEF Pending
<1>8. BatchFits'
  BY <1>1, <1>3, <1>5, <1>6, <1>7 DEF BatchFits
<1>9. 0 \in 0..Cardinality(Configs)
  BY FS_CardinalityType, WorkspaceAssumption
<1>10. QED
  BY <1>3, <1>8, <1>9 DEF todo

LEMMA RaiseMoves ==
  ASSUME Coordinated, NEW c, Acting(c), NEW error \in Errors, Raise(c, error)
  PROVE  Moved(c) /\ BatchFits' /\ RunsGoOn
<1> DEFINE st == [status[c[1]] EXCEPT !.error = error]
<1>1. st \in StatusRecord /\ st.paused = status[c[1]].paused
  BY ActingParts DEF StatusRecord
<1>2. status' = [status EXCEPT ![c[1]] = st] /\ UNCHANGED <<workspaceVars, tasks, closing>>
  BY DEF Raise
<1> HIDE DEF st
<1>3. RunsGoOn
  BY <1>2 DEF RunsGoOn, workspaceVars
<1>4. CASE status[c[1]].job
  <2>1. MoveTo(c, "abort")
    BY <1>4 DEF Raise
  <2>2. "abort" \in Live \ {"batch"}
    BY DEF Live, Places
  <2>3. QED
    BY <1>1, <1>2, <1>3, <2>1, <2>2, MoveToMoves
<1>5. CASE ~status[c[1]].job
  <2>1. Start(c, "failed", Unfinished(c[1]), 0)
    BY <1>5 DEF Raise
  <2>2. /\ Unfinished(c[1]) \in Seq(Outcome) /\ 0 \in 0..Cardinality(Configs)
        /\ BatchFits'
    BY <1>2, <2>1, UnfinishedFits DEF workspaceVars
  <2>3. QED
    BY <1>1, <1>2, <1>3, <2>1, <2>2, StartMoves
<1>6. QED
  BY <1>4, <1>5

LEMMA OnwardMoves ==
  ASSUME Coordinated, NEW c, Acting(c), NEW st \in StatusRecord, Onward(c, st),
         st.paused = status[c[1]].paused
  PROVE  Moved(c) /\ BatchFits' /\ RunsGoOn
<1> DEFINE place == NextCall(st)
           new == IF place = "cancel" THEN [st EXCEPT !.state = "cancelling"] ELSE st
<1>1. new \in StatusRecord /\ new.paused = st.paused
  BY DEF StatusRecord, States
<1>2. place \in Live \ {"batch"}
  BY DEF NextCall, Live, Places
<1>3. /\ status' = [status EXCEPT ![c[1]] = new] /\ MoveTo(c, place)
      /\ UNCHANGED <<workspaceVars, tasks, closing>>
  BY DEF Onward
<1> HIDE DEF place, new
<1>4. QED
  BY <1>1, <1>2, <1>3, MoveToMoves DEF RunsGoOn, workspaceVars

LEMMA SettleEnds ==
  ASSUME Coordinated, NEW c, Acting(c), NEW st \in StatusRecord, Settle(c, st)
  PROVE  Ended(c) /\ BatchFits'
<1>1. c[1] \in DOMAIN runs /\ WorkspaceTypeOK
  BY ActingParts
<1>2. \E new : RunBecomes(c[1], new) /\ new.over = TRUE
  BY <1>1, FinishBecomes DEF Settle
<1>3. QED
  BY <1>2, NoBatchFits DEF Settle, End, Ended

(* The log of a job has at most one entry for each model.                  *)
LEMMA LogIsShort ==
  ASSUME ServiceKept, NEW r \in Runs
  PROVE  /\ log[r] \in Seq(Entry) /\ Len(log[r]) \in Nat
         /\ Len(log[r]) <= accepted[r] /\ Len(log[r]) \in 0..Cardinality(Configs)
<1>1. log[r] \in Seq(Entry) /\ accepted[r] \in 0..Cardinality(Configs) /\ ServiceOf(r)
  BY DEF ServiceKept
<1>2. Cardinality(Configs) \in Nat
  BY FS_CardinalityType, WorkspaceAssumption
<1> DEFINE n == Len(log[r])
           f == [i \in 1..n |-> log[r][i].model]
<1>3. n \in Nat /\ DOMAIN log[r] = 1..n /\ accepted[r] \in Nat
  BY <1>1, <1>2
<1>4. f \in [1..n -> 1..accepted[r]]
  BY <1>1, <1>3 DEF ServiceOf
<1>5. \A i, j \in 1..n : f[i] = f[j] => i = j
  BY <1>1, <1>3 DEF ServiceOf
<1> HIDE DEF f
<1>6. f \in Injection(1..n, 1..accepted[r])
  BY <1>4, <1>5 DEF Injection, IsInjective
<1>7. /\ IsFiniteSet(1..accepted[r])
      /\ Cardinality(1..accepted[r]) = accepted[r] /\ Cardinality(1..n) = n
  <2>1. \A m \in Nat : IsFiniteSet(1..m) /\ Cardinality(1..m) = m
    BY FS_Interval
  <2>2. QED
    BY <1>3, <2>1
<1>8. n <= accepted[r]
  BY <1>6, <1>7, FS_Injection
<1>9. QED
  BY <1>1, <1>2, <1>3, <1>8

LEMMA LogNamesMissing ==
  ASSUME Coordinated, NEW r \in DOMAIN runs, NEW i \in DOMAIN log[r]
  PROVE  /\ log[r][i].model \in 1..Cardinality(runs[r].missing)
         /\ KeyOf(r, log[r][i].model) \in runs[r].missing
         /\ log[r][i].verdict \in Verdicts
<1>1. r \in Runs /\ WorkspaceTypeOK /\ Asked(r) /\ ServiceKept
  BY DEF Coordinated, Consistent, WorkspaceTypeOK, Data
<1>2. ServiceOf(r) /\ log[r] \in Seq(Entry) /\ accepted[r] \in Int
  BY <1>1, FS_CardinalityType, WorkspaceAssumption DEF ServiceKept
<1>3. log[r][i].model \in 1..accepted[r] /\ log[r][i] \in Entry
  BY <1>2 DEF ServiceOf
<1>4. accepted[r] = Cardinality(runs[r].missing)
  BY <1>2, <1>3 DEF ServiceOf
<1>5. QED
  BY <1>1, <1>3, <1>4, ModelsAreMissing DEF Entry

(* The outcomes of the next page.                                          *)
PageOf(r) ==
  [i \in 1..(Len(log[r]) - status[r].cursor) |->
     LET e == log[r][status[r].cursor + i]
     IN [key |-> KeyOf(r, e.model), verdict |-> e.verdict]]

LEMMA PageEntries ==
  ASSUME Coordinated, NEW r \in DOMAIN runs
  PROVE  /\ PageOf(r) \in Seq(Outcome)
         /\ DOMAIN PageOf(r) = 1..(Len(log[r]) - status[r].cursor)
         /\ \A i \in DOMAIN PageOf(r) :
              LET j == status[r].cursor + i
              IN /\ j \in DOMAIN log[r] /\ j > status[r].cursor
                 /\ PageOf(r)[i].key = KeyOf(r, log[r][j].model)
                 /\ PageOf(r)[i].key \in runs[r].missing
                 /\ PageOf(r)[i].verdict = log[r][j].verdict
<1>1. r \in Runs /\ WorkspaceTypeOK /\ Asked(r) /\ ServiceKept
  BY DEF Coordinated, Consistent, WorkspaceTypeOK, Data
<1>2. /\ log[r] \in Seq(Entry) /\ Len(log[r]) \in Nat /\ status[r] \in StatusRecord
      /\ Cardinality(Configs) \in Nat
  BY <1>1, LogIsShort, FS_CardinalityType, WorkspaceAssumption
  DEF Coordinated, Control, PartsOK
<1>3. status[r].cursor \in Nat
  BY <1>2 DEF StatusRecord
<1> DEFINE n == Len(log[r]) - status[r].cursor
           page == PageOf(r)
<1>4. /\ DOMAIN page = 1..n
      /\ \A i \in 1..n :
           page[i] = [key |-> KeyOf(r, log[r][status[r].cursor + i].model),
                      verdict |-> log[r][status[r].cursor + i].verdict]
  BY DEF PageOf
<1>5. \A i \in 1..n : status[r].cursor + i \in DOMAIN log[r] /\ status[r].cursor + i > status[r].cursor
  BY <1>2, <1>3
<1>6. \A j \in DOMAIN log[r] : KeyOf(r, log[r][j].model) \in runs[r].missing /\ log[r][j].verdict \in Verdicts
  BY LogNamesMissing
<1>7. runs[r].missing \subseteq Keys
  BY <1>1 DEF WorkspaceTypeOK, RunRecord
<1>8. \A i \in 1..n : page[i] \in Outcome
  BY <1>4, <1>5, <1>6, <1>7 DEF Outcome
<1>9. page \in Seq(Outcome)
  <2>1. CASE n >= 0
    <3>1. n \in Nat
      BY <1>2, <1>3, <2>1
    <3>2. page = [i \in 1..n |-> page[i]]
      BY DEF PageOf
    <3> HIDE DEF page, n
    <3>3. page \in [1..n -> Outcome]
      BY <1>8, <3>2
    <3>4. QED
      BY <3>1, <3>3
  <2>2. CASE ~(n >= 0)
    <3>1. 1..n = 1..0
      BY <1>2, <1>3, <2>2
    <3>2. page = [i \in 1..n |-> page[i]]
      BY DEF PageOf
    <3> HIDE DEF page, n
    <3>3. page = <<>>
      BY <3>1, <3>2
    <3>4. QED
      BY <3>3
  <2>3. QED
    BY <2>1, <2>2
<1> HIDE DEF page
<1>10. QED
  BY <1>4, <1>5, <1>6, <1>9 DEF page

LEMMA CachedFits ==
  ASSUME Coordinated, NEW c, Acting(c), Begin(c)
  PROVE  Moved(c) /\ BatchFits' /\ RunsGoOn
<1> DEFINE r == c[1]
           todo == AllAs(Pending(r) \ runs[r].missing, "succeeded")
<1>1. /\ Pending(r) \subseteq Keys /\ IsFiniteSet(Pending(r) \ runs[r].missing)
      /\ Pending(r) \subseteq runs[r].keys
      /\ r \in Runs /\ status[r] \in StatusRecord
  BY ActingParts, AskedFinite
<1>2. "succeeded" \in Verdicts /\ 0 \in 0..Cardinality(Configs)
  BY CoordinatorAssumption, FS_CardinalityType, WorkspaceAssumption
<1>3. /\ todo \in Seq(Outcome)
      /\ {todo[i].key : i \in DOMAIN todo} = Pending(r) \ runs[r].missing
      /\ \A i \in DOMAIN todo : todo[i].verdict = "succeeded"
  BY <1>1, <1>2, AllAsAnswers
<1>4. Start(c, "cached", todo, 0) /\ UNCHANGED <<workspaceVars, status, tasks, closing>>
  BY DEF Begin
<1> HIDE DEF todo
<1>5. /\ batch'.todo = todo /\ batch'.then = "cached" /\ batch'.by = c
      /\ runs' = runs /\ nextRun' = nextRun
  BY <1>4 DEF Start, workspaceVars
<1>6. TodoKeys' = Pending(r) \ runs[r].missing
  BY <1>3, <1>5 DEF TodoKeys
<1>7. Pending(r)' = Pending(r)
  BY <1>5 DEF Pending
<1>8. BatchFits'
  BY <1>1, <1>3, <1>5, <1>6, <1>7 DEF BatchFits
<1>9. RunsGoOn
  BY <1>5 DEF RunsGoOn
<1>10. Moved(c)
  BY <1>1, <1>2, <1>3, <1>4, SameStatus, StartMoves
<1>11. QED
  BY <1>8, <1>9, <1>10

LEMMA PageFits ==
  ASSUME Coordinated, NEW c, Acting(c), UNCHANGED <<workspaceVars, status, tasks, closing>>,
         Start(c, "page", PageOf(c[1]), Len(log[c[1]]))
  PROVE  Moved(c) /\ BatchFits' /\ RunsGoOn
<1> DEFINE r == c[1]
<1>1. /\ r \in Runs /\ r \in DOMAIN runs /\ status[r] \in StatusRecord
      /\ Asked(r) /\ ServiceKept
  BY ActingParts DEF Coordinated, Data
<1>2. Len(log[r]) \in 0..Cardinality(Configs)
  BY <1>1, LogIsShort
<1>3. /\ PageOf(r) \in Seq(Outcome)
      /\ \A i \in DOMAIN PageOf(r) : PageOf(r)[i].key \in runs[r].missing
  BY <1>1, PageEntries
<1>4. /\ batch'.todo = PageOf(r) /\ batch'.then = "page" /\ batch'.by = c
      /\ runs' = runs /\ nextRun' = nextRun
  BY DEF Start, workspaceVars
<1>5. TodoKeys' \subseteq runs[r].missing
  BY <1>3, <1>4 DEF TodoKeys
<1>6. BatchFits'
  BY <1>1, <1>4, <1>5 DEF BatchFits, Asked
<1>7. Moved(c)
  BY <1>1, <1>2, <1>3, SameStatus, StartMoves
<1>8. QED
  BY <1>4, <1>6, <1>7 DEF RunsGoOn

(* An execution may act when the event loop is free, or with its batch.    *)
LEMMA FreeActs ==
  ASSUME Coordinated, NEW c \in Executions, LoopIsFree, exec[c].at \in Live
  PROVE  Acting(c)
  BY DEF Acting, LoopIsFree

LEMMA OwnerActs ==
  ASSUME Coordinated, NEW c \in Executions, batch.by = c
  PROVE  Acting(c) /\ batch # NoBatch
  BY BatchWorks DEF Acting

LEMMA TailParts ==
  ASSUME NEW T, NEW s \in Seq(T), s # <<>>
  PROVE  /\ Tail(s) \in Seq(T)
         /\ \A i \in DOMAIN Tail(s) : i + 1 \in DOMAIN s /\ Tail(s)[i] = s[i + 1]
         /\ \A i \in DOMAIN s : i = 1 \/ (i - 1 \in DOMAIN Tail(s) /\ s[i] = Tail(s)[i - 1])
<1>1. /\ Tail(s) \in Seq(T) /\ Len(Tail(s)) = Len(s) - 1
      /\ \A i \in 1..Len(Tail(s)) : Tail(s)[i] = s[i + 1]
  BY HeadTailProperties
<1>2. /\ Len(s) \in Nat /\ DOMAIN s = 1..Len(s) /\ DOMAIN Tail(s) = 1..(Len(s) - 1)
  BY <1>1
<1>3. \A i \in DOMAIN s : i = 1 \/ i - 1 \in DOMAIN Tail(s)
  BY <1>2
<1>4. \A i \in DOMAIN Tail(s) : i + 1 \in DOMAIN s
  BY <1>2
<1>5. \A i \in DOMAIN s : i - 1 \in DOMAIN Tail(s) => s[i] = Tail(s)[i - 1]
  <2>1. \A i \in DOMAIN s : i - 1 \in DOMAIN Tail(s) => Tail(s)[i - 1] = s[(i - 1) + 1]
    BY <1>1, <1>2
  <2>2. \A i \in DOMAIN s : (i - 1) + 1 = i
    BY <1>2
  <2>3. QED
    BY <2>1, <2>2
<1>6. QED
  BY <1>1, <1>2, <1>3, <1>4, <1>5

LEMMA CompleteOneMoves ==
  ASSUME Coordinated, NEW c \in Executions, CompleteOne(c)
  PROVE  Moved(c) /\ BatchFits' /\ RunsGoOn
<1> DEFINE r == c[1]
           o == Head(batch.todo)
           rest == [batch EXCEPT !.todo = Tail(@)]
<1>1. batch.by = c /\ batch.todo # <<>>
  BY DEF CompleteOne
<1>2. Acting(c) /\ exec[c].at = "batch" /\ batch # NoBatch
  BY <1>1, OwnerActs, BatchWorks
<1>3. /\ r \in Runs /\ r \in DOMAIN runs /\ status[r] \in StatusRecord
      /\ exec[c] \in ExecRecord /\ Asked(r) /\ WorkspaceTypeOK
      /\ runs[r] \in RunRecord
  BY <1>2, ActingParts, AskedFinite
<1>4. /\ o = batch.todo[1] /\ o \in Outcome /\ o.key \in runs[r].keys
      /\ o.verdict \in Verdicts
  BY <1>1, FirstOutcome
<1>5. batch \in BatchRecord /\ batch.todo \in Seq(Outcome)
  BY DEF Coordinated, Control, PartsOK, BatchRecord
<1>6. /\ Tail(batch.todo) \in Seq(Outcome)
      /\ \A i \in DOMAIN Tail(batch.todo) :
           i + 1 \in DOMAIN batch.todo /\ Tail(batch.todo)[i] = batch.todo[i + 1]
      /\ \A i \in DOMAIN batch.todo :
           i = 1 \/ (/\ i - 1 \in DOMAIN Tail(batch.todo)
                   /\ batch.todo[i] = Tail(batch.todo)[i - 1])
  BY <1>1, <1>5, TailParts
<1>7. /\ rest \in BatchRecord /\ rest.todo = Tail(batch.todo)
      /\ rest.then = batch.then /\ rest.by = c
  BY <1>1, <1>5, <1>6 DEF BatchRecord
<1> HIDE DEF rest, o
<1>8. ASSUME batch' = rest,
             \/ runs' = runs /\ runs[r].verdict[o.key] # Unanswered
             \/ \E new : /\ RunBecomes(r, new)
                         /\ new.verdict = [runs[r].verdict EXCEPT ![o.key] = o.verdict]
      PROVE  BatchFits'
  <2>1. TodoKeys' \subseteq TodoKeys /\ TodoKeys \subseteq TodoKeys' \cup {o.key}
    <3>1. batch'.todo = Tail(batch.todo)
      BY <1>7, <1>8
    <3>2. TodoKeys' = {Tail(batch.todo)[i].key : i \in DOMAIN Tail(batch.todo)}
      BY <3>1 DEF TodoKeys
    <3>3. TodoKeys' \subseteq TodoKeys
      <4>1. ASSUME NEW i \in DOMAIN Tail(batch.todo)
            PROVE  Tail(batch.todo)[i].key \in TodoKeys
        <5>1. PICK j \in DOMAIN batch.todo : Tail(batch.todo)[i] = batch.todo[j]
          BY <1>6
        <5>2. QED
          BY <5>1 DEF TodoKeys
      <4>2. QED
        BY <3>2, <4>1
    <3>4. TodoKeys \subseteq TodoKeys' \cup {o.key}
      BY <1>4, <1>6, <3>2 DEF TodoKeys
    <3>5. QED
      BY <3>3, <3>4
  <2>2. /\ runs'[r].keys = runs[r].keys /\ runs'[r].missing = runs[r].missing
        /\ Pending(r)' \subseteq Pending(r) \ {o.key}
    <3>1. CASE runs' = runs /\ runs[r].verdict[o.key] # Unanswered
      BY <3>1 DEF Pending
    <3>2. ASSUME NEW new, RunBecomes(r, new),
                 new.verdict = [runs[r].verdict EXCEPT ![o.key] = o.verdict]
          PROVE  /\ runs'[r].keys = runs[r].keys /\ runs'[r].missing = runs[r].missing
                 /\ Pending(r)' \subseteq Pending(r) \ {o.key}
      <4>1. runs'[r] = new /\ new.keys = runs[r].keys /\ new.missing = runs[r].missing
        BY <1>3, <3>2 DEF RunBecomes
      <4>2. runs[r].verdict \in [Keys -> Verdicts \cup {Unanswered}] /\ runs[r].keys \subseteq Keys
        BY <1>3 DEF RunRecord
      <4>3. o.verdict # Unanswered /\ o.key \in Keys
        BY <1>4, <4>2, WorkspaceAssumption
      <4>4. \A k \in Keys : new.verdict[k] = Unanswered =>
              runs[r].verdict[k] = Unanswered /\ k # o.key
        BY <3>2, <4>2, <4>3
      <4>5. QED
        BY <4>1, <4>2, <4>4 DEF Pending
    <3>3. QED
      BY <1>8, <3>1, <3>2
  <2>3. BatchFits
    BY DEF Coordinated, Data
  <2>4. \A i \in DOMAIN batch'.todo : \E j \in DOMAIN batch.todo : batch'.todo[i] = batch.todo[j]
    <3>1. batch'.todo = Tail(batch.todo)
      BY <1>7, <1>8
    <3>2. QED
      BY <1>6, <3>1
  <2>5. batch'.then = batch.then /\ batch'.by = batch.by /\ batch.by[1] = r
    BY <1>1, <1>7, <1>8
  <2>6. QED
    BY <1>2, <2>1, <2>2, <2>3, <2>4, <2>5 DEF BatchFits
<1>9. ASSUME batch' = rest, UNCHANGED <<status, tasks, exec, closing>>
      PROVE  Moved(c)
  <2>1. exec' = [exec EXCEPT ![c] = exec[c]]
    BY <1>9 DEF Coordinated, Control, PartsOK
  <2>2. status' = [status EXCEPT ![r] = status[r]]
    BY <1>3, <1>9, SameStatus
  <2>3. exec[c].at \in Live
    BY <1>2 DEF Acting
  <2>4. QED
    BY <1>2, <1>3, <1>7, <1>9, <2>1, <2>2, <2>3 DEF Moved
<1>10. CASE runs[r].verdict[o.key] # Unanswered
  <2>1. batch' = rest /\ UNCHANGED <<workspaceVars, status, tasks, exec, closing>>
    BY <1>10 DEF CompleteOne, o, rest
  <2>2. runs' = runs /\ nextRun' = nextRun
    BY <2>1 DEF workspaceVars
  <2>3. QED
    BY <1>8, <1>9, <1>10, <2>1, <2>2 DEF RunsGoOn
<1>11. CASE runs[r].verdict[o.key] = Unanswered /\ Acceptable(r, o)
  <2>1. /\ Answer(r, o.key, o.verdict) /\ batch' = rest
        /\ UNCHANGED <<status, tasks, exec, closing>>
    BY <1>11 DEF CompleteOne, o, rest
  <2>2. PICK new : /\ RunBecomes(r, new) /\ new.over = runs[r].over
                   /\ new.verdict = [runs[r].verdict EXCEPT ![o.key] = o.verdict]
    BY <1>3, <1>4, <2>1, AnswerBecomes
  <2>3. RunsGoOn
    BY <1>3, <2>2 DEF RunBecomes, RunsGoOn
  <2>4. QED
    BY <1>8, <1>9, <2>1, <2>2, <2>3
<1>12. CASE runs[r].verdict[o.key] = Unanswered /\ ~Acceptable(r, o)
  <2>1. PICK error \in {"internal", "too_large"} : Raise(c, error)
    BY <1>12 DEF CompleteOne, o, rest
  <2>2. error \in Errors
    BY DEF Errors
  <2>3. QED
    BY <1>2, <2>1, <2>2, RaiseMoves
<1>13. QED
  BY <1>10, <1>11, <1>12

LEMMA BatchDoneMoves ==
  ASSUME Coordinated, NEW c \in Executions, BatchDone(c)
  PROVE  ((Moved(c) /\ RunsGoOn) \/ Ended(c)) /\ BatchFits'
<1> DEFINE r == c[1]
<1>1. Acting(c)
  BY OwnerActs DEF BatchDone
<1>2. /\ status[r] \in StatusRecord /\ r \in Runs /\ exec[c] \in ExecRecord
      /\ batch \in BatchRecord
  BY <1>1, ActingParts DEF Coordinated, Control, PartsOK
<1>3. CASE batch.then = "cached" /\ CachedDone(c)
  <2>1. [status[r] EXCEPT !.state = "completed"] \in StatusRecord
    BY <1>2 DEF StatusRecord, States, Terminal
  <2>2. CASE Settle(c, [status[r] EXCEPT !.state = "completed"])
    BY <1>1, <2>1, <2>2, SettleEnds
  <2>3. CASE Raise(c, "too_large")
    BY <1>1, <2>3, RaiseMoves DEF Errors
  <2>4. CASE Onward(c, status[r])
    BY <1>1, <1>2, <2>4, OnwardMoves
  <2>5. QED
    BY <1>3, <2>2, <2>3, <2>4 DEF CachedDone
<1>4. CASE batch.then = "page" /\ PageDone(c)
  <2> DEFINE st == [status[r] EXCEPT !.cursor = batch.next, !.error = "none"]
             ended == [st EXCEPT !.state = Seen(c)]
             on == [st EXCEPT !.state = IF st.cancel THEN "cancelling" ELSE "running"]
  <2>1. /\ st \in StatusRecord /\ ended \in StatusRecord /\ on \in StatusRecord
        /\ on.paused = status[r].paused
    <3>1. batch.next \in 0..Cardinality(Configs) /\ Seen(c) \in States
      BY <1>2 DEF BatchRecord, ExecRecord, Seen
    <3>2. "none" \in Errors /\ "cancelling" \in States /\ "running" \in States
      BY DEF Errors, States
    <3>3. st \in StatusRecord /\ st.paused = status[r].paused
      BY <1>2, <3>1, <3>2 DEF StatusRecord
    <3> HIDE DEF st
    <3>4. QED
      BY <3>1, <3>2, <3>3 DEF StatusRecord
  <2>2. CASE Raise(c, "incomplete")
    BY <1>1, <2>2, RaiseMoves DEF Errors
  <2>3. CASE Settle(c, ended)
    BY <1>1, <2>1, <2>3, SettleEnds
  <2>4. CASE /\ status' = [status EXCEPT ![r] = on]
             /\ exec' = [exec EXCEPT ![c] = [Idling EXCEPT !.at = "sleep"]]
             /\ batch' = NoBatch
             /\ UNCHANGED <<workspaceVars, tasks, closing>>
    <3> DEFINE e == [Idling EXCEPT !.at = "sleep"]
    <3>1. e \in ExecRecord /\ e.at \in Live /\ e.at # "batch"
      <4>1. MaxFailures \in Nat
        BY CoordinatorAssumption
      <4>2. QED
        BY <4>1 DEF Idling, ExecRecord, Places, States, Terminal, Live
    <3>2. exec' = [exec EXCEPT ![c] = e]
      BY <2>4
    <3> HIDE DEF e, on
    <3>3. Moved(c)
      BY <2>1, <2>4, <3>1, <3>2 DEF Moved
    <3>4. RunsGoOn
      BY <2>4 DEF RunsGoOn, workspaceVars
    <3>5. QED
      BY <2>4, <3>3, <3>4, NoBatchFits
  <2>5. QED
    BY <1>4, <2>2, <2>3, <2>4 DEF PageDone
<1>5. CASE batch.then = "failed" /\ Settle(c, [status[r] EXCEPT !.state = "failed"])
  <2>1. [status[r] EXCEPT !.state = "failed"] \in StatusRecord
    BY <1>2 DEF StatusRecord, States, Terminal
  <2>2. QED
    BY <1>1, <1>5, <2>1, SettleEnds
<1>6. QED
  BY <1>3, <1>4, <1>5 DEF BatchDone

LEMMA AnsweredMoves ==
  ASSUME Coordinated, NEW c, Acting(c), LoopIsFree, Answered(c)
  PROVE  Moved(c) /\ BatchFits' /\ RunsGoOn
<1> DEFINE r == c[1]
<1>1. /\ r \in Runs /\ status[r] \in StatusRecord /\ exec[c] \in ExecRecord
      /\ c \in Executions
  BY ActingParts
<1>2. ASSUME NEW place \in {"submit", "status"}, MoveTo(c, place),
             UNCHANGED <<workspaceVars, status, tasks, closing>>
      PROVE  Moved(c) /\ BatchFits' /\ RunsGoOn
  <2>1. place \in Live \ {"batch"}
    BY DEF Live, Places
  <2>2. QED
    BY <1>1, <1>2, <2>1, SameStatus, MoveToMoves DEF RunsGoOn, workspaceVars
<1>3. ASSUME Onward(c, [status[r] EXCEPT !.job = TRUE])
      PROVE  Moved(c) /\ BatchFits' /\ RunsGoOn
  <2> DEFINE st == [status[r] EXCEPT !.job = TRUE]
  <2>1. st \in StatusRecord /\ st.paused = status[r].paused
    BY <1>1 DEF StatusRecord
  <2> HIDE DEF st
  <2>2. QED
    BY <1>3, <2>1, OnwardMoves DEF st
<1>4. ASSUME exec' = [exec EXCEPT ![c].at = "page", ![c].seen = UpstreamStatus(r)],
             UNCHANGED <<workspaceVars, status, tasks, closing, batch>>
      PROVE  Moved(c) /\ BatchFits' /\ RunsGoOn
  <2> DEFINE e == [exec[c] EXCEPT !.at = "page", !.seen = UpstreamStatus(r)]
  <2>1. UpstreamStatus(r) \in States
    BY DEF UpstreamStatus, States, Terminal
  <2>2. e \in ExecRecord /\ e.at = "page"
    BY <1>1, <2>1 DEF ExecRecord, Places
  <2>3. exec' = [exec EXCEPT ![c] = e] /\ batch' = NoBatch
    BY <1>4 DEF LoopIsFree
  <2>4. status' = [status EXCEPT ![r] = status[r]]
    BY <1>1, <1>4, SameStatus
  <2> HIDE DEF e
  <2>5. "page" \in Live
    BY DEF Live, Places
  <2>6. Moved(c)
    BY <1>1, <1>4, <2>2, <2>3, <2>4, <2>5 DEF Moved
  <2>7. QED
    BY <1>4, <2>3, <2>6, NoBatchFits DEF RunsGoOn, workspaceVars
<1>5. ASSUME Start(c, "page", PageOf(r), Len(log[r])),
             UNCHANGED <<workspaceVars, status, tasks, closing>>
      PROVE  Moved(c) /\ BatchFits' /\ RunsGoOn
  BY <1>5, PageFits
<1>6. \/ /\ \E place \in {"submit", "status"} : MoveTo(c, place)
         /\ UNCHANGED <<workspaceVars, status, tasks, closing>>
      \/ Onward(c, [status[r] EXCEPT !.job = TRUE])
      \/ /\ exec' = [exec EXCEPT ![c].at = "page", ![c].seen = UpstreamStatus(r)]
         /\ UNCHANGED <<workspaceVars, status, tasks, closing, batch>>
      \/ /\ Start(c, "page", PageOf(r), Len(log[r]))
         /\ UNCHANGED <<workspaceVars, status, tasks, closing>>
  BY DEF Answered, PageOf
<1>7. QED
  BY <1>2, <1>3, <1>4, <1>5, <1>6

LEMMA UnavailableMoves ==
  ASSUME Coordinated, NEW c, Acting(c), LoopIsFree, Unavailable(c)
  PROVE  ((Moved(c) /\ RunsGoOn) \/ Ended(c)) /\ BatchFits'
<1> DEFINE r == c[1]
           n == exec[c].failures + 1
           st == [status[r] EXCEPT !.state = "reconnecting", !.error = "unavailable"]
           paused == [st EXCEPT !.paused = TRUE]
<1>1. /\ r \in Runs /\ status[r] \in StatusRecord /\ exec[c] \in ExecRecord
      /\ c \in Executions /\ tasks[r] = c[2]
  BY ActingParts
<1>2. st \in StatusRecord /\ st.paused = status[r].paused
  BY <1>1 DEF StatusRecord, States, Errors
<1>3. UNCHANGED <<workspaceVars, batch, closing>> /\ batch' = NoBatch
  BY DEF Unavailable, LoopIsFree
<1>4. RunsGoOn
  BY <1>3 DEF RunsGoOn, workspaceVars
<1>5. CASE /\ status' = [status EXCEPT ![r] = st]
           /\ exec' = [exec EXCEPT ![c] = [Idling EXCEPT
                         !.at = "sleep", !.failures = Min({n, MaxFailures})]]
           /\ UNCHANGED tasks
  <2> DEFINE e == [Idling EXCEPT !.at = "sleep", !.failures = Min({n, MaxFailures})]
  <2>1. n \in Nat /\ MaxFailures \in Nat
    BY <1>1, CoordinatorAssumption DEF ExecRecord
  <2>2. Min({n, MaxFailures}) \in 0..MaxFailures
    <3>1. \/ n <= MaxFailures /\ \A y \in {n, MaxFailures} : n <= y
          \/ MaxFailures <= n /\ \A y \in {n, MaxFailures} : MaxFailures <= y
      BY <2>1
    <3>2. /\ Min({n, MaxFailures}) \in {n, MaxFailures}
          /\ \A y \in {n, MaxFailures} : Min({n, MaxFailures}) <= y
      BY <3>1 DEF Min
    <3>3. QED
      BY <2>1, <3>2
  <2>3. e \in ExecRecord /\ e.at = "sleep"
    BY <2>2 DEF Idling, ExecRecord, Places, States, Terminal
  <2>4. exec' = [exec EXCEPT ![c] = e]
    BY <1>5
  <2>5. "sleep" \in Live
    BY DEF Live, Places
  <2> HIDE DEF e, st
  <2>6. Moved(c)
    BY <1>2, <1>3, <1>5, <2>3, <2>4, <2>5 DEF Moved
  <2>7. QED
    BY <1>3, <1>4, <2>6, NoBatchFits
<1>6. CASE /\ status' = [status EXCEPT ![r] = paused]
           /\ End(c)
           /\ tasks' = Released(c)
  <2>1. paused \in StatusRecord /\ paused.paused
    <3> HIDE DEF st
    <3>1. QED
      BY <1>2 DEF StatusRecord
  <2>2. tasks' = [tasks EXCEPT ![r] = Null]
    BY <1>1, <1>6 DEF Released
  <2> HIDE DEF paused
  <2>3. Ended(c)
    BY <1>3, <1>4, <1>6, <2>1, <2>2 DEF Ended, End
  <2>4. QED
    BY <1>3, <2>3, NoBatchFits
<1>7. QED
  BY <1>5, <1>6 DEF Unavailable

(* Every step of an execution keeps the control, and its batch fits.       *)
LEMMA ExecutionMoves ==
  ASSUME Coordinated, NEW c \in Executions, Execution(c)
  PROVE  ((Moved(c) /\ RunsGoOn) \/ Ended(c)) /\ BatchFits' /\ Acting(c)
<1>1. \A place \in {"begin", "ready", "submit", "cancel", "status", "page", "sleep", "abort"} :
        place \in Live
  BY DEF Live, Places
<1>2. CASE LoopIsFree /\ Begin(c)
  <2>1. Acting(c)
    BY <1>1, <1>2, FreeActs DEF Begin
  <2>2. QED
    BY <1>2, <2>1, CachedFits
<1>3. CASE LoopIsFree /\ Call(c)
  <2>1. Acting(c)
    BY <1>1, <1>3, FreeActs DEF Call
  <2>2. CASE Answered(c)
    BY <1>3, <2>1, <2>2, AnsweredMoves
  <2>3. CASE Unavailable(c)
    BY <1>3, <2>1, <2>3, UnavailableMoves
  <2>4. CASE Refused(c)
    <3>1. PICK error \in {"refused", "lost"} : Raise(c, error)
      BY <2>4 DEF Refused
    <3>2. error \in Errors
      BY DEF Errors
    <3>3. QED
      BY <2>1, <3>1, <3>2, RaiseMoves
  <2>5. QED
    BY <1>3, <2>1, <2>2, <2>3, <2>4 DEF Call
<1>4. CASE LoopIsFree /\ Abort(c)
  <2>1. Acting(c)
    BY <1>1, <1>4, FreeActs DEF Abort
  <2>2. /\ Start(c, "failed", Unfinished(c[1]), 0)
        /\ UNCHANGED <<workspaceVars, status, tasks, closing>>
    BY <1>4 DEF Abort
  <2>3. /\ Unfinished(c[1]) \in Seq(Outcome) /\ 0 \in 0..Cardinality(Configs)
        /\ BatchFits' /\ RunsGoOn
    BY <2>1, <2>2, UnfinishedFits DEF workspaceVars, RunsGoOn
  <2>4. status' = [status EXCEPT ![c[1]] = status[c[1]]] /\ status[c[1]] \in StatusRecord
    BY <2>1, <2>2, SameStatus, ActingParts
  <2>5. QED
    BY <2>1, <2>2, <2>3, <2>4, StartMoves
<1>5. CASE LoopIsFree /\ Wake(c)
  <2>1. Acting(c)
    BY <1>1, <1>5, FreeActs DEF Wake
  <2>2. status[c[1]] \in StatusRecord /\ Onward(c, status[c[1]])
    BY <1>5, <2>1, ActingParts DEF Wake
  <2>3. QED
    BY <2>1, <2>2, OnwardMoves
<1>6. CASE CompleteOne(c)
  BY <1>6, CompleteOneMoves, OwnerActs DEF CompleteOne
<1>7. CASE BatchDone(c)
  BY <1>7, BatchDoneMoves, OwnerActs DEF BatchDone
<1>8. QED
  BY <1>2, <1>3, <1>4, <1>5, <1>6, <1>7 DEF Execution

-----------------------------------------------------------------------------
(* The requests keep the control                                           *)

LEMMA ControlParts ==
  ASSUME Coordinated
  PROVE  /\ PartsOK /\ BatchOwned
         /\ \A r \in Runs : WorksAlone(r) /\ Served(r) /\ Untouched(r)
         /\ WorkspaceTypeOK
         /\ nextRun \in Int /\ \A r \in Runs : r \in Int
         /\ \A r \in DOMAIN runs : r \in Runs /\ r < nextRun
<1>1. WorkspaceTypeOK /\ RunsNumbered
  BY DEF Coordinated, Consistent
<1>2. nextRun \in Int /\ \A r \in Runs : r \in Int
  BY <1>1, WorkspaceAssumption DEF WorkspaceTypeOK, Runs
<1>3. \A r \in DOMAIN runs : r \in Runs /\ r < nextRun
  BY <1>1 DEF WorkspaceTypeOK, RunsNumbered
<1>4. QED
  BY <1>1, <1>2, <1>3 DEF Coordinated, Control

RouteFrame ==
  /\ LoopIsFree /\ UNCHANGED <<batch, closing>>
  /\ status' \in [Runs -> StatusRecord]
  /\ \A r \in Runs : r \notin DOMAIN runs' => status'[r] = NewStatus
  /\ nextRun' \in {nextRun, nextRun + 1}
  /\ ActiveRuns \subseteq ActiveRuns'

LEMMA RouteKeepsControl ==
  ASSUME Coordinated, RouteFrame, UNCHANGED <<tasks, exec>>, ActiveRuns' = ActiveRuns,
         \A r \in ActiveRuns : status'[r].paused = status[r].paused
  PROVE  Control'
<1>1. /\ PartsOK /\ BatchOwned
      /\ \A r \in Runs : WorksAlone(r) /\ Served(r) /\ Untouched(r)
      /\ nextRun \in Int /\ \A r \in Runs : r \in Int
  BY ControlParts
<1>2. PartsOK'
  BY <1>1 DEF PartsOK, RouteFrame
<1>3. BatchOwned'
  BY <1>1 DEF BatchOwned, RouteFrame
<1>4. ASSUME NEW r \in Runs PROVE (WorksAlone(r) /\ Served(r) /\ Untouched(r))'
  <2>1. WorksAlone(r)' /\ Served(r)'
    BY <1>1 DEF WorksAlone, Served, RouteFrame
  <2>2. nextRun' <= r => nextRun <= r
    BY <1>1 DEF RouteFrame
  <2>3. Untouched(r)'
    BY <1>1, <2>2 DEF Untouched, RouteFrame
  <2>4. QED
    BY <2>1, <2>3
<1>5. QED
  BY <1>2, <1>3, <1>4 DEF Control

LEMMA LaunchPicks ==
  ASSUME NEW r \in Runs, Launch(r)
  PROVE  \E s \in Slots : /\ exec[<<r, s>>].at = "idle"
                          /\ tasks' = [tasks EXCEPT ![r] = s]
                          /\ exec' = [exec EXCEPT ![<<r, s>>] = [Idling EXCEPT !.at = "begin"]]
<1>1. PICK s \in Slots :
        /\ s = Min({t \in Slots : exec[<<r, t>>].at = "idle"} \cup {3})
        /\ tasks' = [tasks EXCEPT ![r] = s]
        /\ exec' = [exec EXCEPT ![<<r, s>>] = [Idling EXCEPT !.at = "begin"]]
  BY DEF Launch
<1> DEFINE free == {t \in Slots : exec[<<r, t>>].at = "idle"} \cup {3}
<1>2. free \subseteq {1, 2, 3} /\ 3 \in free
  BY DEF Slots
<1>3. \E x \in free : \A y \in free : x <= y
  <2> HIDE DEF free
  <2>1. CASE 1 \in free
    <3>1. \A y \in free : 1 <= y
      BY <1>2
    <3>2. QED
      BY <2>1, <3>1
  <2>2. CASE 1 \notin free /\ 2 \in free
    <3>1. \A y \in free : 2 <= y
      BY <1>2, <2>2
    <3>2. QED
      BY <2>2, <3>1
  <2>3. CASE 1 \notin free /\ 2 \notin free
    <3>1. \A y \in free : 3 <= y
      BY <1>2, <2>3
    <3>2. QED
      BY <1>2, <3>1
  <2>4. QED
    BY <2>1, <2>2, <2>3
<1>4. Min(free) \in free
  BY <1>3 DEF Min
<1>5. s # 3
  BY DEF Slots
<1>6. QED
  BY <1>1, <1>4, <1>5

LEMMA LaunchKeepsControl ==
  ASSUME Coordinated, RouteFrame, NEW r \in Runs, Launch(r), tasks[r] = Null,
         ActiveRuns' \subseteq ActiveRuns \cup {r}, r \in ActiveRuns',
         ~status'[r].paused, r < nextRun',
         \A q \in ActiveRuns \ {r} : status'[q].paused = status[q].paused
  PROVE  Control'
<1>1. /\ PartsOK /\ BatchOwned
      /\ \A q \in Runs : WorksAlone(q) /\ Served(q) /\ Untouched(q)
      /\ nextRun \in Int /\ \A q \in Runs : q \in Int
  BY ControlParts
<1> DEFINE begin == [Idling EXCEPT !.at = "begin"]
<1>2. PICK s \in Slots : /\ exec[<<r, s>>].at = "idle"
                         /\ tasks' = [tasks EXCEPT ![r] = s]
                         /\ exec' = [exec EXCEPT ![<<r, s>>] = begin]
  BY LaunchPicks
<1>3. begin \in ExecRecord /\ begin.at = "begin"
  <2>1. MaxFailures \in Nat
    BY CoordinatorAssumption
  <2>2. QED
    BY <2>1 DEF Idling, ExecRecord, Places, States, Terminal
<1>4. "begin" \in Live
  BY DEF Live, Places
<1> HIDE DEF begin
<1>5. <<r, s>> \in Executions /\ s # Null
  BY CoordinatorAssumption DEF Executions, Slots
<1>6. PartsOK'
  BY <1>1, <1>2, <1>3, <1>5 DEF PartsOK, RouteFrame
<1>7. exec'[<<r, s>>] = begin /\ tasks'[r] = s
  BY <1>1, <1>2, <1>5 DEF PartsOK
<1>8. BatchOwned'
  <2>1. \A d \in Executions : d # <<r, s>> => exec'[d] = exec[d]
    BY <1>1, <1>2 DEF PartsOK
  <2>2. batch' = batch
    BY DEF RouteFrame
  <2>3. batch.by # <<r, s>>
    BY <1>1, <1>2, <1>5 DEF BatchOwned
  <2>4. QED
    BY <1>1, <1>3, <1>7, <2>1, <2>2, <2>3 DEF BatchOwned
<1>9. ASSUME NEW q \in Runs PROVE (WorksAlone(q) /\ Served(q) /\ Untouched(q))'
  <2>1. WorksAlone(q) /\ Served(q) /\ Untouched(q) /\ tasks[q] \in Slots \cup {Null}
    BY <1>1 DEF PartsOK
  <2>2. \A t \in Slots : q # r \/ t # s => exec'[<<q, t>>] = exec[<<q, t>>]
    <3>1. \A t \in Slots : <<q, t>> \in Executions
      BY DEF Executions
    <3>2. \A t \in Slots : q # r \/ t # s => <<q, t>> # <<r, s>>
      OBVIOUS
    <3>3. QED
      BY <1>1, <1>2, <3>1, <3>2 DEF PartsOK
  <2>3. nextRun' <= q => nextRun <= q
    BY <1>1 DEF RouteFrame
  <2>4. CASE q = r
    <3>1. \A t \in Slots : exec[<<r, t>>].at \notin Live
      <4>1. \A t \in Slots : t # Null
        BY CoordinatorAssumption DEF Slots
      <4>2. QED
        BY <2>1, <2>4, <4>1 DEF WorksAlone
    <3>2. WorksAlone(q)'
      BY <1>3, <1>7, <2>2, <2>4, <3>1 DEF WorksAlone
    <3>3. Served(q)'
      BY <1>3, <1>4, <1>5, <1>7, <2>4 DEF Served
    <3>4. r \in DOMAIN runs' /\ ~(nextRun' <= r)
      BY <1>1 DEF ActiveRuns, RouteFrame
    <3>5. QED
      BY <2>4, <3>2, <3>3, <3>4 DEF Untouched
  <2>5. CASE q # r
    <3>1. \A t \in Slots : exec'[<<q, t>>] = exec[<<q, t>>]
      BY <2>2, <2>5
    <3>2. tasks'[q] = tasks[q] /\ closing' = closing
      BY <1>2, <2>5 DEF RouteFrame
    <3>3. (q \in ActiveRuns)' <=> q \in ActiveRuns
      BY <2>5 DEF RouteFrame
    <3>4. WorksAlone(q)' /\ Served(q)'
      BY <2>1, <2>5, <3>1, <3>2, <3>3 DEF WorksAlone, Served
    <3>5. Untouched(q)'
      BY <2>1, <2>3, <3>1, <3>2 DEF Untouched, RouteFrame
    <3>6. QED
      BY <3>4, <3>5
  <2>6. QED
    BY <2>4, <2>5
<1>10. QED
  BY <1>6, <1>8, <1>9 DEF Control

LEMMA StayingRuns ==
  ASSUME RunsStay
  PROVE  ActiveRuns' = ActiveRuns
  BY DEF RunsStay, SameRun, ActiveRuns, Active

LEMMA NewStatusType == NewStatus \in StatusRecord
<1>1. Cardinality(Configs) \in Nat
  BY FS_CardinalityType, WorkspaceAssumption
<1>2. QED
  BY <1>1 DEF NewStatus, StatusRecord, States, Errors

LEMMA FreeBatchFits ==
  ASSUME LoopIsFree, UNCHANGED batch
  PROVE  BatchFits'
  BY NoBatchFits DEF LoopIsFree

LEMMA StatusOfRunsType ==
  ASSUME Coordinated, status' = StatusOfRuns
  PROVE  /\ status' \in [Runs -> StatusRecord]
         /\ \A r \in Runs : r \notin DOMAIN runs' => status'[r] = NewStatus
         /\ \A r \in Runs : r \in DOMAIN runs' => status'[r] = status[r]
  BY ControlParts, NewStatusType DEF StatusOfRuns, PartsOK

LEMMA AdmitKeepsControl ==
  ASSUME Coordinated, LoopIsFree, NEW w, NEW ks, NEW intent, Admit(w, ks, intent)
  PROVE  Control'
<1> DEFINE ts == workspaces[w].current
<1>1. /\ nextRun \in Runs /\ Register(w, ts, ks, intent)
      /\ IF nextRun' = nextRun THEN UNCHANGED <<tasks, exec>> ELSE Launch(nextRun)
      /\ status' = StatusOfRuns /\ UNCHANGED <<batch, closing>>
  BY DEF Admit
<1>2. /\ status' \in [Runs -> StatusRecord]
      /\ \A r \in Runs : r \notin DOMAIN runs' => status'[r] = NewStatus
      /\ \A r \in Runs : r \in DOMAIN runs' => status'[r] = status[r]
  BY <1>1, StatusOfRunsType
<1>3. /\ WorkspaceTypeOK /\ nextRun \in Int
      /\ \A r \in Runs : Untouched(r) /\ r \in Int
      /\ \A r \in DOMAIN runs : r \in Runs /\ r < nextRun
  BY ControlParts
<1>4. CASE RunsStay
  <2>1. ActiveRuns' = ActiveRuns /\ nextRun' = nextRun
    BY <1>4, StayingRuns DEF RunsStay
  <2>2. \A r \in ActiveRuns : r \in DOMAIN runs' /\ r \in Runs
    BY <1>3, <1>4 DEF RunsStay, ActiveRuns
  <2>3. RouteFrame
    BY <1>1, <1>2, <2>1 DEF RouteFrame
  <2>4. UNCHANGED <<tasks, exec>>
    BY <1>1, <2>1
  <2>5. QED
    BY <1>2, <2>1, <2>2, <2>3, <2>4, RouteKeepsControl
<1>5. CASE /\ nextRun' = nextRun + 1
           /\ nextRun \in DOMAIN runs'
           /\ runs'[nextRun] = NewRun(w, ts, ks, intent)
           /\ \A r \in DOMAIN runs' \ {nextRun} : r \in DOMAIN runs /\ runs'[r] = runs[r]
           /\ ActiveRuns \subseteq DOMAIN runs'
  <2>1. ~runs'[nextRun].over
    BY <1>5 DEF NewRun
  <2>2. nextRun \notin DOMAIN runs
    BY <1>3
  <2>3. /\ ActiveRuns \subseteq ActiveRuns' /\ nextRun \in ActiveRuns'
        /\ ActiveRuns' \subseteq ActiveRuns \cup {nextRun}
    BY <1>5, <2>1, <2>2 DEF ActiveRuns, Active
  <2>4. RouteFrame
    BY <1>1, <1>2, <1>5, <2>3 DEF RouteFrame
  <2>5. tasks[nextRun] = Null /\ status[nextRun] = NewStatus
    BY <1>1, <1>3, <2>2 DEF Untouched
  <2>6. ~status'[nextRun].paused
    BY <1>1, <1>2, <1>5, <2>5 DEF NewStatus
  <2>7. Launch(nextRun) /\ nextRun < nextRun'
    BY <1>1, <1>3, <1>5
  <2>8. \A r \in ActiveRuns : status'[r] = status[r]
    BY <1>2, <1>3, <1>5 DEF ActiveRuns
  <2>9. QED
    BY <1>1, <2>3, <2>4, <2>5, <2>6, <2>7, <2>8, LaunchKeepsControl
<1>6. QED
  BY <1>1, <1>3, <1>4, <1>5, RegisterStays

(* A request changes the status of a running run and launches an execution *)
(* unless one is known.                                                    *)
LEMMA RelaunchKeepsControl ==
  ASSUME Coordinated, LoopIsFree, RunsStay, DOMAIN runs' = DOMAIN runs,
         NEW r \in ActiveRuns,
         NEW st \in StatusRecord, status' = [status EXCEPT ![r] = st], ~st.paused,
         UNCHANGED <<batch, closing>>,
         LaunchUnlessRunning(r)
  PROVE  Control'
<1>1. /\ PartsOK /\ nextRun \in Int /\ \A q \in Runs : q \in Int
      /\ \A q \in Runs : Served(q) /\ Untouched(q)
      /\ \A q \in DOMAIN runs : q \in Runs /\ q < nextRun
  BY ControlParts
<1>2. r \in Runs /\ r \in DOMAIN runs /\ r < nextRun
  BY <1>1 DEF ActiveRuns
<1>3. ActiveRuns' = ActiveRuns /\ nextRun' = nextRun
  BY StayingRuns DEF RunsStay
<1>4. status'[r] = st /\ \A q \in Runs \ {r} : status'[q] = status[q]
  BY <1>1, <1>2 DEF PartsOK
<1>5. RouteFrame
  BY <1>1, <1>2, <1>3, <1>4 DEF RouteFrame, PartsOK, Untouched
<1>6. \A q \in ActiveRuns \ {r} : status'[q].paused = status[q].paused
  BY <1>1, <1>4 DEF ActiveRuns
<1>7. CASE tasks[r] = Null
  BY <1>2, <1>3, <1>4, <1>5, <1>6, <1>7, LaunchKeepsControl DEF LaunchUnlessRunning
<1>8. CASE tasks[r] # Null
  <2>1. UNCHANGED <<tasks, exec>>
    BY <1>8 DEF LaunchUnlessRunning
  <2>2. status[r].paused \in BOOLEAN /\ st.paused \in BOOLEAN
    BY <1>1, <1>2 DEF PartsOK, StatusRecord
  <2>3. ~status[r].paused
    BY <1>1, <1>2, <1>8 DEF Served
  <2>4. status'[r].paused = status[r].paused
    BY <1>4, <2>2, <2>3
  <2>5. QED
    BY <1>3, <1>5, <1>6, <2>1, <2>4, RouteKeepsControl
<1>9. QED
  BY <1>7, <1>8

LEMMA RequestCancelStatus ==
  ASSUME Coordinated, NEW r \in ActiveRuns, RequestCancel(r)
  PROVE  \E st \in StatusRecord :
           /\ status' = [status EXCEPT ![r] = st]
           /\ ~st.paused /\ st.cancel /\ st.state = "cancelling"
           /\ st.job = status[r].job /\ st.error = status[r].error
           /\ st.cursor = status[r].cursor
<1>1. /\ r \in Runs /\ status[r] \in StatusRecord /\ Served(r)
      /\ status \in [Runs -> StatusRecord]
  BY ControlParts DEF ActiveRuns, PartsOK
<1> DEFINE st == [status[r] EXCEPT !.cancel = TRUE, !.state = "cancelling",
                                   !.paused = @ /\ tasks[r] # Null]
<1>2. status' = [status EXCEPT ![r] = st]
  BY <1>1 DEF RequestCancel
<1>3. (status[r].paused /\ tasks[r] # Null) = FALSE
  BY <1>1 DEF Served
<1>4. st = [status[r] EXCEPT !.cancel = TRUE, !.state = "cancelling", !.paused = FALSE]
  BY <1>3
<1>5. /\ st \in StatusRecord /\ st.paused = FALSE /\ st.cancel = TRUE
      /\ st.state = "cancelling"
      /\ st.job = status[r].job /\ st.error = status[r].error
      /\ st.cursor = status[r].cursor
  BY <1>1, <1>4 DEF StatusRecord, States
<1> HIDE DEF st
<1>6. QED
  BY <1>2, <1>5

LEMMA RequestsKeepControl ==
  ASSUME Coordinated, Requests
  PROVE  Control' /\ BatchFits'
<1>1. ASSUME NEW r \in ActiveRuns, LoopIsFree, RequestCancel(r),
             RunsStay, DOMAIN runs' = DOMAIN runs, UNCHANGED <<batch, closing>>
      PROVE  Control' /\ BatchFits'
  <2>1. PICK st \in StatusRecord : status' = [status EXCEPT ![r] = st] /\ ~st.paused
    BY <1>1, RequestCancelStatus
  <2>2. LaunchUnlessRunning(r)
    BY <1>1 DEF RequestCancel
  <2>3. QED
    BY <1>1, <2>1, <2>2, RelaunchKeepsControl, FreeBatchFits
<1>2. ASSUME NEW w, NEW ks, NEW intent, LoopIsFree, Admit(w, ks, intent)
      PROVE  Control' /\ BatchFits'
  BY <1>2, AdmitKeepsControl, FreeBatchFits DEF Admit
<1>3. ASSUME NEW w, NEW source, NEW ks, StartInteractive(w, source, ks)
      PROVE  Control' /\ BatchFits'
  <2>1. CASE Admit(w, ks, "interactive")
    BY <1>2, <1>3, <2>1 DEF StartInteractive, Serving
  <2>2. CASE \E r \in Owned(w) \cap ActiveRuns :
               /\ Supersede(r) /\ RequestCancel(r)
               /\ UNCHANGED <<batch, closing, serviceVars>>
    <3>1. PICK r \in Owned(w) \cap ActiveRuns :
            /\ Supersede(r) /\ RequestCancel(r) /\ UNCHANGED <<batch, closing>>
      BY <2>2
    <3>2. r \in DOMAIN runs /\ r \in ActiveRuns
      BY DEF ActiveRuns
    <3>3. RunsStay
      BY <3>1, <3>2, ControlParts, MarksStay
    <3>4. DOMAIN runs' = DOMAIN runs
      BY <3>1 DEF Supersede
    <3>5. QED
      BY <1>1, <1>3, <3>1, <3>2, <3>3, <3>4 DEF StartInteractive, Serving
  <2>3. QED
    BY <1>3, <2>1, <2>2 DEF StartInteractive
<1>4. ASSUME NEW r \in DOMAIN runs, CancelRun(r) PROVE Control' /\ BatchFits'
  <2>1. /\ LoopIsFree /\ Active(r) /\ RequestCancel(r)
        /\ UNCHANGED <<workspaceVars, batch, closing>>
    BY <1>4 DEF CancelRun, Serving
  <2>2. r \in ActiveRuns /\ RunsStay /\ DOMAIN runs' = DOMAIN runs
    BY <2>1, UnchangedStay DEF ActiveRuns, workspaceVars
  <2>3. QED
    BY <1>1, <2>1, <2>2
<1>5. ASSUME NEW r \in DOMAIN runs, Resume(r) PROVE Control' /\ BatchFits'
  <2> DEFINE st == [status[r] EXCEPT !.paused = FALSE]
  <2>1. /\ LoopIsFree /\ Active(r) /\ tasks[r] = Null /\ Launch(r)
        /\ status' = [status EXCEPT ![r] = st]
        /\ UNCHANGED <<workspaceVars, batch, closing>>
    BY <1>5 DEF Resume, Serving
  <2>2. r \in ActiveRuns /\ RunsStay /\ DOMAIN runs' = DOMAIN runs
    BY <2>1, UnchangedStay DEF ActiveRuns, workspaceVars
  <2>3. st \in StatusRecord /\ ~st.paused
    BY ControlParts DEF PartsOK, StatusRecord
  <2>4. LaunchUnlessRunning(r)
    BY <2>1 DEF LaunchUnlessRunning
  <2> HIDE DEF st
  <2>5. QED
    BY <2>1, <2>2, <2>3, <2>4, RelaunchKeepsControl, FreeBatchFits
<1>6. CASE StoreRoutes
  <2>1. LoopIsFree /\ status' = StatusOfRuns /\ UNCHANGED <<tasks, exec, batch, closing>>
    BY <1>6 DEF StoreRoutes, Serving
  <2>2. RunsStay
    BY <1>6, ControlParts, StoreOperationsStay DEF StoreRoutes, StoreOperations
  <2>3. ActiveRuns' = ActiveRuns /\ nextRun' = nextRun
    BY <2>2, StayingRuns DEF RunsStay
  <2>4. /\ status' \in [Runs -> StatusRecord]
        /\ \A r \in Runs : r \notin DOMAIN runs' => status'[r] = NewStatus
        /\ \A r \in Runs : r \in DOMAIN runs' => status'[r] = status[r]
    BY <2>1, StatusOfRunsType
  <2>5. \A r \in ActiveRuns : r \in Runs /\ r \in DOMAIN runs'
    BY <2>2, ControlParts DEF RunsStay, ActiveRuns
  <2>6. RouteFrame
    BY <2>1, <2>3, <2>4 DEF RouteFrame
  <2>7. QED
    BY <2>1, <2>3, <2>4, <2>5, <2>6, RouteKeepsControl, FreeBatchFits
<1>7. QED
  BY <1>2, <1>3, <1>4, <1>5, <1>6 DEF Requests, StartManual, Serving

-----------------------------------------------------------------------------
(* The other steps keep the control                                        *)

LEMMA CallbackKeepsControl ==
  ASSUME Coordinated, NEW c \in Executions, Callback(c)
  PROVE  Control' /\ BatchFits'
<1> DEFINE r == c[1]
<1>1. /\ LoopIsFree /\ exec[c].at = "over"
      /\ exec' = [exec EXCEPT ![c] = Idling]
      /\ tasks' = Released(c)
      /\ UNCHANGED <<workspaceVars, status, batch, closing>>
  BY DEF Callback, Forgotten
<1>2. r \in Runs /\ c[2] \in Slots /\ c = <<c[1], c[2]>>
  BY DEF Executions
<1>3. /\ PartsOK /\ BatchOwned
      /\ \A q \in Runs : WorksAlone(q) /\ Served(q) /\ Untouched(q)
  BY ControlParts
<1>4. Idling \in ExecRecord /\ Idling.at = "idle"
  <2>1. MaxFailures \in Nat
    BY CoordinatorAssumption
  <2>2. QED
    BY <2>1 DEF Idling, ExecRecord, Places, States
<1>5. tasks' \in [Runs -> Slots \cup {Null}]
  BY <1>1, <1>2, <1>3 DEF Released, PartsOK
<1>6. PartsOK'
  BY <1>1, <1>3, <1>4, <1>5 DEF PartsOK
<1>7. exec'[c] = Idling /\ \A d \in Executions \ {c} : exec'[d] = exec[d]
  BY <1>1, <1>3 DEF PartsOK
<1>8. BatchOwned'
  BY <1>1, <1>3, <1>4, <1>7 DEF BatchOwned
<1>9. ASSUME NEW q \in Runs PROVE (WorksAlone(q) /\ Served(q) /\ Untouched(q))'
  <2>1. /\ WorksAlone(q) /\ Served(q) /\ Untouched(q)
        /\ runs' = runs /\ nextRun' = nextRun /\ ActiveRuns' = ActiveRuns
        /\ status' = status /\ closing' = closing
    BY <1>1, <1>3 DEF workspaceVars, ActiveRuns, Active
  <2>2. \A s \in Slots : q # r \/ s # c[2] => exec'[<<q, s>>] = exec[<<q, s>>]
    <3>1. \A s \in Slots : <<q, s>> \in Executions
      BY DEF Executions
    <3>2. \A s \in Slots : q # r \/ s # c[2] => <<q, s>> # c
      BY <1>2, OtherPairs
    <3>3. QED
      BY <1>7, <3>1, <3>2
  <2>3. CASE q # r
    <3>1. tasks'[q] = tasks[q] /\ tasks[q] \in Slots \cup {Null}
      BY <1>1, <1>2, <1>3, <2>3 DEF Released, PartsOK
    <3>2. \A s \in Slots : exec'[<<q, s>>] = exec[<<q, s>>]
      BY <2>2, <2>3
    <3>3. QED
      BY <2>1, <3>1, <3>2 DEF WorksAlone, Served, Untouched
  <2>4. CASE q = r
    <3>1. "idle" \notin Live /\ "over" \notin Live
      BY DEF Live
    <3>2. \/ tasks[q] = c[2] /\ tasks'[q] = Null
          \/ tasks[q] # c[2] /\ tasks'[q] = tasks[q]
      BY <1>1, <1>2, <1>3, <2>4 DEF Released, PartsOK
    <3>3. tasks[q] \in Slots \cup {Null} /\ c[2] # Null
      BY <1>2, <1>3, CoordinatorAssumption DEF PartsOK, Slots
    <3>4. WorksAlone(q)'
      <4>1. \A s \in Slots : exec'[<<q, s>>].at \in Live => s # c[2] /\ exec[<<q, s>>].at \in Live
        BY <1>2, <1>4, <1>7, <2>2, <2>4, <3>1
      <4>2. \A s \in Slots : exec'[<<q, s>>].at \in Live => tasks'[q] = s /\ q \in ActiveRuns'
        BY <2>1, <3>2, <4>1 DEF WorksAlone
      <4>3. tasks'[q] # Null => exec'[<<q, tasks'[q]>>].at # "idle"
        BY <2>1, <2>2, <3>2, <3>3 DEF WorksAlone
      <4>4. QED
        BY <4>2, <4>3 DEF WorksAlone
    <3>5. Served(q)'
      <4>1. SUFFICES ASSUME q \in ActiveRuns, closing = "open", ~status[q].paused
                     PROVE  tasks'[q] # Null /\ exec'[<<q, tasks'[q]>>].at \in Live
        BY <2>1, <3>2 DEF Served
      <4>2. tasks[q] # Null /\ exec[<<q, tasks[q]>>].at \in Live
        BY <2>1, <4>1 DEF Served
      <4>3. tasks[q] # c[2]
        BY <1>1, <1>2, <2>4, <3>1, <4>2
      <4>4. QED
        BY <2>2, <3>2, <3>3, <4>2, <4>3
    <3>6. Untouched(q)'
      <4>1. nextRun <= q => \A s \in Slots : exec'[<<q, s>>] = Idling
        BY <1>2, <1>7, <2>1, <2>2, <2>4 DEF Untouched
      <4>2. QED
        BY <2>1, <3>2, <4>1 DEF Untouched
    <3>7. QED
      BY <3>4, <3>5, <3>6
  <2>5. QED
    BY <2>3, <2>4
<1>10. QED
  BY <1>1, <1>6, <1>8, <1>9, FreeBatchFits DEF Control

LEMMA FinishCloseKeepsControl ==
  ASSUME Coordinated, FinishClose
  PROVE  Control' /\ BatchFits'
<1>1. /\ LoopIsFree /\ closing' = "closed"
      /\ tasks' = [r \in Runs |-> Null]
      /\ exec' = [c \in Executions |-> Idling]
      /\ UNCHANGED <<workspaceVars, status, batch>>
  BY DEF FinishClose
<1>2. /\ PartsOK /\ \A q \in Runs : Served(q) /\ Untouched(q)
  BY ControlParts
<1>3. Idling \in ExecRecord /\ Idling.at = "idle"
  <2>1. MaxFailures \in Nat
    BY CoordinatorAssumption
  <2>2. QED
    BY <2>1 DEF Idling, ExecRecord, Places, States
<1>4. PartsOK'
  BY <1>1, <1>2, <1>3 DEF PartsOK
<1>5. BatchOwned'
  <2>1. batch' = NoBatch /\ batch'.by = Null
    BY <1>1 DEF LoopIsFree, NoBatch
  <2>2. \A c \in Executions : c # Null
    BY CoordinatorAssumption DEF Executions, Slots
  <2>3. QED
    BY <1>1, <1>3, <2>1, <2>2 DEF BatchOwned
<1>6. ASSUME NEW q \in Runs PROVE (WorksAlone(q) /\ Served(q) /\ Untouched(q))'
  <2>1. tasks'[q] = Null /\ \A s \in Slots : exec'[<<q, s>>] = Idling
    BY <1>1 DEF Executions
  <2>2. "idle" \notin Live
    BY DEF Live
  <2>3. QED
    BY <1>1, <1>2, <1>3, <2>1, <2>2 DEF WorksAlone, Served, Untouched, workspaceVars
<1>7. QED
  BY <1>1, <1>4, <1>5, <1>6, FreeBatchFits DEF Control

(* Steps that leave the coordinator alone, or only begin to close.         *)
LEMMA QuietKeepsControl ==
  ASSUME Coordinated, UNCHANGED <<workspaceVars, status, tasks, exec, batch>>,
         \/ closing' = closing
         \/ closing' = "closing"
  PROVE  Control' /\ BatchFits'
<1>1. /\ PartsOK /\ BatchOwned /\ BatchFits
      /\ \A q \in Runs : WorksAlone(q) /\ Served(q) /\ Untouched(q)
  BY ControlParts DEF Coordinated, Data
<1>2. runs' = runs /\ nextRun' = nextRun /\ ActiveRuns' = ActiveRuns
  BY DEF workspaceVars, ActiveRuns, Active
<1>3. PartsOK' /\ BatchOwned'
  BY <1>1 DEF PartsOK, BatchOwned
<1>4. ASSUME NEW q \in Runs PROVE (WorksAlone(q) /\ Served(q) /\ Untouched(q))'
  BY <1>1, <1>2 DEF WorksAlone, Served, Untouched
<1>5. BatchFits'
  BY <1>1, <1>2 DEF BatchFits, TodoKeys, Pending
<1>6. QED
  BY <1>3, <1>4, <1>5 DEF Control

LEMMA ControlStep ==
  ASSUME Coordinated, [Next]_vars
  PROVE  Control' /\ BatchFits'
<1>1. CASE Requests
  BY <1>1, RequestsKeepControl
<1>2. ASSUME NEW c \in Executions, Execution(c) PROVE Control' /\ BatchFits'
  <2>1. /\ (Moved(c) /\ RunsGoOn) \/ Ended(c)
        /\ BatchFits' /\ Acting(c)
    BY <1>2, ExecutionMoves
  <2>2. QED
    BY <2>1, MovedKeepsControl, EndedKeepsControl
<1>3. ASSUME NEW c \in Executions, Callback(c) PROVE Control' /\ BatchFits'
  BY <1>3, CallbackKeepsControl
<1>4. CASE BeginClose
  BY <1>4, QuietKeepsControl DEF BeginClose
<1>5. CASE FinishClose
  BY <1>5, FinishCloseKeepsControl
<1>6. ASSUME NEW r, CloseCancel(r) PROVE Control' /\ BatchFits'
  BY <1>6, QuietKeepsControl DEF CloseCancel, coordinatorVars
<1>7. CASE SimulationService
  BY <1>7, QuietKeepsControl
  DEF SimulationService, ServiceAnswers, ServiceForgets, ServiceRestarts, coordinatorVars
<1>8. CASE UNCHANGED vars
  BY <1>8, QuietKeepsControl DEF vars, coordinatorVars
<1>9. QED
  BY <1>1, <1>2, <1>3, <1>4, <1>5, <1>6, <1>7, <1>8 DEF Next

-----------------------------------------------------------------------------
(* What a run asked for stands, and the service keeps its contract         *)

(* A run that stays asks for the same; another one is new.                 *)
Stands(r) ==
  \/ /\ r \in DOMAIN runs
     /\ runs'[r].keys = runs[r].keys /\ runs'[r].missing = runs[r].missing
     /\ runs'[r].taskSet = runs[r].taskSet
  \/ /\ r = nextRun
     /\ \E w, ts, intent : \E ks \in Selections(ts) :
          runs'[r] = NewRun(w, ts, ks, intent)

LEMMA RequestsStand ==
  ASSUME WorkspaceTypeOK, [WorkspaceNext]_workspaceVars
  PROVE  /\ nextRun' \in {nextRun, nextRun + 1}
         /\ \A r \in DOMAIN runs' : Stands(r)
<1> DEFINE Goal == /\ nextRun' \in {nextRun, nextRun + 1}
                   /\ \A r \in DOMAIN runs' : Stands(r)
<1>1. CASE RunsStay
  BY <1>1 DEF RunsStay, SameRun, Stands
<1>2. ASSUME NEW r \in DOMAIN runs, NEW new, RunBecomes(r, new) PROVE Goal
  BY <1>2 DEF RunBecomes, Stands
<1>3. CASE StoreOperations
  BY <1>1, <1>3, StoreOperationsStay
<1>4. CASE Registration
  <2>1. PICK w \in DOMAIN workspaces, ts \in TaskSets,
             intent \in {"manual", "interactive"} :
          \E ks \in Selections(ts) : Register(w, ts, ks, intent)
    BY <1>4 DEF Registration
  <2>2. PICK ks \in Selections(ts) : Register(w, ts, ks, intent)
    BY <2>1
  <2>3. CASE RunsStay
    BY <1>1, <2>3
  <2>4. CASE /\ nextRun' = nextRun + 1
             /\ runs'[nextRun] = NewRun(w, ts, ks, intent)
             /\ \A r \in DOMAIN runs' \ {nextRun} : r \in DOMAIN runs /\ runs'[r] = runs[r]
    <3>1. Stands(nextRun)
      BY <2>4 DEF Stands
    <3>2. ASSUME NEW r \in DOMAIN runs', r # nextRun PROVE Stands(r)
      BY <2>4, <3>2 DEF Stands
    <3>3. \A r \in DOMAIN runs' : Stands(r)
      BY <3>1, <3>2
    <3>4. nextRun' \in {nextRun, nextRun + 1}
      BY <2>4
    <3>5. QED
      BY <3>3, <3>4
  <2>5. QED
    BY <2>2, <2>3, <2>4, RegisterStays
<1>5. ASSUME NEW r \in ActiveRuns, NEW k \in runs[r].keys, NEW v \in Verdicts,
             Answer(r, k, v)
      PROVE  Goal
  <2>1. r \in DOMAIN runs
    BY DEF ActiveRuns
  <2>2. \E new : RunBecomes(r, new)
    BY <1>5, <2>1, AnswerBecomes
  <2>3. QED
    BY <1>2, <2>1, <2>2
<1>6. ASSUME NEW r \in ActiveRuns, Finish(r) PROVE Goal
  <2>1. r \in DOMAIN runs
    BY DEF ActiveRuns
  <2>2. \E new : RunBecomes(r, new)
    BY <1>6, <2>1, FinishBecomes
  <2>3. QED
    BY <1>2, <2>1, <2>2
<1>7. ASSUME NEW r \in ActiveRuns, Supersede(r) PROVE Goal
  <2>1. r \in DOMAIN runs
    BY DEF ActiveRuns
  <2>2. QED
    BY <1>1, <1>7, <2>1, MarksStay
<1>8. CASE UNCHANGED workspaceVars
  BY <1>1, <1>8, UnchangedStay DEF workspaceVars
<1>9. Goal
  <2>1. StoreOperations \/ Registration
        \/ (\E r \in ActiveRuns :
              \/ \E k \in runs[r].keys, v \in Verdicts : Answer(r, k, v)
              \/ Finish(r)
              \/ Supersede(r))
        \/ UNCHANGED workspaceVars
    BY DEF WorkspaceNext, StoreOperations
  <2>2. ASSUME NEW r \in ActiveRuns,
               \/ \E k \in runs[r].keys, v \in Verdicts : Answer(r, k, v)
               \/ Finish(r)
               \/ Supersede(r)
        PROVE  Goal
    BY <1>5, <1>6, <1>7, <2>2
  <2>3. CASE StoreOperations \/ Registration \/ UNCHANGED workspaceVars
    BY <1>3, <1>4, <1>8, <2>3
  <2>4. QED
    BY <2>1, <2>2, <2>3
<1>10. QED
  BY <1>9

LEMMA AskedStep ==
  ASSUME Coordinated, [WorkspaceNext]_workspaceVars
  PROVE  \A r \in DOMAIN runs' : Asked(r)'
<1>1. SUFFICES ASSUME NEW r \in DOMAIN runs' PROVE Asked(r)'
  OBVIOUS
<1>2. CASE /\ r \in DOMAIN runs
           /\ runs'[r].keys = runs[r].keys /\ runs'[r].missing = runs[r].missing
           /\ runs'[r].taskSet = runs[r].taskSet
  <2>1. Asked(r)
    BY <1>2 DEF Coordinated, Data
  <2>2. QED
    BY <1>2, <2>1 DEF Asked, Selections
<1>3. ASSUME NEW w, NEW ts, NEW intent, NEW ks \in Selections(ts),
             runs'[r] = NewRun(w, ts, ks, intent)
      PROVE  Asked(r)'
  BY <1>3 DEF Asked, NewRun, Selections
<1>4. QED
  BY <1>2, <1>3, RequestsStand, ControlParts DEF Stands

(* The service is left alone while the store takes any step.               *)
LEMMA ServiceIdles ==
  ASSUME Coordinated, [WorkspaceNext]_workspaceVars, UNCHANGED <<accepted, log, announced>>
  PROVE  ServiceKept'
<1>1. ASSUME NEW r \in Runs PROVE ServiceOf(r)'
  <2>1. ServiceOf(r)
    BY DEF Coordinated, Data, ServiceKept
  <2>2. nextRun \in Int /\ r \in Int /\ nextRun' \in {nextRun, nextRun + 1}
    BY ControlParts, RequestsStand
  <2>3. r \in DOMAIN runs' => \/ r \in DOMAIN runs /\ runs'[r].missing = runs[r].missing
                              \/ r = nextRun
    BY ControlParts, RequestsStand DEF Stands
  <2>4. AnsweredModels(r)' = AnsweredModels(r)
    BY DEF AnsweredModels
  <2>5. r \in DOMAIN runs' /\ accepted'[r] > 0 => accepted'[r] = Cardinality(runs'[r].missing)
    <3>1. CASE r = nextRun
      BY <2>1, <2>2, <3>1 DEF ServiceOf
    <3>2. CASE r \in DOMAIN runs /\ runs'[r].missing = runs[r].missing
      BY <2>1, <3>2 DEF ServiceOf
    <3>3. QED
      BY <2>3, <3>1, <3>2
  <2>6. QED
    BY <2>1, <2>2, <2>4, <2>5 DEF ServiceOf
<1>2. QED
  BY <1>1 DEF Coordinated, Data, ServiceKept

LEMMA SubmitKeepsService ==
  ASSUME Coordinated, NEW r \in DOMAIN runs, ServeSubmit(r), UNCHANGED <<runs, nextRun>>
  PROVE  ServiceKept'
<1>1. CASE ServeNothing
  <2>1. UNCHANGED <<accepted, log, announced>>
    BY <1>1 DEF ServeNothing, serviceVars
  <2>2. ASSUME NEW q \in Runs PROVE ServiceOf(q)'
    BY <2>1 DEF Coordinated, Data, ServiceKept, ServiceOf, AnsweredModels
  <2>3. QED
    BY <2>1, <2>2 DEF Coordinated, Data, ServiceKept
<1>2. CASE ~Exists(r)
  <2> DEFINE n == Cardinality(runs[r].missing)
  <2>1. /\ accepted' = [accepted EXCEPT ![r] = n]
        /\ Service!Accept(r)
    BY <1>2 DEF ServeSubmit
  <2>2. r \in Runs /\ r < nextRun /\ nextRun \in Int /\ \A q \in Runs : q \in Int
    BY ControlParts
  <2>3. /\ accepted \in [Runs -> 0..Cardinality(Configs)]
        /\ log \in [Runs -> Seq(Entry)] /\ announced \subseteq Runs
        /\ \A q \in Runs : ServiceOf(q)
    BY DEF Coordinated, Data, ServiceKept
  <2>4. /\ accepted[r] = 0 /\ log' = log /\ announced' = announced
        /\ \E m \in 1..Cardinality(Configs) : accepted' = [accepted EXCEPT ![r] = m]
    BY <2>1 DEF Service!Accept
  <2>5. accepted'[r] = n /\ n \in 1..Cardinality(Configs)
    BY <2>1, <2>2, <2>3, <2>4
  <2>6. Cardinality(Configs) \in Nat
    BY FS_CardinalityType, WorkspaceAssumption
  <2> HIDE DEF n
  <2>7. accepted' \in [Runs -> 0..Cardinality(Configs)]
    <3>1. n \in 0..Cardinality(Configs)
      BY <2>5, <2>6
    <3>2. QED
      BY <2>1, <2>2, <2>3, <3>1
  <2>8. ServiceOf(r)'
    <3>1. DOMAIN log[r] = {} /\ r \notin announced
      <4>1. \A i \in DOMAIN log[r] : log[r][i].model \in 1..0
        BY <2>2, <2>3, <2>4 DEF ServiceOf
      <4>2. QED
        BY <2>2, <2>3, <2>4, <4>1 DEF ServiceOf
    <3>2. AnsweredModels(r)' = {}
      BY <2>4, <3>1 DEF AnsweredModels
    <3>3. 1 \in 1..n
      BY <2>5, <2>6
    <3>4. QED
      BY <2>2, <2>4, <2>5, <2>6, <3>1, <3>2, <3>3 DEF ServiceOf, n
  <2>9. ASSUME NEW q \in Runs, q # r PROVE ServiceOf(q)'
    <3>1. accepted'[q] = accepted[q] /\ AnsweredModels(q)' = AnsweredModels(q)
      BY <2>1, <2>3, <2>4, <2>9 DEF AnsweredModels
    <3>2. QED
      BY <2>3, <2>4, <3>1 DEF ServiceOf
  <2>10. QED
    BY <2>3, <2>4, <2>7, <2>8, <2>9 DEF ServiceKept
<1>3. QED
  BY <1>1, <1>2 DEF ServeSubmit

(* The service answers models.                                             *)
LEMMA AnswersKeepService ==
  ASSUME Coordinated, NEW r \in Runs, Service!Answer(r), log'[r] \in Seq(Entry),
         UNCHANGED <<runs, nextRun>>
  PROVE  ServiceKept'
<1>1. /\ accepted \in [Runs -> 0..Cardinality(Configs)]
      /\ log \in [Runs -> Seq(Entry)] /\ announced \subseteq Runs
      /\ \A q \in Runs : ServiceOf(q)
  BY DEF Coordinated, Data, ServiceKept
<1>2. /\ accepted[r] > 0 /\ r \notin announced
      /\ log' = [log EXCEPT ![r] = log'[r]]
      /\ \A k, m \in 1..Len(log'[r]) : log'[r][k].model = log'[r][m].model => k = m
      /\ Service!ModelsIn(log'[r]) \subseteq 1..accepted[r]
      /\ announced' = IF Service!ModelsIn(log'[r]) = 1..accepted[r]
                        THEN announced \cup {r} ELSE announced
      /\ accepted' = accepted
  BY DEF Service!Answer
<1>3. Service!ModelsIn(log'[r]) = AnsweredModels(r)'
  BY DEF Service!ModelsIn, AnsweredModels
<1>4. log' \in [Runs -> Seq(Entry)] /\ announced' \subseteq Runs
  BY <1>1, <1>2
<1>5. ServiceOf(r)'
  <2>1. \A i \in DOMAIN log'[r] : log'[r][i].model \in 1..accepted[r]
    BY <1>2 DEF Service!ModelsIn
  <2>2. DOMAIN log'[r] = 1..Len(log'[r])
    OBVIOUS
  <2>3. r \in announced' <=> AnsweredModels(r)' = 1..accepted[r]
    BY <1>2, <1>3
  <2>4. QED
    BY <1>1, <1>2, <2>1, <2>2, <2>3 DEF ServiceOf
<1>6. ASSUME NEW q \in Runs, q # r PROVE ServiceOf(q)'
  <2>1. log'[q] = log[q] /\ AnsweredModels(q)' = AnsweredModels(q)
        /\ (q \in announced' <=> q \in announced)
    BY <1>1, <1>2, <1>6 DEF AnsweredModels
  <2>2. QED
    BY <1>1, <1>2, <2>1 DEF ServiceOf
<1>7. QED
  BY <1>1, <1>2, <1>4, <1>5, <1>6 DEF ServiceKept

LEMMA SameService ==
  ASSUME Coordinated, UNCHANGED <<accepted, log, announced, runs, nextRun>>
  PROVE  ServiceKept'
<1>1. ASSUME NEW q \in Runs PROVE ServiceOf(q)'
  BY DEF Coordinated, Data, ServiceKept, ServiceOf, AnsweredModels
<1>2. QED
  BY <1>1 DEF Coordinated, Data, ServiceKept

(* A cancellation answers every model that is open.                        *)
LEMMA CancelKeepsService ==
  ASSUME Coordinated, NEW r \in DOMAIN runs, ServeCancel(r), UNCHANGED <<runs, nextRun>>
  PROVE  ServiceKept'
<1>1. CASE ServeNothing
  BY <1>1, SameService DEF ServeNothing, serviceVars
<1>2. CASE ~(~Exists(r) \/ r \in announced)
  <2> DEFINE open == SetToSeq(OpenModels(r))
             entries == [i \in DOMAIN open |-> [model |-> open[i], verdict |-> "cancelled"]]
  <2>1. Service!Answer(r) /\ log' = [log EXCEPT ![r] = @ \o entries]
    BY <1>2 DEF ServeCancel
  <2>2. /\ r \in Runs /\ log \in [Runs -> Seq(Entry)]
        /\ accepted \in [Runs -> 0..Cardinality(Configs)]
    BY ControlParts DEF Coordinated, Data, ServiceKept
  <2>3. Cardinality(Configs) \in Nat /\ accepted[r] \in Nat
    BY <2>2, FS_CardinalityType, WorkspaceAssumption
  <2>4. OpenModels(r) \subseteq 1..accepted[r]
    BY DEF OpenModels
  <2>5. IsFiniteSet(OpenModels(r))
    <3>1. \A n \in Nat : IsFiniteSet(1..n)
      BY FS_Interval
    <3>2. QED
      BY <2>3, <2>4, <3>1, FS_Subset
  <2> DEFINE n == Cardinality(OpenModels(r))
  <2>6. n \in Nat /\ open \in [1..n -> OpenModels(r)]
    BY <2>5, SequenceOfSet
  <2> HIDE DEF open, n
  <2>7. \A i \in 1..n : [model |-> open[i], verdict |-> "cancelled"] \in Entry
    BY <2>3, <2>4, <2>6, CoordinatorAssumption DEF Entry
  <2>8. entries \in [1..n -> Entry]
    BY <2>6, <2>7
  <2>9. entries \in Seq(Entry)
    BY <2>6, <2>8
  <2>10. log'[r] = log[r] \o entries /\ log[r] \in Seq(Entry)
    BY <2>1, <2>2
  <2> HIDE DEF entries
  <2>11. log'[r] \in Seq(Entry)
    BY <2>9, <2>10
  <2>12. QED
    BY <2>1, <2>2, <2>11, AnswersKeepService
<1>3. QED
  BY <1>1, <1>2 DEF ServeCancel

LEMMA ServiceAnswersKeeps ==
  ASSUME Coordinated, NEW r \in DOMAIN runs, ServiceAnswers(r)
  PROVE  ServiceKept'
<1>1. /\ r \in Runs /\ log \in [Runs -> Seq(Entry)]
      /\ accepted \in [Runs -> 0..Cardinality(Configs)]
  BY ControlParts DEF Coordinated, Data, ServiceKept
<1>2. PICK i \in OpenModels(r), v \in {"succeeded", "failed"} : Append1(r, i, v)
  BY DEF ServiceAnswers
<1>3. Cardinality(Configs) \in Nat /\ accepted[r] \in Nat
  BY <1>1, FS_CardinalityType, WorkspaceAssumption
<1>4. [model |-> i, verdict |-> v] \in Entry
  BY <1>3, CoordinatorAssumption DEF Entry, OpenModels
<1>5. log[r] \in Seq(Entry) /\ log'[r] = Append(log[r], [model |-> i, verdict |-> v])
  BY <1>1, <1>2 DEF Append1
<1>6. log'[r] \in Seq(Entry)
  BY <1>4, <1>5
<1>7. QED
  BY <1>1, <1>6, AnswersKeepService DEF ServiceAnswers, workspaceVars

LEMMA ForgettingKeepsService ==
  ASSUME Coordinated, NEW r \in DOMAIN runs, ServiceForgets(r)
  PROVE  ServiceKept'
<1>1. UNCHANGED <<runs, nextRun>>
  BY DEF ServiceForgets, workspaceVars
<1>2. CASE status[r].job
  BY <1>1, <1>2, SameService DEF ServiceForgets
<1>3. CASE ~status[r].job
  <2>1. /\ accepted' = [accepted EXCEPT ![r] = 0]
        /\ log' = [log EXCEPT ![r] = <<>>]
        /\ announced' = announced \ {r}
    BY <1>3 DEF ServiceForgets
  <2>2. /\ r \in Runs /\ log \in [Runs -> Seq(Entry)]
        /\ accepted \in [Runs -> 0..Cardinality(Configs)]
        /\ announced \subseteq Runs
        /\ \A q \in Runs : ServiceOf(q)
        /\ Cardinality(Configs) \in Nat
    BY ControlParts, FS_CardinalityType, WorkspaceAssumption
    DEF Coordinated, Data, ServiceKept
  <2>3. /\ log' \in [Runs -> Seq(Entry)]
        /\ accepted' \in [Runs -> 0..Cardinality(Configs)]
        /\ announced' \subseteq Runs
    BY <2>1, <2>2
  <2>4. ServiceOf(r)'
    BY <2>1, <2>2 DEF ServiceOf
  <2>5. ASSUME NEW q \in Runs, q # r PROVE ServiceOf(q)'
    <3>1. /\ log'[q] = log[q] /\ accepted'[q] = accepted[q]
          /\ (q \in announced' <=> q \in announced)
      BY <2>1, <2>2, <2>5
    <3>2. AnsweredModels(q)' = AnsweredModels(q)
      BY <3>1 DEF AnsweredModels
    <3>3. ServiceOf(q)
      BY <2>2
    <3>4. QED
      BY <1>1, <3>1, <3>2, <3>3 DEF ServiceOf
  <2>6. QED
    BY <2>3, <2>4, <2>5 DEF ServiceKept
<1>4. QED
  BY <1>2, <1>3

LEMMA RestartKeepsService ==
  ASSUME Coordinated, ServiceRestarts
  PROVE  ServiceKept'
<1>1. /\ accepted' = [r \in Runs |-> 0]
      /\ log' = [r \in Runs |-> <<>>]
      /\ announced' = {}
  BY DEF ServiceRestarts
<1>2. Cardinality(Configs) \in Nat
  BY FS_CardinalityType, WorkspaceAssumption
<1>3. \A q \in Runs : ServiceOf(q)'
  BY <1>1 DEF ServiceOf
<1>4. QED
  BY <1>1, <1>2, <1>3 DEF ServiceKept

(* What a call does to the service.                                        *)
LEMMA CallServes ==
  ASSUME NEW c \in Executions, Call(c)
  PROVE  /\ UNCHANGED workspaceVars
         /\ ServeNothing \/ ServeSubmit(c[1]) \/ ServeCancel(c[1])
<1>1. CASE Answered(c)
  BY <1>1 DEF Answered, Onward
<1>2. CASE Unavailable(c)
  BY <1>2 DEF Unavailable, Reached
<1>3. CASE Refused(c)
  BY <1>3 DEF Refused, Raise, Reached
<1>4. QED
  BY <1>1, <1>2, <1>3 DEF Call

LEMMA ServiceStep ==
  ASSUME Coordinated, [Next]_vars
  PROVE  ServiceKept'
<1>1. [WorkspaceNext]_workspaceVars
  BY StoreStep
<1>2. CASE UNCHANGED serviceVars
  BY <1>1, <1>2, ServiceIdles DEF serviceVars
<1>3. CASE Requests
  BY <1>2, <1>3
  DEF Requests, StartManual, StartInteractive, Admit, CancelRun, Resume, StoreRoutes
<1>4. ASSUME NEW c \in Executions, Execution(c) PROVE ServiceKept'
  <2>1. CASE exec[c].at \notin Live
    <3>1. ~CompleteOne(c) /\ ~BatchDone(c)
      BY <2>1, BatchWorks DEF CompleteOne, BatchDone
    <3>2. exec[c].at \notin {"begin", "ready", "submit", "cancel", "status", "page",
                             "sleep", "abort"}
      BY <2>1 DEF Live, Places
    <3>3. QED
      BY <1>4, <3>1, <3>2 DEF Execution, Begin, Call, Abort, Wake
  <2>2. CASE exec[c].at \in Live
    <3>1. c[1] \in DOMAIN runs
      BY <2>2, WorkingRun
    <3>2. CASE UNCHANGED workspaceVars /\ (ServeSubmit(c[1]) \/ ServeCancel(c[1]))
      BY <3>1, <3>2, SubmitKeepsService, CancelKeepsService DEF workspaceVars
    <3>3. CASE Call(c)
      BY <1>2, <3>2, <3>3, CallServes DEF ServeNothing
    <3>4. CASE Abort(c)
      BY <1>2, <3>2, <3>4 DEF Abort, ServeNothing
    <3>5. CASE Begin(c) \/ Wake(c) \/ CompleteOne(c) \/ BatchDone(c)
      BY <1>2, <3>5 DEF Begin, Wake, CompleteOne, BatchDone
    <3>6. QED
      BY <1>4, <3>3, <3>4, <3>5 DEF Execution
  <2>3. QED
    BY <2>1, <2>2
<1>5. ASSUME NEW c \in Executions, Callback(c) PROVE ServiceKept'
  BY <1>2, <1>5 DEF Callback
<1>6. CASE BeginClose \/ FinishClose
  BY <1>2, <1>6 DEF BeginClose, FinishClose
<1>7. ASSUME NEW r \in ActiveRuns, CloseCancel(r) PROVE ServiceKept'
  BY <1>7, CancelKeepsService DEF CloseCancel, workspaceVars, ActiveRuns
<1>8. CASE SimulationService
  BY <1>8, ServiceAnswersKeeps, ForgettingKeepsService, RestartKeepsService
  DEF SimulationService, ActiveRuns
<1>9. CASE UNCHANGED vars
  BY <1>2, <1>9 DEF vars
<1>10. QED
  BY <1>3, <1>4, <1>5, <1>6, <1>7, <1>8, <1>9 DEF Next

LEMMA CoordinatedInit ==
  ASSUME Init
  PROVE  Coordinated
<1>1. WorkspaceInit
  BY DEF Init
<1>2. Consistent
  BY <1>1, ConsistentInit
<1>3. Cardinality(Configs) \in Nat /\ MaxFailures \in Nat
  BY FS_CardinalityType, WorkspaceAssumption, CoordinatorAssumption
<1>4. DOMAIN runs = {} /\ nextRun = 1
  BY <1>1 DEF WorkspaceInit
<1>5. /\ status = [r \in Runs |-> NewStatus]
      /\ tasks = [r \in Runs |-> Null]
      /\ exec = [c \in Executions |-> Idling]
      /\ batch = NoBatch
      /\ closing = "open"
      /\ accepted = [r \in Runs |-> 0]
      /\ log = [r \in Runs |-> <<>>]
      /\ announced = {}
  BY DEF Init, Service!ContractInit
<1>6. PartsOK
  <2>1. NewStatus \in StatusRecord
    BY NewStatusType
  <2>2. Idling \in ExecRecord
    BY <1>3 DEF Idling, ExecRecord, Places, States
  <2>3. NoBatch \in BatchRecord
    BY <1>3 DEF NoBatch, BatchRecord
  <2>4. QED
    BY <1>5, <2>1, <2>2, <2>3 DEF PartsOK
<1>7. ASSUME NEW r \in Runs PROVE WorksAlone(r) /\ Served(r) /\ Untouched(r)
  <2>1. \A s \in Slots : exec[<<r, s>>] = Idling
    BY <1>5 DEF Executions
  <2>2. QED
    BY <1>4, <1>5, <2>1
    DEF WorksAlone, Served, Untouched, ActiveRuns, Idling, Live
<1>8. BatchOwned
  <2>1. \A c \in Executions : c # Null
    BY CoordinatorAssumption DEF Executions, Slots
  <2>2. QED
    BY <1>5, <2>1 DEF BatchOwned, NoBatch, Idling
<1>9. ServiceKept
  BY <1>3, <1>4, <1>5 DEF ServiceKept, ServiceOf
<1>10. BatchFits
  BY <1>5 DEF BatchFits
<1>11. QED
  BY <1>2, <1>4, <1>6, <1>7, <1>8, <1>9, <1>10 DEF Coordinated, Control, Data

LEMMA CoordinatedStep ==
  ASSUME Coordinated, [Next]_vars
  PROVE  Coordinated'
<1>1. [WorkspaceNext]_workspaceVars
  BY StoreStep
<1>2. Consistent'
  BY <1>1, ConsistentStep DEF Coordinated
<1>3. Control' /\ BatchFits'
  BY ControlStep
<1>4. QED
  BY <1>1, <1>2, <1>3, ServiceStep, AskedStep DEF Coordinated, Data

LEMMA StaysCoordinated == Spec => []Coordinated
<1>1. Init => Coordinated
  BY CoordinatedInit
<1>2. Coordinated /\ [Next]_vars => Coordinated'
  BY CoordinatedStep
<1>3. QED
  BY <1>1, <1>2, PTL DEF Spec

-----------------------------------------------------------------------------
(* The theorems about control                                              *)

(* Every part of the coordinator's state and of the store has its type     *)
(* throughout: the fields of RunStatus, the map of known executions, where *)
(* each execution stands, and the outcomes it is completing.               *)
THEOREM CoordinatorTypes == Spec => []CoordinatorTypeOK
<1>1. Coordinated => CoordinatorTypeOK
  <2>1. SUFFICES ASSUME Coordinated PROVE CoordinatorTypeOK
    OBVIOUS
  <2>2. WorkspaceTypeOK /\ PartsOK
    BY <2>1 DEF Coordinated, Consistent, Control
  <2>3. QED
    BY <2>2 DEF PartsOK, CoordinatorTypeOK, StatusRecord, ExecRecord, BatchRecord
<1>2. QED
  BY <1>1, StaysCoordinated, PTL

(* Launches, pauses, resumes, cancellations and the callback of a task     *)
(* that is done never leave two executions at work on one run: the one     *)
(* that works is the one self.tasks knows.                                 *)
THEOREM OneWorker == Spec => []OneExecution
<1>1. Coordinated => OneExecution
  BY DEF Coordinated, Control, WorksAlone, OneExecution
<1>2. QED
  BY <1>1, StaysCoordinated, PTL

(* A run that is running is never orphaned: until close has stopped the    *)
(* executions, one works on it, or execute has paused it and dropped its   *)
(* task, so that resume can launch another.                                *)
THEOREM RunsAreServed == Spec => []ActiveIsServed
<1>1. Coordinated => ActiveIsServed
  <2>1. SUFFICES ASSUME Coordinated, NEW r \in ActiveRuns
                 PROVE  IF status[r].paused THEN tasks[r] = Null
                        ELSE closing = "open" =>
                               tasks[r] # Null /\ exec[<<r, tasks[r]>>].at \in Live
    BY DEF ActiveIsServed
  <2>2. r \in Runs
    BY <2>1, ControlParts DEF ActiveRuns
  <2>3. Served(r)
    BY <2>1, <2>2 DEF Coordinated, Control
  <2>4. QED
    BY <2>1, <2>3 DEF Served
<1>2. QED
  BY <1>1, StaysCoordinated, PTL

(* The coordinator uses the store as the store expects: whatever the       *)
(* routes, the executions and the service do, a run is finished only with  *)
(* all its scenarios answered, each at most once and while it is running.  *)
THEOREM CoordinatorUsesWorkspace == Spec => UsesWorkspace
<1>1. Init => WorkspaceInit
  BY DEF Init
<1>2. Coordinated /\ [Next]_vars => [WorkspaceNext]_workspaceVars
  BY StoreStep
<1>3. QED
  BY <1>1, <1>2, StaysCoordinated, PTL DEF Spec, UsesWorkspace, WorkspaceSpec

(* Hence, with the coordinator at work and not only for an arbitrary       *)
(* caller: results and reservations stay within the memory given to them,  *)
(* no result is taken from a run that shows or has yet to collect it, and  *)
(* a result within the limits always finds its bytes reserved.             *)
THEOREM CoordinatorKeepsStore ==
  Spec => [](WithinBudget /\ ResultsKept /\ ReservationSuffices)
<1>1. Spec => WorkspaceSpec
  BY CoordinatorUsesWorkspace DEF UsesWorkspace
<1>2. QED
  BY <1>1, Budget, Results, ReservationsSuffice, PTL

-----------------------------------------------------------------------------
(* What is final stays                                                     *)

StaysFinal(r) ==
  runs[r].over => runs'[r] = [runs[r] EXCEPT !.pinned = runs'[r].pinned]

LEMMA SameIsFinal ==
  ASSUME WorkspaceTypeOK, NEW r \in DOMAIN runs, runs'[r] = runs[r]
  PROVE  StaysFinal(r)
<1>1. runs[r] \in RunRecord
  BY DEF WorkspaceTypeOK
<1>2. [runs[r] EXCEPT !.pinned = runs[r].pinned] = runs[r]
  BY <1>1 DEF RunRecord
<1>3. QED
  BY <1>2 DEF StaysFinal

(* Of a run that is over the store changes the pin and nothing else.       *)
LEMMA StoreKeepsFinal ==
  ASSUME Coordinated, [WorkspaceNext]_workspaceVars,
         NEW r \in DOMAIN runs \cap DOMAIN runs'
  PROVE  StaysFinal(r)
<1>1. WorkspaceTypeOK /\ runs[r] \in RunRecord /\ r # nextRun
  BY ControlParts DEF WorkspaceTypeOK
<1>2. CASE runs' = runs
  BY <1>1, <1>2, SameIsFinal
<1>3. ASSUME NEW gone, RemoveRuns(gone) PROVE StaysFinal(r)
  <2>1. runs'[r] = runs[r]
    BY <1>3 DEF RemoveRuns, Without
  <2>2. QED
    BY <1>1, <2>1, SameIsFinal
<1>4. ASSUME NEW q \in DOMAIN runs, Pin(q) \/ Unpin(q) PROVE StaysFinal(r)
  <2>1. PICK b : runs' = [runs EXCEPT ![q].pinned = b]
    BY <1>4 DEF Pin, Unpin
  <2>2. CASE q = r
    <3>1. runs'[r] = [runs[r] EXCEPT !.pinned = b]
      BY <2>1, <2>2
    <3>2. runs'[r].pinned = b
      BY <1>1, <3>1 DEF RunRecord
    <3>3. QED
      BY <3>1, <3>2 DEF StaysFinal
  <2>3. CASE q # r
    BY <1>1, <2>1, <2>3, SameIsFinal
  <2>4. QED
    BY <2>2, <2>3
<1>5. CASE Deletion
  BY <1>3, <1>5 DEF Deletion, DeleteWorkspace, DeleteComparison
<1>6. CASE Registration
  <2>1. PICK w, ts, ks, intent : Register(w, ts, ks, intent)
    BY <1>6 DEF Registration
  <2>2. PICK gone \in SUBSET DOMAIN runs :
          /\ \A q \in gone : q \notin ActiveRuns
          /\ RefusedWithout(gone) \/ AdmittedWithout(gone, w, ts, ks, intent)
    BY <2>1, RegisterPrunes
  <2>3. runs'[r] = runs[r] \/ ~runs[r].over
    BY <1>1, <2>2 DEF RefusedWithout, AdmittedWithout, Without
  <2>4. QED
    BY <1>1, <2>3, SameIsFinal DEF StaysFinal
<1>7. ASSUME NEW q \in ActiveRuns,
             \/ \E k \in runs[q].keys, v \in Verdicts : Answer(q, k, v)
             \/ Finish(q)
             \/ Supersede(q)
      PROVE  StaysFinal(r)
  <2>1. \E new : runs' = [runs EXCEPT ![q] = new]
    <3>1. WorkspaceTypeOK /\ q \in DOMAIN runs
      BY <1>1 DEF ActiveRuns
    <3>2. CASE \E k \in runs[q].keys, v \in Verdicts : Answer(q, k, v)
      <4>1. PICK k \in runs[q].keys, v \in Verdicts : Answer(q, k, v)
        BY <3>2
      <4>2. \E new : RunBecomes(q, new)
        BY <3>1, <4>1, AnswerBecomes
      <4>3. QED
        BY <4>2 DEF RunBecomes
    <3>3. CASE Finish(q)
      BY <3>1, <3>3, FinishBecomes DEF RunBecomes
    <3>4. CASE Supersede(q)
      <4>1. runs' = [runs EXCEPT ![q] = [runs[q] EXCEPT !.superseded = TRUE]]
        BY <3>4 DEF Supersede
      <4>2. QED
        BY <4>1
    <3>5. QED
      BY <1>7, <3>2, <3>3, <3>4
  <2>2. q # r \/ ~runs[r].over
    BY DEF ActiveRuns, Active
  <2>3. QED
    BY <1>1, <2>1, <2>2, SameIsFinal DEF StaysFinal
<1>8. CASE \/ \E w \in Workspaces : Create(w)
           \/ \E w \in DOMAIN workspaces, ts \in TaskSets :
                SaveEditor(w, ts) \/ DeleteTaskSet(w, ts)
           \/ \E q \in DOMAIN runs : Baseline(q)
           \/ UNCHANGED workspaceVars
  BY <1>2, <1>8 DEF Create, SaveEditor, DeleteTaskSet, Baseline, workspaceVars
<1>9. QED
  BY <1>4, <1>5, <1>6, <1>7, <1>8 DEF WorkspaceNext

(* The status of a run is written only while the run is running.           *)
LEMMA StatusStaysFinal ==
  ASSUME Coordinated, [Next]_vars, NEW r \in DOMAIN runs \cap DOMAIN runs',
         runs[r].over
  PROVE  status'[r] = status[r]
<1>1. /\ r \in Runs /\ r \notin ActiveRuns /\ PartsOK
      /\ \A q \in DOMAIN runs : q \in Runs
  BY ControlParts DEF ActiveRuns, Active
<1>2. ASSUME NEW q \in ActiveRuns, NEW st, status' = [status EXCEPT ![q] = st]
      PROVE  status'[r] = status[r]
  BY <1>1, <1>2 DEF PartsOK
<1>3. CASE status' = StatusOfRuns
  BY <1>1, <1>3 DEF StatusOfRuns
<1>4. CASE Requests
  <2>1. ASSUME NEW q \in ActiveRuns, RequestCancel(q) PROVE status'[r] = status[r]
    BY <1>2, <2>1, RequestCancelStatus
  <2>2. ASSUME NEW q \in DOMAIN runs, Resume(q) PROVE status'[r] = status[r]
    <3>1. q \in ActiveRuns /\ status' = [status EXCEPT ![q].paused = FALSE]
      BY <2>2 DEF Resume, ActiveRuns
    <3>2. QED
      BY <1>2, <3>1
  <2>3. QED
    BY <1>3, <1>4, <2>1, <2>2
    DEF Requests, StartManual, StartInteractive, Admit, CancelRun, StoreRoutes, ActiveRuns
<1>5. ASSUME NEW c \in Executions, Execution(c) PROVE status'[r] = status[r]
  <2>1. Acting(c) /\ (Moved(c) \/ Ended(c))
    BY <1>5, ExecutionMoves
  <2>2. c[1] \in ActiveRuns
    BY <2>1, WorkingRun DEF Acting
  <2>3. \E st : status' = [status EXCEPT ![c[1]] = st]
    BY <2>1 DEF Moved, Ended
  <2>4. QED
    BY <1>2, <2>2, <2>3
<1>6. CASE UNCHANGED status
  BY <1>6
<1>7. QED
  BY <1>4, <1>5, <1>6
  DEF Next, Callback, BeginClose, FinishClose, CloseCancel, SimulationService,
      ServiceAnswers, ServiceForgets, ServiceRestarts, coordinatorVars, vars

(* Once finish has published the last status of a run, no execution that   *)
(* wakes late, no answer of the service and no request to cancel, resume   *)
(* or replace the run writes its status or its results again.              *)
THEOREM FinalStays == Spec => FinalIsFinal
<1>1. Coordinated /\ [Next]_vars =>
        [\A r \in DOMAIN runs \cap DOMAIN runs' : runs[r].over =>
           /\ status'[r] = status[r]
           /\ runs'[r] = [runs[r] EXCEPT !.pinned = runs'[r].pinned]]_vars
  <2>1. SUFFICES ASSUME Coordinated, [Next]_vars,
                        NEW r \in DOMAIN runs \cap DOMAIN runs', runs[r].over
                 PROVE  /\ status'[r] = status[r]
                        /\ runs'[r] = [runs[r] EXCEPT !.pinned = runs'[r].pinned]
    OBVIOUS
  <2>2. StaysFinal(r)
    BY <2>1, StoreStep, StoreKeepsFinal
  <2>3. QED
    BY <2>1, <2>2, StatusStaysFinal DEF StaysFinal
<1>2. QED
  BY <1>1, StaysCoordinated, PTL DEF Spec, FinalIsFinal

-----------------------------------------------------------------------------
(* What a run says is true: the service's part                             *)

Truthful == Coordinated /\ ResultsKept /\ Truth

(* All that ever happens to the answers to a run that is running.          *)
ServiceGoes(r) ==
  \/ /\ log'[r] = log[r]
     /\ Exists(r)' <=> Exists(r)
     /\ r \in announced' <=> r \in announced
  \/ /\ Exists(r) /\ r \notin announced
     /\ Len(log[r]) <= Len(log'[r])
     /\ \A i \in 1..Len(log[r]) : log'[r][i] = log[r][i]
  \/ ~Exists(r)'
  \/ log'[r] = <<>> /\ ~status[r].job

LEMMA TruthParts ==
  ASSUME Truthful
  PROVE  /\ Coordinated /\ WorkspaceTypeOK /\ ServiceKept /\ PartsOK /\ BatchOwned
         /\ \A r \in Runs : WorksAlone(r)
         /\ \A r \in ActiveRuns : /\ Sound(r) /\ r \in DOMAIN runs /\ r \in Runs
                                  /\ Asked(r) /\ runs[r] \in RunRecord
                                  /\ status[r] \in StatusRecord /\ ~runs[r].over
         /\ \A r \in DOMAIN runs : SaysTruth(r) /\ r \in Runs
         /\ ReadsConsistent /\ ResultsKept
<1>1. Coordinated /\ ResultsKept /\ Truth
  BY DEF Truthful
<1>2. /\ WorkspaceTypeOK /\ PartsOK /\ BatchOwned
      /\ \A r \in Runs : WorksAlone(r)
      /\ \A r \in DOMAIN runs : r \in Runs
  BY <1>1, ControlParts
<1>3. ServiceKept /\ \A r \in DOMAIN runs : Asked(r)
  BY <1>1 DEF Coordinated, Data
<1>4. \A r \in DOMAIN runs : runs[r] \in RunRecord /\ status[r] \in StatusRecord
  BY <1>2 DEF WorkspaceTypeOK, PartsOK
<1>5. QED
  BY <1>1, <1>2, <1>3, <1>4 DEF Truth, ActiveRuns, Active

LEMMA AnswerGoes ==
  ASSUME Truthful, NEW r \in Runs, Exists(r), Service!Answer(r), NEW q \in Runs,
         UNCHANGED forgotten, Len(log[r]) <= Len(log'[r])
  PROVE  ServiceGoes(q)
<1>1. /\ r \notin announced /\ log' = [log EXCEPT ![r] = log'[r]]
      /\ SubSeq(log'[r], 1, Len(log[r])) = log[r]
      /\ announced' \in {announced, announced \cup {r}}
      /\ accepted' = accepted
  BY DEF Service!Answer
<1>2. log \in [Runs -> Seq(Entry)] /\ log[r] \in Seq(Entry)
  BY TruthParts DEF ServiceKept
<1>3. CASE q = r
  <2> DEFINE n == Len(log[r])
             s == SubSeq(log'[r], 1, n)
  <2>1. n \in Nat /\ Len(s) = n
    BY <1>1, <1>2
  <2>2. s = [i \in 1..n |-> log'[r][i]]
    BY <2>1
  <2>3. \A i \in 1..n : log'[r][i] = log[r][i]
    BY <1>1, <2>2
  <2>4. QED
    BY <1>1, <1>3, <2>3 DEF ServiceGoes
<1>4. CASE q # r
  <2>1. log'[q] = log[q] /\ (q \in announced' <=> q \in announced)
    BY <1>1, <1>2, <1>4
  <2>2. Exists(q)' <=> Exists(q)
    BY <1>1 DEF Exists
  <2>3. QED
    BY <2>1, <2>2 DEF ServiceGoes
<1>5. QED
  BY <1>3, <1>4

LEMMA NothingGoes ==
  ASSUME UNCHANGED <<accepted, log, announced, forgotten>>, NEW q
  PROVE  ServiceGoes(q)
  BY DEF ServiceGoes, Exists

LEMMA CancelGoes ==
  ASSUME Truthful, NEW r \in Runs, ServeCancel(r), NEW q \in Runs
  PROVE  ServiceGoes(q)
<1>1. CASE ServeNothing
  BY <1>1, NothingGoes DEF ServeNothing, serviceVars
<1>2. CASE ~(~Exists(r) \/ r \in announced)
  <2> DEFINE open == SetToSeq(OpenModels(r))
             entries == [i \in DOMAIN open |-> [model |-> open[i], verdict |-> "cancelled"]]
  <2>1. /\ Service!Answer(r) /\ log' = [log EXCEPT ![r] = @ \o entries]
        /\ UNCHANGED forgotten
    BY <1>2 DEF ServeCancel
  <2>2. log \in [Runs -> Seq(Entry)] /\ accepted[r] \in 0..Cardinality(Configs)
    BY TruthParts DEF ServiceKept
  <2>3. OpenModels(r) \subseteq 1..accepted[r] /\ accepted[r] \in Nat
    BY <2>2, FS_CardinalityType, WorkspaceAssumption DEF OpenModels
  <2>4. IsFiniteSet(OpenModels(r))
    <3>1. \A n \in Nat : IsFiniteSet(1..n)
      BY FS_Interval
    <3>2. QED
      BY <2>3, <3>1, FS_Subset
  <2>5. /\ Cardinality(OpenModels(r)) \in Nat
        /\ DOMAIN open = 1..Cardinality(OpenModels(r))
    BY <2>4, SequenceOfSet
  <2> HIDE DEF open
  <2>6. Len(entries) \in Nat
    BY <2>5
  <2> HIDE DEF entries
  <2>7. log'[r] = log[r] \o entries /\ Len(log[r]) \in Nat
    BY <2>1, <2>2
  <2>8. Len(log'[r]) = Len(log[r]) + Len(entries)
    BY <2>7
  <2>9. Len(log[r]) <= Len(log'[r])
    BY <2>6, <2>7, <2>8
  <2>10. QED
    BY <1>2, <2>1, <2>9, AnswerGoes
<1>3. QED
  BY <1>1, <1>2 DEF ServeCancel

LEMMA SubmitGoes ==
  ASSUME Truthful, NEW r \in Runs, ServeSubmit(r), ~status[r].job, NEW q \in Runs
  PROVE  ServiceGoes(q)
<1>1. CASE ServeNothing
  BY <1>1, NothingGoes DEF ServeNothing, serviceVars
<1>2. CASE ~Exists(r)
  <2>1. /\ accepted[r] = 0 /\ UNCHANGED <<log, announced, forgotten>>
        /\ \E n \in 1..Cardinality(Configs) : accepted' = [accepted EXCEPT ![r] = n]
    BY <1>2 DEF ServeSubmit, Service!Accept
  <2>2. accepted \in [Runs -> 0..Cardinality(Configs)] /\ ServiceOf(r) /\ log[r] \in Seq(Entry)
    BY TruthParts DEF ServiceKept
  <2>3. log[r] = <<>>
    <3>1. \A i \in DOMAIN log[r] : log[r][i].model \in 1..0
      BY <2>1, <2>2 DEF ServiceOf
    <3>2. 1 \notin DOMAIN log[r]
      BY <3>1
    <3>3. Len(log[r]) = 0
      BY <2>2, <3>2
    <3>4. QED
      BY <2>2, <3>3
  <2>4. CASE q = r
    BY <2>1, <2>3, <2>4 DEF ServiceGoes
  <2>5. CASE q # r
    BY <2>1, <2>2, <2>5 DEF ServiceGoes, Exists
  <2>6. QED
    BY <2>4, <2>5
<1>3. QED
  BY <1>1, <1>2 DEF ServeSubmit

(* An execution that is live relies on what Relies says.                   *)
LEMMA LiveRelies ==
  ASSUME Truthful, NEW c \in Executions, exec[c].at \in Live
  PROVE  /\ Relies(c) /\ c[1] \in ActiveRuns /\ c[1] \in Runs /\ c[1] \in DOMAIN runs
         /\ ~Failing(c[1]) => Agrees(c[1])
<1>1. /\ c[1] \in Runs /\ c[2] \in Slots /\ c = <<c[1], c[2]>>
      /\ c[1] \in ActiveRuns /\ c[1] \in DOMAIN runs
  BY TruthParts, WorkingRun
<1>2. Sound(c[1])
  BY <1>1, TruthParts
<1>3. QED
  BY <1>1, <1>2 DEF Sound

LEMMA CallGoes ==
  ASSUME Truthful, NEW c \in Executions, Call(c), NEW q \in Runs
  PROVE  ServiceGoes(q)
<1>1. exec[c].at \in Live
  BY DEF Call, Live, Places
<1>2. exec[c].at = "submit" => ~status[c[1]].job
  BY <1>1, LiveRelies DEF Relies
<1>3. \/ ServeNothing
      \/ exec[c].at = "submit" /\ ServeSubmit(c[1])
      \/ ServeCancel(c[1])
  <2>1. CASE Answered(c)
    BY <2>1 DEF Answered
  <2>2. CASE Unavailable(c)
    BY <2>2 DEF Unavailable, Reached
  <2>3. CASE Refused(c)
    BY <2>3 DEF Refused, Reached
  <2>4. QED
    BY <2>1, <2>2, <2>3 DEF Call
<1>4. QED
  BY <1>1, <1>2, <1>3, LiveRelies, NothingGoes, SubmitGoes, CancelGoes
  DEF ServeNothing, serviceVars

LEMMA ServiceAlwaysGoes ==
  ASSUME Truthful, [Next]_vars, NEW q \in Runs
  PROVE  ServiceGoes(q)
<1>1. CASE UNCHANGED <<accepted, log, announced, forgotten>>
  BY <1>1, NothingGoes
<1>2. CASE Requests
  BY <1>1, <1>2
  DEF Requests, StartManual, StartInteractive, Admit, CancelRun, Resume, StoreRoutes,
      serviceVars
<1>3. ASSUME NEW c \in Executions, Execution(c) PROVE ServiceGoes(q)
  <2>1. CASE Call(c)
    BY <2>1, CallGoes
  <2>2. CASE Abort(c)
    <3>1. c[1] \in Runs
      BY DEF Executions
    <3>2. QED
      BY <2>2, <1>1, <3>1, CancelGoes DEF Abort, ServeNothing, serviceVars
  <2>3. CASE Begin(c) \/ Wake(c) \/ CompleteOne(c) \/ BatchDone(c)
    BY <1>1, <2>3 DEF Begin, Wake, CompleteOne, BatchDone, serviceVars
  <2>4. QED
    BY <1>3, <2>1, <2>2, <2>3 DEF Execution
<1>4. ASSUME NEW c \in Executions, Callback(c) PROVE ServiceGoes(q)
  BY <1>1, <1>4 DEF Callback, serviceVars
<1>5. CASE BeginClose \/ FinishClose
  BY <1>1, <1>5 DEF BeginClose, FinishClose, serviceVars
<1>6. ASSUME NEW r \in ActiveRuns, CloseCancel(r) PROVE ServiceGoes(q)
  BY <1>6, CancelGoes, TruthParts DEF CloseCancel
<1>7. ASSUME NEW r \in ActiveRuns, ServiceAnswers(r) PROVE ServiceGoes(q)
  <2>1. log \in [Runs -> Seq(Entry)] /\ r \in Runs
    BY TruthParts DEF ServiceKept
  <2>2. PICK i, v : Append1(r, i, v)
    BY <1>7 DEF ServiceAnswers
  <2>3. Len(log'[r]) = Len(log[r]) + 1 /\ Len(log[r]) \in Nat
    BY <2>1, <2>2 DEF Append1
  <2>4. Len(log[r]) <= Len(log'[r])
    BY <2>3
  <2>5. QED
    BY <1>7, <2>1, <2>4, AnswerGoes DEF ServiceAnswers
<1>8. ASSUME NEW r \in ActiveRuns, ServiceForgets(r) PROVE ServiceGoes(q)
  <2>1. accepted \in [Runs -> 0..Cardinality(Configs)] /\ log \in [Runs -> Seq(Entry)] /\ r \in Runs
    BY TruthParts DEF ServiceKept
  <2>2. CASE q = r
    <3>1. ~Exists(r)'
      BY <1>8, <2>1 DEF ServiceForgets, Exists
    <3>2. QED
      BY <2>2, <3>1 DEF ServiceGoes
  <2>3. CASE q # r
    BY <1>8, <2>1, <2>3 DEF ServiceForgets, ServiceGoes, Exists
  <2>4. QED
    BY <2>2, <2>3
<1>9. CASE ServiceRestarts
  BY <1>9 DEF ServiceRestarts, ServiceGoes, Exists
<1>10. CASE UNCHANGED vars
  BY <1>1, <1>10 DEF vars, serviceVars
<1>11. QED
  BY <1>2, <1>3, <1>4, <1>5, <1>6, <1>7, <1>8, <1>9, <1>10 DEF Next, SimulationService

(* What has been heard stays heard as the service goes on.                 *)
LEMMA AnswersGoOn ==
  ASSUME Truthful, Coordinated', NEW r \in ActiveRuns, ServiceGoes(r), Exists(r)'
  PROVE  /\ Agrees(r) =>
              Heard(r, log'[r]) /\ CaughtUp(r, status[r].cursor, log'[r])
         /\ \A c : c[1] = r /\ status[r].job /\ PageAgrees(c) =>
              PageOutOf(r, log'[r])
<1>1. /\ log[r] \in Seq(Entry) /\ Len(log[r]) \in Nat /\ DOMAIN log[r] = 1..Len(log[r])
      /\ status[r].cursor \in Nat /\ batch.next \in Nat
      /\ DOMAIN log'[r] = 1..Len(log'[r]) /\ Len(log'[r]) \in Nat
  <2>1. Cardinality(Configs) \in Nat
    BY FS_CardinalityType, WorkspaceAssumption
  <2>2. /\ log[r] \in Seq(Entry) /\ status[r].cursor \in Nat /\ batch.next \in Nat
    BY <2>1, TruthParts DEF ServiceKept, StatusRecord, PartsOK, BatchRecord
  <2>3. log'[r] \in Seq(Entry)
    BY TruthParts DEF Coordinated, Data, ServiceKept
  <2>4. QED
    BY <2>2, <2>3
<1>2. CASE log'[r] = log[r] /\ Exists(r)
  BY <1>2 DEF Agrees, PageAgrees
<1>3. CASE /\ Exists(r) /\ Len(log[r]) <= Len(log'[r])
           /\ \A i \in 1..Len(log[r]) : log'[r][i] = log[r][i]
  <2>1. ASSUME Agrees(r)
        PROVE  Heard(r, log'[r]) /\ CaughtUp(r, status[r].cursor, log'[r])
    <3>1. Heard(r, log[r]) /\ CaughtUp(r, status[r].cursor, log[r])
      BY <1>3, <2>1 DEF Agrees
    <3>2. Heard(r, log'[r])
      <4>1. ASSUME NEW k \in runs[r].missing, runs[r].verdict[k] # Unanswered
            PROVE  \E i \in DOMAIN log'[r] : /\ KeyOf(r, log'[r][i].model) = k
                                             /\ log'[r][i].verdict = runs[r].verdict[k]
        <5>1. PICK i \in DOMAIN log[r] : /\ KeyOf(r, log[r][i].model) = k
                                         /\ log[r][i].verdict = runs[r].verdict[k]
          BY <3>1, <4>1 DEF Heard
        <5>2. i \in DOMAIN log'[r] /\ log'[r][i] = log[r][i]
          BY <1>1, <1>3
        <5>3. QED
          BY <5>1, <5>2
      <4>2. QED
        BY <4>1 DEF Heard
    <3>3. CaughtUp(r, status[r].cursor, log'[r])
      BY <1>1, <1>3, <3>1 DEF CaughtUp
    <3>4. QED
      BY <3>2, <3>3
  <2>2. ASSUME NEW c, c[1] = r, PageAgrees(c) PROVE PageOutOf(r, log'[r])
    <3>1. PageOutOf(r, log[r])
      BY <1>3, <2>2 DEF PageAgrees
    <3>2. \A j \in 1..batch.next : log'[r][j] = log[r][j]
      BY <1>1, <1>3, <3>1 DEF PageOutOf
    <3>3. batch.next <= Len(log'[r])
      BY <1>1, <1>3, <3>1 DEF PageOutOf
    <3>4. ASSUME NEW i \in DOMAIN batch.todo
          PROVE  \E j \in 1..batch.next :
                   /\ batch.todo[i].key = KeyOf(r, log'[r][j].model)
                   /\ batch.todo[i].verdict = log'[r][j].verdict
      BY <3>1, <3>2 DEF PageOutOf
    <3>5. ASSUME NEW j \in 1..batch.next
          PROVE  \/ runs[r].verdict[KeyOf(r, log'[r][j].model)] # Unanswered
                 \/ KeyOf(r, log'[r][j].model) \in TodoKeys
      BY <3>1, <3>2 DEF PageOutOf
    <3>6. QED
      BY <3>3, <3>4, <3>5 DEF PageOutOf
  <2>3. QED
    BY <2>1, <2>2
<1>4. CASE log'[r] = <<>> /\ ~status[r].job
  <2>1. ASSUME Agrees(r)
        PROVE  Heard(r, log'[r]) /\ CaughtUp(r, status[r].cursor, log'[r])
    <3>1. status[r].cursor = 0 /\ \A k \in runs[r].missing : runs[r].verdict[k] = Unanswered
      BY <1>4, <2>1 DEF Agrees
    <3>2. Heard(r, log'[r])
      BY <3>1 DEF Heard
    <3>3. CaughtUp(r, status[r].cursor, log'[r])
      BY <1>4, <3>1 DEF CaughtUp
    <3>4. QED
      BY <3>2, <3>3
  <2>2. QED
    BY <1>4, <2>1
<1>5. QED
  BY <1>2, <1>3, <1>4 DEF ServiceGoes

(* A run whose results are left alone agrees with the service's answers.   *)
LEMMA AgreesStays ==
  ASSUME Truthful, Coordinated', NEW r \in ActiveRuns, Agrees(r), ServiceGoes(r),
         SameRun(runs[r], runs'[r]),
         status'[r].cursor = status[r].cursor, status[r].job => status'[r].job
  PROVE  Agrees(r)'
<1>1. \A i : KeyOf(r, i)' = KeyOf(r, i)
  BY DEF KeyOf, SameRun
<1>2. ASSUME Exists(r)' PROVE (Heard(r, log[r]) /\ CaughtUp(r, status[r].cursor, log[r]))'
  <2>1. Heard(r, log'[r]) /\ CaughtUp(r, status[r].cursor, log'[r])
    BY <1>2, AnswersGoOn
  <2>2. QED
    BY <1>1, <2>1 DEF Heard, CaughtUp, SameRun
<1>3. QED
  BY <1>2 DEF Agrees, SameRun

BatchElsewhere(c) == batch.by # c /\ batch'.by # c

(* What an execution relies on stands while others act.                    *)
LEMMA ReliesStays ==
  ASSUME Truthful, Coordinated', NEW c \in Executions, c[1] \in ActiveRuns, Relies(c),
         ServiceGoes(c[1]), SameRun(runs[c[1]], runs'[c[1]]),
         exec'[c] = exec[c], batch' = batch \/ BatchElsewhere(c),
         status'[c[1]].job = status[c[1]].job, status'[c[1]].error = status[c[1]].error
  PROVE  Relies(c)'
<1> DEFINE r == c[1]
<1>1. \A i : KeyOf(r, i)' = KeyOf(r, i)
  BY DEF KeyOf, SameRun
<1>2. Pending(r)' = Pending(r) /\ Settled(r)' = Settled(r)
  BY DEF Pending, Settled, SameRun
<1>3. exec[c].at = "batch" => batch' = batch
  BY TruthParts DEF BatchElsewhere, BatchOwned
<1>4. Collected(c)' => Collected(c)
  BY <1>3 DEF Collected
<1>5. ASSUME exec[c].at = "batch", batch.then = "page", PageAgrees(c), status[r].job
      PROVE  PageAgrees(c)'
  <2>1. batch' = batch /\ TodoKeys' = TodoKeys /\ UnderWay' = UnderWay
    BY <1>3, <1>5 DEF TodoKeys, UnderWay
  <2>2. ASSUME Exists(r)' PROVE PageOutOf(r, log[r])'
    <3>1. PageOutOf(r, log'[r])
      BY <1>5, <2>2, AnswersGoOn
    <3>2. QED
      BY <1>1, <2>1, <3>1 DEF PageOutOf, SameRun
  <2>3. QED
    BY <1>2, <1>5, <2>1, <2>2 DEF PageAgrees, SameRun
<1>6. ASSUME exec[c].at = "page", exec[c].seen \in Terminal, Exists(r)'
      PROVE  r \in announced' /\ exec[c].seen = UpstreamStatus(r)'
  <2>1. status[r].job
    BY <1>6 DEF Relies
  <2>2. Exists(r) => r \in announced /\ exec[c].seen = UpstreamStatus(r)
    BY <1>6 DEF Relies
  <2>3. log'[r] = log[r] /\ (r \in announced' <=> r \in announced) /\ Exists(r)
    BY <1>6, <2>1, <2>2 DEF ServiceGoes
  <2>4. UpstreamStatus(r)' = UpstreamStatus(r)
    BY <2>3 DEF UpstreamStatus, UpstreamVerdicts
  <2>5. QED
    BY <2>2, <2>3, <2>4
<1>7. QED
  BY <1>2, <1>3, <1>4, <1>5, <1>6 DEF Relies, SameRun

LEMMA FailingStays ==
  ASSUME Truthful, NEW r \in Runs,
         batch' = batch \/ \A s \in Slots : BatchElsewhere(<<r, s>>)
  PROVE  Failing(r) => Failing(r)'
<1>1. CASE batch' = batch
  BY <1>1 DEF Failing
<1>2. CASE \A s \in Slots : BatchElsewhere(<<r, s>>)
  <2>1. batch.by \in Executions \cup {Null} /\ (batch.by = Null => batch = NoBatch)
    BY TruthParts DEF PartsOK, BatchRecord, BatchOwned
  <2>2. batch.by # Null => batch.by[1] # r
    BY <1>2, <2>1 DEF BatchElsewhere, Executions
  <2>3. QED
    BY <2>1, <2>2 DEF Failing, NoBatch
<1>3. QED
  BY <1>1, <1>2

(* A run nobody acts on stays sound.                                       *)
LEMMA SoundStays ==
  ASSUME Truthful, Coordinated', NEW r \in ActiveRuns, ServiceGoes(r),
         SameRun(runs[r], runs'[r]),
         \A s \in Slots : exec'[<<r, s>>] = exec[<<r, s>>],
         batch' = batch \/ \A s \in Slots : BatchElsewhere(<<r, s>>),
         status'[r].cursor = status[r].cursor,
         status'[r].job = status[r].job, status'[r].error = status[r].error
  PROVE  Sound(r)'
<1>1. Sound(r) /\ r \in Runs
  BY TruthParts
<1>2. ~Failing(r)' => Agrees(r)'
  BY <1>1, FailingStays, AgreesStays DEF Sound
<1>3. ASSUME NEW s \in Slots PROVE Relies(<<r, s>>)'
  <2> DEFINE c == <<r, s>>
  <2>1. c \in Executions /\ c[1] = r /\ Relies(c)
    BY <1>1 DEF Executions, Sound
  <2>2. exec'[c] = exec[c] /\ (batch' = batch \/ BatchElsewhere(c))
    OBVIOUS
  <2> HIDE DEF c
  <2>3. Relies(c)'
    BY <2>1, <2>2, ReliesStays
  <2>4. QED
    BY <2>3 DEF c
<1>4. QED
  BY <1>2, <1>3 DEF Sound

(* What a run says stays true while it goes on.                            *)
LEMMA SaysStays ==
  ASSUME Truthful, NEW r \in DOMAIN runs, SameRun(runs[r], runs'[r]),
         \/ status'[r].state = status[r].state /\ status'[r].error = status[r].error
         \/ ~runs[r].over /\ status'[r].state \notin Terminal
  PROVE  SaysTruth(r)'
<1>1. SaysTruth(r)
  BY TruthParts
<1>2. CASE status'[r].state = status[r].state /\ status'[r].error = status[r].error
  BY <1>1, <1>2 DEF SaysTruth, SameRun
<1>3. CASE ~runs[r].over /\ status'[r].state \notin Terminal
  BY <1>3 DEF SaysTruth, SameRun, Terminal
<1>4. QED
  BY <1>2, <1>3

-----------------------------------------------------------------------------
(* What a run says is true: the executions' part                           *)

(* What a step of an execution has to show of its run.                     *)
ActsTruly(c) ==
  LET r == c[1]
  IN /\ r \in ActiveRuns' => (~Failing(r)' => Agrees(r)') /\ Relies(c)'
     /\ SaysTruth(r)'
     /\ status'[r].error \notin {"incomplete", "internal"}

LEMMA OthersStayTrue ==
  ASSUME Truthful, Coordinated', NEW c \in Executions, Acting(c),
         (Moved(c) /\ RunsGoOn) \/ Ended(c),
         \A q \in Runs : ServiceGoes(q),
         DOMAIN runs' = DOMAIN runs,
         \A q \in DOMAIN runs \ {c[1]} : runs'[q] = runs[q],
         ActsTruly(c)
  PROVE  Truth'
<1> DEFINE r == c[1]
<1>1. /\ r \in Runs /\ c[2] \in Slots /\ c = <<r, c[2]>> /\ r \in ActiveRuns
      /\ tasks[r] = c[2]
  BY TruthParts, WorkingRun DEF Acting
<1>2. PartsOK
  BY TruthParts
<1>3. \A d \in Executions \ {c} : exec'[d] = exec[d]
  <2>1. \E e : exec' = [exec EXCEPT ![c] = e]
    BY DEF Moved, Ended
  <2>2. QED
    BY <1>2, <2>1 DEF PartsOK
<1>4. \A q \in Runs \ {r} : status'[q] = status[q]
  <2>1. \E st : status' = [status EXCEPT ![r] = st]
    BY DEF Moved, Ended
  <2>2. QED
    BY <1>2, <2>1 DEF PartsOK
<1>5. \A d \in Executions \ {c} : BatchElsewhere(d)
  <2>1. batch = NoBatch \/ batch.by = c
    BY DEF Acting
  <2>2. batch' = NoBatch \/ batch'.by = c
    BY DEF Moved, Ended
  <2>3. \A d \in Executions : NoBatch.by # d
    BY CoordinatorAssumption DEF NoBatch, Executions, Slots
  <2>4. QED
    BY <2>1, <2>2, <2>3 DEF BatchElsewhere
<1>6. ASSUME NEW q \in Runs \ {r}, NEW s \in Slots
      PROVE  <<q, s>> \in Executions \ {c}
  <2>1. <<q, s>> # c
    BY <1>1, OtherPairs
  <2>2. QED
    BY <2>1 DEF Executions
<1>7. ASSUME NEW q \in ActiveRuns' PROVE Sound(q)'
  <2>1. q \in DOMAIN runs /\ q \in Runs
    BY TruthParts DEF ActiveRuns
  <2>2. CASE q # r
    <3>1. runs'[q] = runs[q] /\ status'[q] = status[q]
      BY <1>4, <2>1, <2>2
    <3>2. q \in ActiveRuns
      BY <2>1, <3>1 DEF ActiveRuns, Active
    <3>3. SameRun(runs[q], runs'[q])
      BY <3>1 DEF SameRun
    <3>4. \A s \in Slots : exec'[<<q, s>>] = exec[<<q, s>>] /\ BatchElsewhere(<<q, s>>)
      BY <1>3, <1>5, <1>6, <2>1, <2>2
    <3>5. QED
      BY <2>1, <3>1, <3>2, <3>3, <3>4, SoundStays
  <2>3. CASE q = r
    <3>1. (~Failing(r)' => Agrees(r)') /\ Relies(c)'
      BY <2>3 DEF ActsTruly
    <3>2. ASSUME NEW s \in Slots PROVE Relies(<<r, s>>)'
      <4>1. CASE s = c[2]
        BY <1>1, <3>1, <4>1
      <4>2. CASE s # c[2]
        <5>1. <<r, s>> \in Executions /\ <<r, s>> # c
          BY <1>1, <4>2, OtherPairs DEF Executions
        <5>2. exec'[<<r, s>>] = exec[<<r, s>>]
          BY <1>3, <5>1
        <5>3. exec[<<r, s>>].at \notin Live
          BY <1>1, <4>2, TruthParts DEF WorksAlone
        <5>4. exec'[<<r, s>>].at \notin Live
          BY <5>2, <5>3
        <5>5. QED
          BY <5>4 DEF Relies, Collected, Live, Places
      <4>3. QED
        BY <4>1, <4>2
    <3>3. QED
      BY <2>3, <3>1, <3>2 DEF Sound
  <2>4. QED
    BY <2>2, <2>3
<1>8. ASSUME NEW q \in DOMAIN runs' PROVE SaysTruth(q)'
  <2>1. q \in DOMAIN runs /\ q \in Runs
    BY TruthParts
  <2>2. CASE q = r
    BY <2>2 DEF ActsTruly
  <2>3. CASE q # r
    BY <1>4, <2>1, <2>3, SaysStays DEF SameRun
  <2>4. QED
    BY <2>2, <2>3
<1>9. ReadsConsistent'
  BY <1>1, <1>4, TruthParts DEF ActsTruly, ReadsConsistent
<1>10. QED
  BY <1>7, <1>8, <1>9 DEF Truth

(* A step that leaves the results alone has to show what the execution may *)
(* rely on next.                                                           *)
LEMMA GoesOnTruly ==
  ASSUME Truthful, Coordinated', NEW c \in Executions, exec[c].at \in Live,
         UNCHANGED runs, ServiceGoes(c[1]), ~Failing(c[1]),
         NEW st \in StatusRecord, status' = [status EXCEPT ![c[1]] = st],
         st.cursor = status[c[1]].cursor, status[c[1]].job => st.job,
         st.state \notin Terminal, st.error \notin {"incomplete", "internal"},
         Relies(c)'
  PROVE  ActsTruly(c)
<1>1. c[1] \in Runs /\ c[1] \in ActiveRuns /\ c[1] \in DOMAIN runs /\ Agrees(c[1])
  BY LiveRelies
<1>2. status'[c[1]] = st
  BY <1>1, TruthParts DEF PartsOK
<1>3. SameRun(runs[c[1]], runs'[c[1]]) /\ ~runs[c[1]].over
  BY <1>1 DEF SameRun, ActiveRuns, Active
<1>4. Agrees(c[1])' /\ SaysTruth(c[1])'
  BY <1>1, <1>2, <1>3, AgreesStays, SaysStays
<1>5. QED
  BY <1>2, <1>4 DEF ActsTruly

(* The status of a run whose execution is live.                            *)
LEMMA LiveStatus ==
  ASSUME Truthful, NEW c \in Executions, exec[c].at \in Live
  PROVE  /\ status[c[1]] \in StatusRecord /\ status[c[1]].state \notin Terminal
         /\ status[c[1]].error \notin {"incomplete", "internal"}
         /\ exec[c] \in ExecRecord
<1>1. c[1] \in Runs /\ c[1] \in ActiveRuns /\ c[1] \in DOMAIN runs
  BY LiveRelies
<1>2. status[c[1]].state \notin Terminal
  BY <1>1, TruthParts DEF SaysTruth, ActiveRuns, Active
<1>3. QED
  BY <1>1, <1>2, TruthParts DEF ReadsConsistent, PartsOK

LEMMA RaiseTruly ==
  ASSUME Truthful, Coordinated', NEW c \in Executions, exec[c].at \in Live,
         ServiceGoes(c[1]), ~Failing(c[1]),
         NEW error \in Errors \ {"none", "incomplete", "internal"}, Raise(c, error)
  PROVE  ActsTruly(c)
<1> DEFINE r == c[1]
           st == [status[r] EXCEPT !.error = error]
<1>1. /\ status[r] \in StatusRecord /\ status[r].state \notin Terminal
      /\ exec \in [Executions -> ExecRecord]
  BY LiveStatus, TruthParts DEF PartsOK
<1>2. /\ st \in StatusRecord /\ st.error = error /\ st.cursor = status[r].cursor
      /\ st.job = status[r].job /\ st.state = status[r].state
  BY <1>1 DEF StatusRecord
<1>3. status' = [status EXCEPT ![r] = st] /\ UNCHANGED runs
  BY DEF Raise, workspaceVars
<1> HIDE DEF st
<1>4. status'[r].error # "none"
  BY <1>2, <1>3, LiveRelies, TruthParts DEF PartsOK
<1>5. Relies(c)'
  <2>1. CASE exec' = [exec EXCEPT ![c].at = "abort"]
    <3>1. exec'[c].at = "abort"
      BY <1>1, <2>1 DEF ExecRecord
    <3>2. QED
      BY <1>4, <3>1 DEF Relies, Collected
  <2>2. CASE /\ exec' = [exec EXCEPT ![c].at = "batch"]
             /\ batch' = [todo |-> Unfinished(r), then |-> "failed", by |-> c, next |-> 0]
    <3>1. exec'[c].at = "batch" /\ batch'.then = "failed"
      BY <1>1, <2>2 DEF ExecRecord
    <3>2. QED
      BY <1>4, <3>1 DEF Relies, Collected
  <2>3. QED
    BY <2>1, <2>2 DEF Raise, MoveTo, Start
<1>6. QED
  BY <1>1, <1>2, <1>3, <1>5, GoesOnTruly

LEMMA OnwardTruly ==
  ASSUME Truthful, Coordinated', NEW c \in Executions, exec[c].at \in Live,
         ServiceGoes(c[1]), ~Failing(c[1]), Pending(c[1]) \subseteq runs[c[1]].missing,
         NEW st \in StatusRecord, Onward(c, st),
         st.cursor = status[c[1]].cursor, status[c[1]].job => st.job,
         st.state \notin Terminal, st.error \notin {"incomplete", "internal"}
  PROVE  ActsTruly(c)
<1> DEFINE r == c[1]
           place == NextCall(st)
           new == IF place = "cancel" THEN [st EXCEPT !.state = "cancelling"] ELSE st
<1>1. /\ new \in StatusRecord /\ new.cursor = st.cursor /\ new.job = st.job
      /\ new.error = st.error /\ new.state \notin Terminal
  BY DEF StatusRecord, States, Terminal
<1>2. place \in {"ready", "cancel", "status"} /\ (place = "ready" <=> ~st.job)
  BY DEF NextCall
<1>3. /\ status' = [status EXCEPT ![r] = new] /\ MoveTo(c, place)
      /\ UNCHANGED runs
  BY DEF Onward, workspaceVars
<1> HIDE DEF place, new
<1>4. status'[r] = new /\ exec'[c].at = place
  BY <1>3, LiveRelies, TruthParts DEF PartsOK, MoveTo, ExecRecord
<1>5. Relies(c)'
  BY <1>1, <1>2, <1>3, <1>4 DEF Relies, Collected, Pending
<1>6. QED
  BY <1>1, <1>3, <1>5, GoesOnTruly

(* The page read after a terminal status is the last one.                  *)
LEMMA PageAgreement ==
  ASSUME Truthful, NEW c \in Executions, exec[c].at = "page", Exists(c[1]),
         batch'.todo = PageOf(c[1]), batch'.next = Len(log[c[1]]),
         UNCHANGED <<runs, accepted, log, announced, forgotten>>,
         exec'[c].seen = exec[c].seen
  PROVE  PageAgrees(c)'
<1> DEFINE r == c[1]
           L == log[r]
           page == PageOf(r)
           verdict == runs[r].verdict
           cursor == status[r].cursor
<1>1. /\ exec[c].at \in Live /\ ~Failing(r)
      /\ Coordinated /\ WorkspaceTypeOK /\ ServiceKept
  <2>1. exec[c].at # "batch"
    OBVIOUS
  <2>2. batch.by # c
    BY <2>1, TruthParts DEF BatchOwned
  <2>3. exec[c].at \in Live
    BY DEF Live, Places
  <2>4. ~Failing(r)
    <3>1. SUFFICES ASSUME Failing(r) PROVE FALSE
      OBVIOUS
    <3>2. batch.by \in Executions
      BY <3>1, TruthParts DEF Failing, PartsOK, BatchRecord, BatchOwned, NoBatch
    <3>3. exec[batch.by].at = "batch" /\ batch.by[1] = r
      BY <3>1, <3>2, TruthParts DEF Failing, BatchOwned
    <3>4. exec[batch.by].at \in Live
      BY <3>3 DEF Live, Places
    <3>5. batch.by = <<r, batch.by[2]>> /\ batch.by[2] = tasks[r] /\ c[2] = tasks[r] /\ c = <<r, c[2]>>
      BY <2>3, <3>2, <3>3, <3>4, TruthParts, WorkingRun
    <3>6. QED
      BY <2>2, <3>5
  <2>5. QED
    BY <2>3, <2>4, TruthParts
<1>2. /\ r \in DOMAIN runs /\ r \in Runs /\ r \in ActiveRuns /\ Agrees(r) /\ Relies(c)
  BY <1>1, LiveRelies
<1>3. /\ Heard(r, L) /\ CaughtUp(r, cursor, L)
  BY <1>2 DEF Agrees
<1>4. /\ L \in Seq(Entry) /\ Len(L) \in Nat /\ DOMAIN L = 1..Len(L)
      /\ cursor \in Nat
  <2>1. Cardinality(Configs) \in Nat
    BY FS_CardinalityType, WorkspaceAssumption
  <2>2. QED
    BY <1>1, <1>2, <2>1, TruthParts, LogIsShort DEF StatusRecord
<1>5. /\ DOMAIN page = 1..(Len(L) - cursor)
      /\ \A i \in DOMAIN page :
           /\ cursor + i \in DOMAIN L
           /\ page[i].key = KeyOf(r, L[cursor + i].model)
           /\ page[i].key \in runs[r].missing
           /\ page[i].verdict = L[cursor + i].verdict
  BY <1>1, <1>2, PageEntries
<1>6. \A i, j \in DOMAIN L : KeyOf(r, L[i].model) = KeyOf(r, L[j].model) => i = j
  <2>1. ServiceOf(r) /\ Asked(r)
    BY <1>1, <1>2, TruthParts DEF ServiceKept
  <2>2. \A i \in DOMAIN L : L[i].model \in 1..Cardinality(runs[r].missing)
    BY <1>1, <1>2, LogNamesMissing
  <2>3. \A m, n \in 1..Cardinality(runs[r].missing) : KeyOf(r, m) = KeyOf(r, n) => m = n
    BY <1>1, <1>2, <2>1, ModelsAreMissing
  <2>4. \A i, j \in DOMAIN L : L[i].model = L[j].model => i = j
    BY <2>1 DEF ServiceOf
  <2>5. QED
    BY <2>2, <2>3, <2>4
<1>7. \A i \in DOMAIN L : /\ KeyOf(r, L[i].model) \in runs[r].missing
                          /\ verdict[KeyOf(r, L[i].model)] \in {Unanswered, L[i].verdict}
                          /\ L[i].verdict \in Verdicts
  <2>1. \A i \in DOMAIN L : KeyOf(r, L[i].model) \in runs[r].missing /\ L[i].verdict \in Verdicts
    BY <1>1, <1>2, LogNamesMissing
  <2>2. ASSUME NEW i \in DOMAIN L, verdict[KeyOf(r, L[i].model)] # Unanswered
        PROVE  verdict[KeyOf(r, L[i].model)] = L[i].verdict
    <3>1. PICK j \in DOMAIN L : /\ KeyOf(r, L[j].model) = KeyOf(r, L[i].model)
                               /\ L[j].verdict = verdict[KeyOf(r, L[i].model)]
      BY <1>3, <2>1, <2>2 DEF Heard
    <3>2. QED
      BY <1>6, <3>1
  <2>3. QED
    BY <2>1, <2>2
<1> DEFINE todoKeys == {page[i].key : i \in DOMAIN page}
           underWay == {page[i].verdict : i \in DOMAIN page}
<1>8. TodoKeys' = todoKeys /\ UnderWay' = underWay
  BY DEF TodoKeys, UnderWay
<1>9. /\ \A i : KeyOf(r, i)' = KeyOf(r, i)
      /\ Pending(r)' = Pending(r) /\ Settled(r)' = Settled(r)
      /\ Exists(r)' /\ UpstreamStatus(r)' = UpstreamStatus(r)
  BY DEF KeyOf, Pending, Settled, Exists, UpstreamStatus, UpstreamVerdicts
<1>10. \A j \in DOMAIN L :
          \/ verdict[KeyOf(r, L[j].model)] # Unanswered
          \/ KeyOf(r, L[j].model) \in todoKeys /\ L[j].verdict \in underWay
  <2>1. SUFFICES ASSUME NEW j \in DOMAIN L
                 PROVE  verdict[KeyOf(r, L[j].model)] # Unanswered
                        \/ (KeyOf(r, L[j].model) \in todoKeys /\ L[j].verdict \in underWay)
    OBVIOUS
  <2>2. CASE j <= cursor
    <3>1. j \in 1..cursor
      BY <1>4, <2>2
    <3>2. QED
      BY <1>3, <3>1 DEF CaughtUp
  <2>3. CASE j > cursor
    <3>1. (j - cursor) \in DOMAIN page /\ cursor + (j - cursor) = j
      BY <1>4, <1>5, <2>3
    <3>2. page[j - cursor].key = KeyOf(r, L[j].model) /\ page[j - cursor].verdict = L[j].verdict
      BY <1>5, <3>1
    <3>3. QED
      BY <3>1, <3>2
  <2>4. QED
    BY <1>4, <2>2, <2>3
<1> HIDE DEF L, page, verdict, cursor, todoKeys, underWay
<1>11. \A i, j \in DOMAIN page : page[i].key = page[j].key => page[i].verdict = page[j].verdict
  BY <1>5, <1>6
<1>12. \A i \in DOMAIN page : verdict[page[i].key] \in {Unanswered, page[i].verdict}
  BY <1>5, <1>7
<1>13. \A i \in DOMAIN page : \E j \in 1..Len(L) :
          page[i].key = KeyOf(r, L[j].model) /\ page[i].verdict = L[j].verdict
  BY <1>4, <1>5
<1>14. ASSUME exec[c].seen \in Terminal
       PROVE  /\ Pending(r) \subseteq todoKeys
              /\ Justified(exec[c].seen, Settled(r) \cup underWay)
              /\ exec[c].seen # "failed"
  <2>1. r \in announced /\ exec[c].seen = UpstreamStatus(r)
    BY <1>2, <1>14 DEF Relies
  <2>2. \A k \in runs[r].missing : \E i \in DOMAIN L : KeyOf(r, L[i].model) = k
    <3>1. /\ accepted[r] = Cardinality(runs[r].missing)
          /\ AnsweredModels(r) = 1..accepted[r]
      BY <1>1, <1>2, <2>1 DEF ServiceKept, ServiceOf
    <3>2. \A k \in runs[r].missing : \E m \in 1..Cardinality(runs[r].missing) : KeyOf(r, m) = k
      BY <1>1, <1>2, TruthParts, ModelsAreMissing
    <3>3. \A m \in 1..Cardinality(runs[r].missing) : \E i \in DOMAIN L : L[i].model = m
      BY <3>1 DEF AnsweredModels, L
    <3>4. QED
      BY <3>2, <3>3
  <2>3. Pending(r) \subseteq runs[r].missing
    BY <1>2 DEF Relies, Collected
  <2>4. Pending(r) \subseteq todoKeys
    <3>1. \A k \in Pending(r) : verdict[k] = Unanswered
      BY DEF Pending, verdict
    <3>2. QED
      BY <1>10, <2>2, <2>3, <3>1
  <2>5. \A i \in DOMAIN L : L[i].verdict \in Settled(r) \cup underWay
    <3>1. \A k \in runs[r].missing : verdict[k] # Unanswered => verdict[k] \in Settled(r)
      BY <1>2, TruthParts DEF Settled, verdict, Asked
    <3>2. QED
      BY <1>7, <1>10, <3>1
  <2>6. \A v \in Settled(r) \cup underWay :
           v = "succeeded" \/ \E i \in DOMAIN L : L[i].verdict = v
    <3>1. \A v \in underWay : \E i \in DOMAIN L : L[i].verdict = v
      BY <1>5 DEF underWay
    <3>2. ASSUME NEW k \in runs[r].keys, verdict[k] # Unanswered
          PROVE  verdict[k] = "succeeded" \/ \E i \in DOMAIN L : L[i].verdict = verdict[k]
      <4>1. CASE k \in runs[r].missing
        BY <1>3, <3>2, <4>1 DEF Heard, verdict
      <4>2. CASE k \notin runs[r].missing
        BY <1>2, <3>2, <4>2 DEF Agrees, verdict
      <4>3. QED
        BY <4>1, <4>2
    <3>3. QED
      BY <3>1, <3>2 DEF Settled, verdict
  <2>7. UpstreamVerdicts(r) = {L[i].verdict : i \in DOMAIN L}
    BY DEF UpstreamVerdicts, L
  <2>8. \A v \in Settled(r) \cup underWay : v = "succeeded" \/ v \in UpstreamVerdicts(r)
    BY <2>6, <2>7
  <2>9. UpstreamVerdicts(r) \subseteq (Settled(r) \cup underWay) \cap Verdicts
    BY <1>7, <2>5, <2>7
  <2>10. Verdicts = {"succeeded", "failed", "cancelled"}
    BY CoordinatorAssumption
  <2>11. CASE "cancelled" \in UpstreamVerdicts(r)
    <3>1. exec[c].seen = "cancelled"
      BY <2>1, <2>11 DEF UpstreamStatus
    <3>2. QED
      BY <2>4, <2>9, <2>11, <3>1 DEF Justified
  <2>12. CASE "cancelled" \notin UpstreamVerdicts(r) /\ "failed" \in UpstreamVerdicts(r)
    <3>1. exec[c].seen = "completed_with_errors"
      BY <2>1, <2>12 DEF UpstreamStatus
    <3>2. QED
      BY <2>4, <2>8, <2>9, <2>12, <3>1 DEF Justified
  <2>13. CASE "cancelled" \notin UpstreamVerdicts(r) /\ "failed" \notin UpstreamVerdicts(r)
    <3>1. exec[c].seen = "completed"
      BY <2>1, <2>13 DEF UpstreamStatus
    <3>2. \A v \in Settled(r) \cup underWay : v = "succeeded"
      BY <2>8, <2>9, <2>10, <2>13
    <3>3. QED
      BY <2>4, <3>1, <3>2 DEF Justified
  <2>14. QED
    BY <2>11, <2>12, <2>13
<1>15. PageOutOf(r, log[r])'
  <2>1. batch'.next <= Len(log'[r])
    BY <1>4 DEF L
  <2>2. \A i \in DOMAIN batch'.todo : \E j \in 1..batch'.next :
           /\ batch'.todo[i].key = KeyOf(r, log[r][j].model)
           /\ batch'.todo[i].verdict = log[r][j].verdict
    BY <1>13 DEF L, page
  <2>3. \A j \in 1..batch'.next :
           \/ runs[r].verdict[KeyOf(r, log[r][j].model)] # Unanswered
           \/ KeyOf(r, log[r][j].model) \in TodoKeys'
    BY <1>4, <1>8, <1>10 DEF L, verdict
  <2>4. QED
    BY <1>9, <2>1, <2>2, <2>3 DEF PageOutOf
<1>16. QED
  BY <1>8, <1>9, <1>11, <1>12, <1>14, <1>15 DEF PageAgrees, L, page, verdict

LEMMA FreeIsNotFailing == ASSUME LoopIsFree, NEW r PROVE ~Failing(r)
  BY DEF LoopIsFree, Failing, NoBatch

(* The same status, for a step that leaves it alone.                       *)
LEMMA SilentlyTruly ==
  ASSUME Truthful, Coordinated', NEW c \in Executions, exec[c].at \in Live,
         UNCHANGED <<runs, status>>, ServiceGoes(c[1]), ~Failing(c[1]), Relies(c)'
  PROVE  ActsTruly(c)
<1>1. /\ status[c[1]] \in StatusRecord /\ status[c[1]].state \notin Terminal
      /\ status[c[1]].error \notin {"incomplete", "internal"}
  BY LiveStatus
<1>2. status' = [status EXCEPT ![c[1]] = status[c[1]]]
  BY TruthParts DEF PartsOK
<1>3. QED
  BY <1>1, <1>2, GoesOnTruly

LEMMA AnsweredTruly ==
  ASSUME Truthful, Coordinated', NEW c \in Executions, exec[c].at \in Live,
         LoopIsFree, Answered(c), ServiceGoes(c[1])
  PROVE  ActsTruly(c)
<1> DEFINE r == c[1]
<1>1. /\ r \in Runs /\ r \in DOMAIN runs /\ Relies(c) /\ ~Failing(r)
      /\ status[r] \in StatusRecord /\ status[r].state \notin Terminal
      /\ status[r].error \notin {"incomplete", "internal"}
      /\ exec \in [Executions -> ExecRecord] /\ exec[c] \in ExecRecord
  BY LiveRelies, LiveStatus, FreeIsNotFailing, TruthParts DEF PartsOK
<1>2. CASE exec[c].at = "ready" /\ MoveTo(c, "submit") /\ UNCHANGED <<workspaceVars, status>>
  <2>1. exec'[c].at = "submit" /\ runs' = runs
    BY <1>1, <1>2 DEF MoveTo, ExecRecord, workspaceVars
  <2>2. Relies(c)'
    BY <1>1, <1>2, <2>1 DEF Relies, Collected, Pending
  <2>3. QED
    BY <1>1, <1>2, <2>1, <2>2, SilentlyTruly
<1>3. CASE exec[c].at = "submit" /\ Onward(c, [status[r] EXCEPT !.job = TRUE])
  <2> DEFINE st == [status[r] EXCEPT !.job = TRUE]
  <2>1. /\ st \in StatusRecord /\ st.cursor = status[r].cursor /\ st.job
        /\ st.state = status[r].state /\ st.error = status[r].error
    BY <1>1 DEF StatusRecord
  <2>2. Pending(r) \subseteq runs[r].missing
    BY <1>1, <1>3 DEF Relies, Collected
  <2>3. Onward(c, st)
    BY <1>3
  <2> HIDE DEF st
  <2>4. QED
    BY <1>1, <2>1, <2>2, <2>3, OnwardTruly
<1>4. CASE exec[c].at = "cancel" /\ MoveTo(c, "status") /\ UNCHANGED <<workspaceVars, status>>
  <2>1. exec'[c].at = "status" /\ runs' = runs
    BY <1>1, <1>4 DEF MoveTo, ExecRecord, workspaceVars
  <2>2. Relies(c)'
    BY <1>1, <1>4, <2>1 DEF Relies, Collected, Pending
  <2>3. QED
    BY <1>1, <1>4, <2>1, <2>2, SilentlyTruly
<1>5. CASE /\ exec[c].at = "status" /\ ServeNothing
           /\ exec' = [exec EXCEPT ![c].at = "page", ![c].seen = UpstreamStatus(r)]
           /\ UNCHANGED <<workspaceVars, status>>
  <2>1. exec'[c].at = "page" /\ exec'[c].seen = UpstreamStatus(r) /\ runs' = runs
    BY <1>1, <1>5 DEF ExecRecord, workspaceVars
  <2>2. UpstreamStatus(r)' = UpstreamStatus(r) /\ announced' = announced
    BY <1>5 DEF ServeNothing, serviceVars, UpstreamStatus, UpstreamVerdicts
  <2>3. UpstreamStatus(r) \in Terminal => r \in announced
    BY DEF UpstreamStatus, Terminal
  <2>4. Pending(r)' \subseteq runs'[r].missing
    BY <1>1, <1>5, <2>1 DEF Relies, Collected, Pending
  <2>5. status'[r].job
    BY <1>1, <1>5 DEF Relies
  <2>6. Relies(c)'
    BY <2>1, <2>2, <2>3, <2>4, <2>5 DEF Relies
  <2>7. QED
    BY <1>1, <1>5, <2>1, <2>6, SilentlyTruly
<1>6. CASE /\ exec[c].at = "page" /\ Exists(r) /\ ServeNothing
           /\ Start(c, "page", PageOf(r), Len(log[r]))
           /\ UNCHANGED <<workspaceVars, status>>
  <2>1. /\ exec'[c].at = "batch" /\ exec'[c].seen = exec[c].seen /\ runs' = runs
        /\ batch'.todo = PageOf(r) /\ batch'.next = Len(log[r]) /\ batch'.then = "page"
    BY <1>1, <1>6 DEF Start, ExecRecord, workspaceVars
  <2>2. UNCHANGED <<accepted, log, announced, forgotten>>
    BY <1>6 DEF ServeNothing, serviceVars
  <2>3. PageAgrees(c)'
    BY <1>6, <2>1, <2>2, PageAgreement
  <2>4. Pending(r)' \subseteq runs'[r].missing
    BY <1>1, <1>6, <2>1 DEF Relies, Collected, Pending
  <2>5. status'[r].job
    BY <1>1, <1>6 DEF Relies
  <2>6. Relies(c)'
    BY <2>1, <2>3, <2>4, <2>5 DEF Relies
  <2>7. QED
    BY <1>1, <1>6, <2>1, <2>6, SilentlyTruly
<1>7. QED
  BY <1>2, <1>3, <1>4, <1>5, <1>6 DEF Answered, PageOf

LEMMA UnavailableTruly ==
  ASSUME Truthful, Coordinated', NEW c \in Executions, exec[c].at \in Live,
         exec[c].at \in {"ready", "submit", "cancel", "status", "page"},
         LoopIsFree, Unavailable(c), ServiceGoes(c[1])
  PROVE  ActsTruly(c)
<1> DEFINE r == c[1]
           st == [status[r] EXCEPT !.state = "reconnecting", !.error = "unavailable"]
           paused == [st EXCEPT !.paused = TRUE]
<1>1. /\ r \in Runs /\ r \in DOMAIN runs /\ Relies(c) /\ ~Failing(r)
      /\ status[r] \in StatusRecord /\ exec \in [Executions -> ExecRecord]
  BY LiveRelies, LiveStatus, FreeIsNotFailing, TruthParts DEF PartsOK
<1>2. /\ st \in StatusRecord /\ st.cursor = status[r].cursor /\ st.job = status[r].job
      /\ st.state \notin Terminal /\ st.error \notin {"incomplete", "internal"}
  BY <1>1 DEF StatusRecord, States, Errors, Terminal
<1> HIDE DEF st
<1>3. /\ paused \in StatusRecord /\ paused.cursor = st.cursor /\ paused.job = st.job
      /\ paused.state = st.state /\ paused.error = st.error
  BY <1>2 DEF StatusRecord
<1>4. runs' = runs
  BY DEF Unavailable, workspaceVars
<1>5. Pending(r)' \subseteq runs'[r].missing
  BY <1>1, <1>4 DEF Relies, Collected, Pending
<1>6. CASE /\ status' = [status EXCEPT ![r] = st]
           /\ \E n : exec' = [exec EXCEPT ![c] = [Idling EXCEPT
                                !.at = "sleep", !.failures = n]]
  <2>1. exec'[c].at = "sleep"
    BY <1>1, <1>6 DEF Idling
  <2>2. Relies(c)'
    BY <1>5, <2>1 DEF Relies
  <2>3. QED
    BY <1>1, <1>2, <1>4, <1>6, <2>2, GoesOnTruly
<1>7. CASE status' = [status EXCEPT ![r] = paused] /\ End(c)
  <2>1. exec'[c].at = "over"
    BY <1>1, <1>7 DEF End, Idling
  <2>2. Relies(c)'
    BY <2>1 DEF Relies, Collected
  <2> HIDE DEF paused
  <2>3. QED
    BY <1>1, <1>2, <1>3, <1>4, <1>7, <2>2, GoesOnTruly
<1>8. QED
  BY <1>6, <1>7 DEF Unavailable, st

LEMMA AbortTruly ==
  ASSUME Truthful, Coordinated', NEW c \in Executions, exec[c].at \in Live,
         LoopIsFree, Abort(c), ServiceGoes(c[1])
  PROVE  ActsTruly(c)
<1>1. /\ c[1] \in Runs /\ Relies(c) /\ ~Failing(c[1])
      /\ exec \in [Executions -> ExecRecord]
  BY LiveRelies, FreeIsNotFailing, TruthParts DEF PartsOK
<1>2. /\ exec[c].at = "abort" /\ Start(c, "failed", Unfinished(c[1]), 0)
      /\ UNCHANGED <<runs, status>>
  BY DEF Abort, workspaceVars
<1>3. exec'[c].at = "batch" /\ batch'.then = "failed"
  BY <1>1, <1>2 DEF Start, ExecRecord
<1>4. Relies(c)'
  BY <1>1, <1>2, <1>3 DEF Relies, Collected
<1>5. QED
  BY <1>1, <1>2, <1>4, SilentlyTruly

LEMMA BeginTruly ==
  ASSUME Truthful, Coordinated', NEW c \in Executions, exec[c].at \in Live,
         LoopIsFree, Begin(c), ServiceGoes(c[1])
  PROVE  ActsTruly(c)
<1>1. ~Failing(c[1]) /\ exec \in [Executions -> ExecRecord]
  BY FreeIsNotFailing, TruthParts DEF PartsOK
<1>2. UNCHANGED <<runs, status>>
  BY DEF Begin, workspaceVars
<1>3. exec'[c].at = "batch" /\ batch'.then = "cached"
  BY <1>1 DEF Begin, Start, ExecRecord
<1>4. Relies(c)'
  BY <1>3 DEF Relies, Collected
<1>5. QED
  BY <1>1, <1>2, <1>4, SilentlyTruly

LEMMA WakeTruly ==
  ASSUME Truthful, Coordinated', NEW c \in Executions, exec[c].at \in Live,
         LoopIsFree, Wake(c), ServiceGoes(c[1])
  PROVE  ActsTruly(c)
<1>1. /\ Relies(c) /\ ~Failing(c[1])
      /\ status[c[1]] \in StatusRecord /\ status[c[1]].state \notin Terminal
      /\ status[c[1]].error \notin {"incomplete", "internal"}
  BY LiveRelies, LiveStatus, FreeIsNotFailing
<1>2. Pending(c[1]) \subseteq runs[c[1]].missing
  BY <1>1 DEF Wake, Relies, Collected
<1>3. QED
  BY <1>1, <1>2, OnwardTruly DEF Wake

LEMMA CallTruly ==
  ASSUME Truthful, Coordinated', NEW c \in Executions, exec[c].at \in Live,
         LoopIsFree, Call(c), ServiceGoes(c[1])
  PROVE  ActsTruly(c)
<1>1. CASE Answered(c)
  BY <1>1, AnsweredTruly
<1>2. CASE Unavailable(c)
  BY <1>2, UnavailableTruly DEF Call
<1>3. CASE Refused(c)
  <2>1. PICK error \in {"refused", "lost"} : Raise(c, error)
    BY <1>3 DEF Refused
  <2>2. error \in Errors \ {"none", "incomplete", "internal"} /\ ~Failing(c[1])
    BY FreeIsNotFailing DEF Errors
  <2>3. QED
    BY <2>1, <2>2, RaiseTruly
<1>4. QED
  BY <1>1, <1>2, <1>3 DEF Call

(* One outcome of a page has been handled: the rest of it agrees as well.  *)
LEMMA PageAdvances ==
  ASSUME Truthful, NEW c \in Executions, batch.by = c, batch.todo # <<>>, PageAgrees(c),
         UNCHANGED <<accepted, log, announced, forgotten>>, exec'[c] = exec[c],
         batch'.todo = Tail(batch.todo), batch'.next = batch.next,
         runs'[c[1]].keys = runs[c[1]].keys, runs'[c[1]].missing = runs[c[1]].missing,
         runs'[c[1]].verdict =
           [runs[c[1]].verdict EXCEPT ![Head(batch.todo).key] = Head(batch.todo).verdict]
  PROVE  PageAgrees(c)'
<1> DEFINE r == c[1]
           o == Head(batch.todo)
           verdict == runs[r].verdict
           todo == batch.todo
           rest == Tail(batch.todo)
<1>1. /\ o = todo[1] /\ 1 \in DOMAIN todo /\ o.key \in runs[r].keys
      /\ o.verdict \in Verdicts
  BY FirstOutcome, TruthParts
<1>2. r \in DOMAIN runs /\ runs[r] \in RunRecord /\ runs[r].keys \subseteq Keys
  <2>1. exec[c].at \in Live
    BY BatchWorks, TruthParts
  <2>2. r \in ActiveRuns
    BY <2>1, LiveRelies
  <2>3. r \in DOMAIN runs /\ runs[r] \in RunRecord
    BY <2>2, TruthParts
  <2>4. QED
    BY <2>3 DEF RunRecord
<1>3. verdict \in [Keys -> Verdicts \cup {Unanswered}] /\ o.verdict # Unanswered
  BY <1>1, <1>2, WorkspaceAssumption DEF RunRecord
<1>4. /\ \A i \in DOMAIN rest : i + 1 \in DOMAIN todo /\ rest[i] = todo[i + 1]
      /\ \A i \in DOMAIN todo : i = 1 \/ (i - 1 \in DOMAIN rest /\ todo[i] = rest[i - 1])
  <2>1. todo \in Seq(Outcome) /\ todo # <<>>
    BY TruthParts DEF PartsOK, BatchRecord
  <2>2. QED
    BY <2>1, TailParts
<1>5. /\ \A i \in DOMAIN rest : \E j \in DOMAIN todo : rest[i] = todo[j]
      /\ \A j \in DOMAIN todo : todo[j] = o \/ \E i \in DOMAIN rest : todo[j] = rest[i]
  BY <1>1, <1>4
<1>6. /\ TodoKeys' = {rest[i].key : i \in DOMAIN rest}
      /\ UnderWay' = {rest[i].verdict : i \in DOMAIN rest}
      /\ TodoKeys = {todo[i].key : i \in DOMAIN todo}
      /\ UnderWay = {todo[i].verdict : i \in DOMAIN todo}
  BY DEF TodoKeys, UnderWay
<1>7. /\ \A i, j \in DOMAIN todo : todo[i].key = todo[j].key => todo[i].verdict = todo[j].verdict
      /\ \A i \in DOMAIN todo : verdict[todo[i].key] \in {Unanswered, todo[i].verdict}
  BY DEF PageAgrees
<1>8. \A k \in Keys : runs'[r].verdict[k] = IF k = o.key THEN o.verdict ELSE verdict[k]
  BY <1>1, <1>2, <1>3
<1>9. \A i \in DOMAIN todo : todo[i].key \in Keys /\ todo[i].key \in runs[r].keys
  <2>1. TodoKeys \subseteq runs[r].keys
    BY BatchWorks, TruthParts DEF Coordinated, Data, BatchFits
  <2>2. QED
    BY <1>2, <1>6, <2>1
<1>10. /\ \A i : KeyOf(r, i)' = KeyOf(r, i)
       /\ Exists(r)' = Exists(r)
  BY DEF KeyOf, Exists
<1>11. TodoKeys \subseteq TodoKeys' \cup {o.key} /\ UnderWay = UnderWay' \cup {o.verdict}
  <2>1. TodoKeys \subseteq TodoKeys' \cup {o.key}
    <3>1. \A j \in DOMAIN todo : todo[j].key = o.key \/ todo[j].key \in TodoKeys'
      BY <1>5, <1>6
    <3>2. QED
      BY <1>6, <3>1
  <2>2. UnderWay \subseteq UnderWay' \cup {o.verdict}
    <3>1. \A j \in DOMAIN todo : todo[j].verdict = o.verdict \/ todo[j].verdict \in UnderWay'
      BY <1>5, <1>6
    <3>2. QED
      BY <1>6, <3>1
  <2>3. UnderWay' \subseteq UnderWay
    BY <1>5, <1>6
  <2>4. o.verdict \in UnderWay
    BY <1>1, <1>6
  <2>5. QED
    BY <2>1, <2>2, <2>3, <2>4
<1> HIDE DEF o, verdict, todo, rest
<1>12. \A i, j \in DOMAIN rest : rest[i].key = rest[j].key => rest[i].verdict = rest[j].verdict
  BY <1>5, <1>7
<1>13. \A i \in DOMAIN rest : runs'[r].verdict[rest[i].key] \in {Unanswered, rest[i].verdict}
  <2>1. ASSUME NEW i \in DOMAIN rest
        PROVE  runs'[r].verdict[rest[i].key] \in {Unanswered, rest[i].verdict}
    <3>1. PICK j \in DOMAIN todo : rest[i] = todo[j]
      BY <1>5
    <3>2. /\ todo[j].key \in Keys /\ verdict[todo[j].key] \in {Unanswered, todo[j].verdict}
          /\ todo[j].key = o.key => todo[j].verdict = o.verdict
      BY <1>1, <1>7, <1>9
    <3>3. QED
      BY <1>8, <3>1, <3>2
  <2>2. QED
    BY <2>1
<1>14. ASSUME Exists(r)' PROVE PageOutOf(r, log[r])'
  <2>1. PageOutOf(r, log[r])
    BY <1>10, <1>14 DEF PageAgrees
  <2>2. \A i \in DOMAIN rest : \E j \in 1..batch.next :
          rest[i].key = KeyOf(r, log[r][j].model) /\ rest[i].verdict = log[r][j].verdict
    BY <1>5, <2>1 DEF PageOutOf, todo
  <2>3. ASSUME NEW j \in 1..batch.next
        PROVE  \/ runs'[r].verdict[KeyOf(r, log[r][j].model)] # Unanswered
               \/ KeyOf(r, log[r][j].model) \in TodoKeys'
    <3> DEFINE k == KeyOf(r, log[r][j].model)
    <3>1. verdict[k] # Unanswered \/ k \in TodoKeys
      BY <2>1 DEF PageOutOf, verdict
    <3>2. runs'[r].verdict = [verdict EXCEPT ![o.key] = o.verdict]
      BY DEF verdict, o
    <3> HIDE DEF k
    <3>3. CASE k = o.key
      <4>1. runs'[r].verdict[k] = o.verdict
        BY <1>1, <1>2, <1>8, <3>3
      <4>2. QED
        BY <1>3, <4>1 DEF k
    <3>4. CASE k # o.key
      <4>1. k \in TodoKeys => k \in TodoKeys'
        BY <1>11, <3>4
      <4>2. k \in DOMAIN verdict => runs'[r].verdict[k] = verdict[k]
        BY <1>3, <1>8, <3>4
      <4>3. k \in DOMAIN verdict
        <5>1. j \in DOMAIN log[r]
          <6>1. ServiceKept
            BY TruthParts
          <6>2. batch.next \in Nat
            <7>1. Cardinality(Configs) \in Nat
              BY FS_CardinalityType, WorkspaceAssumption
            <7>2. QED
              BY <7>1, TruthParts DEF PartsOK, BatchRecord
          <6>3. log[r] \in Seq(Entry)
            BY <1>2, <6>1, TruthParts DEF ServiceKept
          <6>4. QED
            BY <2>1, <6>2, <6>3 DEF PageOutOf
        <5>2. KeyOf(r, log[r][j].model) \in runs[r].missing /\ Asked(r)
          <6>1. Coordinated
            BY DEF Truthful
          <6>2. KeyOf(r, log[r][j].model) \in runs[r].missing
            BY <1>2, <5>1, <6>1, LogNamesMissing
          <6>3. QED
            BY <1>2, <6>1, <6>2 DEF Coordinated, Data
        <5>3. QED
          BY <1>2, <1>3, <5>2 DEF Asked, k
      <4>4. QED
        BY <3>1, <4>1, <4>2, <4>3 DEF k
    <3>5. QED
      BY <3>3, <3>4
  <2>4. QED
    BY <1>10, <2>1, <2>2, <2>3 DEF PageOutOf, rest
<1>15. ASSUME exec'[c].seen \in Terminal
       PROVE  /\ Pending(r)' \subseteq TodoKeys'
              /\ Justified(exec'[c].seen, Settled(r)' \cup UnderWay')
              /\ exec'[c].seen # "failed"
  <2>1. /\ Pending(r) \subseteq TodoKeys /\ exec[c].seen # "failed"
        /\ Justified(exec[c].seen, Settled(r) \cup UnderWay)
    BY <1>15 DEF PageAgrees
  <2>2. Pending(r)' \subseteq Pending(r) \ {o.key}
    BY <1>2, <1>3, <1>8 DEF Pending, verdict
  <2>3. Settled(r)' = Settled(r) \cup {o.verdict}
    <3>1. verdict[o.key] \in {Unanswered, o.verdict}
      BY <1>1, <1>7
    <3>2. Settled(r)' = {runs'[r].verdict[k] : k \in runs[r].keys} \ {Unanswered}
      BY DEF Settled
    <3>3. Settled(r) = {verdict[k] : k \in runs[r].keys} \ {Unanswered}
      BY DEF Settled, verdict
    <3>4. \A k \in runs[r].keys : k # o.key => runs'[r].verdict[k] = verdict[k]
      BY <1>2, <1>8
    <3>5. runs'[r].verdict[o.key] = o.verdict
      BY <1>1, <1>2, <1>8
    <3>6. QED
      BY <1>1, <1>3, <3>1, <3>2, <3>3, <3>4, <3>5
  <2>4. Settled(r)' \cup UnderWay' = Settled(r) \cup UnderWay
    BY <1>11, <2>3
  <2>5. QED
    BY <1>11, <2>1, <2>2, <2>4
<1>16. QED
  BY <1>12, <1>13, <1>14, <1>15 DEF PageAgrees, rest

(* One more scenario of the run has its answer.                            *)
LEMMA AnswerAgrees ==
  ASSUME Truthful, NEW r \in ActiveRuns, Agrees(r),
         NEW k \in runs[r].keys, NEW v \in Verdicts,
         \/ k \notin runs[r].missing /\ v = "succeeded"
         \/ /\ k \in runs[r].missing /\ status[r].job
            /\ Exists(r) => \E i \in DOMAIN log[r] : /\ KeyOf(r, log[r][i].model) = k
                                                     /\ log[r][i].verdict = v,
         UNCHANGED <<status, accepted, log, announced, forgotten>>,
         runs'[r].keys = runs[r].keys, runs'[r].missing = runs[r].missing,
         runs'[r].verdict = [runs[r].verdict EXCEPT ![k] = v]
  PROVE  Agrees(r)'
<1> DEFINE verdict == runs[r].verdict
<1>1. /\ Asked(r) /\ runs[r] \in RunRecord /\ r \in DOMAIN runs /\ r \in Runs
      /\ Coordinated
  BY TruthParts
<1>2. /\ runs[r].keys \subseteq Keys /\ runs[r].missing \subseteq runs[r].keys
      /\ verdict \in [Keys -> Verdicts \cup {Unanswered}] /\ v # Unanswered
  BY <1>1, WorkspaceAssumption DEF RunRecord, Asked
<1>3. \A j \in Keys : runs'[r].verdict[j] = IF j = k THEN v ELSE verdict[j]
  BY <1>2
<1>4. /\ \A i : KeyOf(r, i)' = KeyOf(r, i)
      /\ Exists(r)' = Exists(r)
  BY DEF KeyOf, Exists
<1>5. /\ \A j \in runs[r].keys \ runs[r].missing : verdict[j] \in {Unanswered, "succeeded"}
      /\ ~status[r].job =>
           /\ status[r].cursor = 0
           /\ \A j \in runs[r].missing : verdict[j] = Unanswered
      /\ Exists(r) => Heard(r, log[r]) /\ CaughtUp(r, status[r].cursor, log[r])
  BY DEF Agrees
<1> HIDE DEF verdict
<1>6. \A j \in runs[r].keys \ runs[r].missing : runs'[r].verdict[j] \in {Unanswered, "succeeded"}
  BY <1>2, <1>3, <1>5
<1>7. ~status[r].job => \A j \in runs[r].missing : runs'[r].verdict[j] = Unanswered
  BY <1>2, <1>3, <1>5
<1>8. ASSUME Exists(r) PROVE Heard(r, log[r])'
  <2>1. SUFFICES ASSUME NEW j \in runs[r].missing, runs'[r].verdict[j] # Unanswered
                 PROVE  \E i \in DOMAIN log[r] : /\ KeyOf(r, log[r][i].model) = j
                                                 /\ log[r][i].verdict = runs'[r].verdict[j]
    BY <1>4 DEF Heard
  <2>2. CASE j = k
    BY <1>2, <1>3, <1>8, <2>1, <2>2
  <2>3. CASE j # k
    BY <1>2, <1>3, <1>5, <1>8, <2>1, <2>3 DEF Heard, verdict
  <2>4. QED
    BY <2>2, <2>3
<1>9. ASSUME Exists(r) PROVE CaughtUp(r, status[r].cursor, log[r])'
  <2>1. status[r].cursor <= Len(log[r])
    BY <1>5, <1>9 DEF CaughtUp
  <2>2. SUFFICES ASSUME NEW i \in 1..status[r].cursor
                 PROVE  runs'[r].verdict[KeyOf(r, log[r][i].model)] # Unanswered
    BY <1>4, <2>1 DEF CaughtUp
  <2>3. verdict[KeyOf(r, log[r][i].model)] # Unanswered
    BY <1>5, <1>9 DEF CaughtUp, verdict
  <2>4. i \in DOMAIN log[r]
    <3>1. Cardinality(Configs) \in Nat
      BY FS_CardinalityType, WorkspaceAssumption
    <3>2. status[r].cursor \in Nat /\ log[r] \in Seq(Entry)
      BY <1>1, <3>1, TruthParts DEF ServiceKept, StatusRecord
    <3>3. QED
      BY <2>1, <3>2
  <2>5. KeyOf(r, log[r][i].model) \in Keys
    BY <1>1, <1>2, <2>4, LogNamesMissing
  <2>6. QED
    BY <1>2, <1>3, <2>3, <2>5
<1>10. QED
  BY <1>4, <1>5, <1>6, <1>7, <1>8, <1>9 DEF Agrees

(* The execution goes on with the rest of its batch.                       *)
LEMMA RestTruly ==
  ASSUME Truthful, Coordinated', NEW c \in Executions, batch.by = c, batch.todo # <<>>,
         UNCHANGED <<accepted, log, announced, forgotten, status, exec>>,
         batch' = [batch EXCEPT !.todo = Tail(@)],
         SameRun([runs[c[1]] EXCEPT !.verdict = runs'[c[1]].verdict], runs'[c[1]]),
         LET o == Head(batch.todo)
         IN \/ runs'[c[1]].verdict = runs[c[1]].verdict /\ runs[c[1]].verdict[o.key] # Unanswered
            \/ runs'[c[1]].verdict = [runs[c[1]].verdict EXCEPT ![o.key] = o.verdict]
  PROVE  ActsTruly(c)
<1> DEFINE r == c[1]
           o == Head(batch.todo)
           verdict == runs[r].verdict
<1>1. /\ exec[c].at = "batch" /\ exec[c].at \in Live
      /\ r \in ActiveRuns /\ r \in Runs /\ r \in DOMAIN runs /\ Relies(c)
      /\ ~Failing(r) => Agrees(r)
  BY BatchWorks, LiveRelies, TruthParts
<1>2. /\ status[r].state \notin Terminal /\ status[r].error \notin {"incomplete", "internal"}
  BY <1>1, LiveStatus
<1>3. /\ Asked(r) /\ runs[r] \in RunRecord /\ ~runs[r].over
  BY <1>1, TruthParts
<1>4. /\ o = batch.todo[1] /\ 1 \in DOMAIN batch.todo /\ o.key \in runs[r].keys
      /\ o.key \in TodoKeys /\ o.verdict \in Verdicts
  BY FirstOutcome, TruthParts
<1>5. /\ runs[r].keys \subseteq Keys /\ runs[r].missing \subseteq runs[r].keys
      /\ verdict \in [Keys -> Verdicts \cup {Unanswered}] /\ o.verdict # Unanswered
  BY <1>3, <1>4, WorkspaceAssumption DEF RunRecord, Asked
<1>6. /\ runs'[r].keys = runs[r].keys /\ runs'[r].missing = runs[r].missing
      /\ runs'[r].over = runs[r].over /\ runs'[r].taskSet = runs[r].taskSet
  BY <1>3 DEF SameRun, RunRecord
<1>7. BatchFits /\ batch # NoBatch /\ batch \in BatchRecord
  BY BatchWorks, TruthParts DEF Coordinated, Data, PartsOK
<1>8. /\ batch'.then = batch.then /\ batch'.by = batch.by /\ batch'.next = batch.next
      /\ batch'.todo = Tail(batch.todo)
  BY <1>7 DEF BatchRecord
<1>9. SaysTruth(r)'
  BY <1>2, <1>3, <1>6 DEF SaysTruth, Terminal
<1>10. UNCHANGED status => status'[r].error \notin {"incomplete", "internal"}
  BY <1>2
<1>11. \/ runs'[r].verdict = verdict /\ verdict[o.key] # Unanswered
       \/ runs'[r].verdict = [verdict EXCEPT ![o.key] = o.verdict]
  OBVIOUS
<1> HIDE DEF o, verdict
<1>12. SUFFICES (~Failing(r)' => Agrees(r)') /\ Relies(c)'
  BY <1>9, <1>10 DEF ActsTruly
<1>13. CASE batch.then = "failed"
  <2>1. Failing(r)'
    BY <1>8, <1>13 DEF Failing
  <2>2. status[r].error # "none"
    BY <1>1, <1>13 DEF Relies
  <2>3. Relies(c)'
    BY <1>1, <1>8, <1>13, <2>2 DEF Relies, Collected
  <2>4. QED
    BY <2>1, <2>3
<1>14. ASSUME batch.then # "failed", runs'[r].verdict = verdict PROVE Agrees(r)'
  <2>1. Agrees(r)
    BY <1>1, <1>14 DEF Failing
  <2>2. SameRun(runs[r], runs'[r])
    BY <1>6, <1>14 DEF SameRun, verdict
  <2>3. ServiceGoes(r)
    BY NothingGoes
  <2>4. QED
    BY <1>1, <2>1, <2>2, <2>3, AgreesStays
<1>15. ASSUME batch.then # "failed", runs'[r].verdict = [verdict EXCEPT ![o.key] = o.verdict],
              \/ o.key \notin runs[r].missing /\ o.verdict = "succeeded"
              \/ /\ o.key \in runs[r].missing /\ status[r].job
                 /\ Exists(r) => \E i \in DOMAIN log[r] :
                                    /\ KeyOf(r, log[r][i].model) = o.key
                                    /\ log[r][i].verdict = o.verdict
       PROVE  Agrees(r)'
  <2>1. Agrees(r)
    BY <1>1, <1>15 DEF Failing
  <2>2. QED
    BY <1>1, <1>4, <1>6, <1>15, <2>1, AnswerAgrees DEF verdict
<1>16. CASE batch.then = "cached"
  <2>1. o.key \notin runs[r].missing /\ o.verdict = "succeeded"
    BY <1>4, <1>7, <1>16 DEF BatchFits
  <2>2. Agrees(r)'
    BY <1>11, <1>14, <1>15, <1>16, <2>1
  <2>3. Relies(c)'
    BY <1>1, <1>8, <1>16 DEF Relies, Collected
  <2>4. QED
    BY <2>2, <2>3
<1>17. CASE batch.then = "page"
  <2>1. PageAgrees(c) /\ status[r].job /\ Pending(r) \subseteq runs[r].missing
    BY <1>1, <1>17 DEF Relies, Collected
  <2>2. o.key \in runs[r].missing
    BY <1>4, <1>7, <1>17 DEF BatchFits
  <2>3. verdict[o.key] \in {Unanswered, o.verdict}
    BY <1>4, <2>1 DEF PageAgrees, verdict
  <2>4. runs'[r].verdict = [verdict EXCEPT ![o.key] = o.verdict]
    <3>1. CASE runs'[r].verdict = verdict /\ verdict[o.key] # Unanswered
      <4>1. verdict[o.key] = o.verdict
        BY <2>3, <3>1
      <4>2. verdict = [verdict EXCEPT ![o.key] = o.verdict]
        BY <1>5, <4>1
      <4>3. QED
        BY <3>1, <4>2
    <3>2. QED
      BY <1>11, <3>1
  <2>5. PageAgrees(c)'
    BY <1>6, <1>8, <2>1, <2>4, PageAdvances DEF verdict, o
  <2>6. ASSUME Exists(r)
        PROVE  \E i \in DOMAIN log[r] : /\ KeyOf(r, log[r][i].model) = o.key
                                        /\ log[r][i].verdict = o.verdict
    <3>1. PageOutOf(r, log[r])
      BY <2>1, <2>6 DEF PageAgrees
    <3>2. PICK j \in 1..batch.next : /\ o.key = KeyOf(r, log[r][j].model)
                                    /\ o.verdict = log[r][j].verdict
      BY <1>4, <3>1 DEF PageOutOf
    <3>3. j \in DOMAIN log[r]
      <4>1. Cardinality(Configs) \in Nat
        BY FS_CardinalityType, WorkspaceAssumption
      <4>2. batch.next \in Nat /\ log[r] \in Seq(Entry)
        BY <1>1, <1>7, <4>1, TruthParts DEF BatchRecord, ServiceKept
      <4>3. batch.next <= Len(log[r])
        BY <3>1 DEF PageOutOf
      <4>4. DOMAIN log[r] = 1..Len(log[r]) /\ Len(log[r]) \in Nat
        BY <4>2
      <4>5. QED
        BY <3>2, <4>2, <4>3, <4>4
    <3>4. QED
      BY <3>2, <3>3
  <2>7. Agrees(r)'
    BY <1>15, <1>17, <2>1, <2>2, <2>4, <2>6
  <2>8. Pending(r)' \subseteq runs'[r].missing
    <3>1. \A k \in Keys : runs'[r].verdict[k] = Unanswered => verdict[k] = Unanswered
      BY <1>5, <2>4
    <3>2. QED
      BY <1>5, <1>6, <2>1, <3>1 DEF Pending, verdict
  <2>9. Relies(c)'
    BY <1>1, <1>8, <1>17, <2>1, <2>5, <2>8 DEF Relies, Collected
  <2>10. QED
    BY <2>7, <2>9
<1>18. QED
  BY <1>7, <1>13, <1>16, <1>17 DEF BatchFits, BatchRecord

LEMMA CompleteOneTruly ==
  ASSUME Truthful, Coordinated', NEW c \in Executions, CompleteOne(c), ServiceGoes(c[1])
  PROVE  ActsTruly(c)
<1> DEFINE r == c[1]
           o == Head(batch.todo)
<1>1. /\ batch.by = c /\ batch.todo # <<>>
      /\ UNCHANGED <<accepted, log, announced, forgotten>>
  BY DEF CompleteOne, serviceVars
<1>2. /\ exec[c].at = "batch" /\ exec[c].at \in Live /\ batch # NoBatch
      /\ r \in ActiveRuns /\ r \in Runs /\ r \in DOMAIN runs
  BY <1>1, BatchWorks, LiveRelies, TruthParts
<1>3. /\ runs[r] \in RunRecord /\ WorkspaceTypeOK
      /\ o.key \in runs[r].keys /\ o.verdict \in Verdicts
      /\ o = batch.todo[1] /\ 1 \in DOMAIN batch.todo /\ o.key \in TodoKeys
  BY <1>1, <1>2, FirstOutcome, TruthParts
<1>4. CASE runs[r].verdict[o.key] # Unanswered
  <2>1. /\ batch' = [batch EXCEPT !.todo = Tail(@)]
        /\ UNCHANGED <<status, exec, runs>>
    BY <1>4 DEF CompleteOne, workspaceVars
  <2>2. SameRun([runs[r] EXCEPT !.verdict = runs'[r].verdict], runs'[r])
    BY <1>3, <2>1 DEF SameRun, RunRecord
  <2>3. QED
    BY <1>1, <1>4, <2>1, <2>2, RestTruly
<1>5. CASE runs[r].verdict[o.key] = Unanswered /\ Acceptable(r, o)
  <2>1. /\ Answer(r, o.key, o.verdict) /\ batch' = [batch EXCEPT !.todo = Tail(@)]
        /\ UNCHANGED <<status, exec>>
    BY <1>5 DEF CompleteOne
  <2>2. PICK new : /\ RunBecomes(r, new) /\ new.over = runs[r].over
                   /\ new.verdict = [runs[r].verdict EXCEPT ![o.key] = o.verdict]
    BY <1>2, <1>3, <2>1, AnswerBecomes
  <2>3. runs'[r] = new
    BY <1>2, <2>2 DEF RunBecomes
  <2>4. SameRun([runs[r] EXCEPT !.verdict = runs'[r].verdict], runs'[r])
    BY <1>3, <2>2, <2>3 DEF SameRun, RunRecord, RunBecomes
  <2>5. QED
    BY <1>1, <2>1, <2>2, <2>3, <2>4, RestTruly
<1>6. CASE runs[r].verdict[o.key] = Unanswered /\ ~Acceptable(r, o)
  <2>1. o.verdict = "succeeded"
    BY <1>6 DEF Acceptable
  <2>2. ~Failing(r)
    <3>1. batch.then = "failed" => o.verdict = "failed"
      BY <1>2, <1>3, TruthParts DEF Coordinated, Data, BatchFits
    <3>2. QED
      BY <2>1, <3>1 DEF Failing
  <2>3. o.key \in runs[r].missing \/ o.key \in cache
    BY <1>2, <1>3, <1>6, TruthParts DEF ResultsKept, Active
  <2>4. ~CanRetain(r, o.key)
    BY <1>6, <2>3 DEF Acceptable
  <2>5. Raise(c, "too_large")
    BY <1>6, <2>4 DEF CompleteOne
  <2>6. QED
    BY <1>2, <2>2, <2>5, RaiseTruly DEF Errors
<1>7. QED
  BY <1>4, <1>5, <1>6

(* A run that is over and says so.                                         *)
LEMMA SettleTruly ==
  ASSUME Truthful, NEW c \in Executions, exec[c].at \in Live,
         NEW st, Settle(c, st), st.state \in Terminal, Pending(c[1]) = {},
         Justified(st.state, Settled(c[1])),
         st.state = "failed" => st.error # "none",
         st.error \notin {"incomplete", "internal"}
  PROVE  ActsTruly(c)
<1> DEFINE r == c[1]
<1>1. r \in Runs /\ r \in ActiveRuns /\ r \in DOMAIN runs /\ WorkspaceTypeOK
  BY LiveRelies, TruthParts
<1>2. status'[r] = st
  BY <1>1, TruthParts DEF Settle, PartsOK
<1>3. PICK new : /\ RunBecomes(r, new) /\ new.over = TRUE
                 /\ new.verdict = runs[r].verdict
  BY <1>1, FinishBecomes DEF Settle
<1>4. /\ runs'[r] = new /\ runs'[r].over /\ runs'[r].keys = runs[r].keys
      /\ runs'[r].verdict = runs[r].verdict
  BY <1>1, <1>3 DEF RunBecomes
<1>5. r \notin ActiveRuns'
  BY <1>4 DEF ActiveRuns, Active
<1>6. Unanswered \notin {runs[r].verdict[k] : k \in runs[r].keys}
  BY <1>2 DEF Pending
<1>7. Settled(r) = {runs[r].verdict[k] : k \in runs[r].keys}
  BY <1>6 DEF Settled
<1>8. SaysTruth(r)'
  BY <1>2, <1>4, <1>6, <1>7 DEF SaysTruth
<1>9. QED
  BY <1>2, <1>5, <1>8 DEF ActsTruly

LEMMA CachedDoneTruly ==
  ASSUME Truthful, Coordinated', NEW c \in Executions, batch.by = c, batch.todo = <<>>,
         batch.then = "cached", CachedDone(c), ServiceGoes(c[1])
  PROVE  ActsTruly(c)
<1> DEFINE r == c[1]
<1>1. /\ exec[c].at \in Live /\ batch # NoBatch /\ TodoKeys = {}
      /\ r \in ActiveRuns /\ r \in Runs /\ r \in DOMAIN runs /\ ~Failing(r) /\ Agrees(r)
  BY BatchWorks, NothingToDo, LiveRelies, TruthParts DEF Failing
<1>2. /\ status[r] \in StatusRecord /\ status[r].state \notin Terminal
      /\ status[r].error \notin {"incomplete", "internal"}
  BY <1>1, LiveStatus
<1>3. Pending(r) \subseteq runs[r].missing
  <2>1. Pending(r) \ runs[r].missing \subseteq {}
    BY <1>1, TruthParts DEF Coordinated, Data, BatchFits
  <2>2. QED
    BY <2>1
<1>4. CASE runs[r].missing = {} /\ Settle(c, [status[r] EXCEPT !.state = "completed"])
  <2> DEFINE st == [status[r] EXCEPT !.state = "completed"]
  <2>1. st.state = "completed" /\ st.error = status[r].error
    BY <1>2 DEF StatusRecord
  <2>2. Pending(r) = {}
    BY <1>3, <1>4
  <2>3. Settled(r) \subseteq {"succeeded"}
    BY <1>1, <1>4 DEF Agrees, Settled
  <2>4. Justified("completed", Settled(r))
    BY <2>3 DEF Justified
  <2>5. Settle(c, st)
    BY <1>4
  <2> HIDE DEF st
  <2>6. QED
    BY <1>1, <1>2, <2>1, <2>2, <2>4, <2>5, SettleTruly DEF Terminal
<1>5. CASE Raise(c, "too_large")
  BY <1>1, <1>5, RaiseTruly DEF Errors
<1>6. CASE Onward(c, status[r])
  BY <1>1, <1>2, <1>3, <1>6, OnwardTruly
<1>7. QED
  BY <1>4, <1>5, <1>6 DEF CachedDone

(* All the answers there were are handled.                                 *)
LEMMA PageDoneTruly ==
  ASSUME Truthful, Coordinated', NEW c \in Executions, batch.by = c, batch.todo = <<>>,
         batch.then = "page", PageDone(c), ServiceGoes(c[1]),
         UNCHANGED <<accepted, log, announced, forgotten>>
  PROVE  ActsTruly(c)
<1> DEFINE r == c[1]
           st == [status[r] EXCEPT !.cursor = batch.next, !.error = "none"]
           ended == [st EXCEPT !.state = Seen(c)]
           on == [st EXCEPT !.state = IF st.cancel THEN "cancelling" ELSE "running"]
<1>1. /\ exec[c].at = "batch" /\ exec[c].at \in Live /\ TodoKeys = {} /\ UnderWay = {}
      /\ r \in ActiveRuns /\ r \in Runs /\ r \in DOMAIN runs /\ ~Failing(r) /\ Agrees(r)
      /\ Relies(c)
  BY BatchWorks, NothingToDo, LiveRelies, TruthParts DEF Failing, UnderWay
<1>2. /\ status[r] \in StatusRecord /\ status[r].error \notin {"incomplete", "internal"}
      /\ exec \in [Executions -> ExecRecord] /\ batch.next \in 0..Cardinality(Configs)
      /\ status \in [Runs -> StatusRecord]
  BY <1>1, LiveStatus, TruthParts DEF PartsOK, BatchRecord
<1>3. PageAgrees(c) /\ status[r].job /\ Pending(r) \subseteq runs[r].missing
  BY <1>1 DEF Relies, Collected
<1>4. /\ st \in StatusRecord /\ st.job = status[r].job /\ st.cursor = batch.next
      /\ st.error = "none"
  BY <1>2 DEF StatusRecord, Errors
<1> HIDE DEF st
<1>5. /\ ended.state = exec[c].seen /\ ended.error = "none"
      /\ on.state \notin Terminal /\ on.error = "none"
      /\ on.cursor = batch.next /\ on.job
  BY <1>3, <1>4 DEF StatusRecord, Seen, Terminal
<1> HIDE DEF on, ended
<1>6. CASE Seen(c) \in Terminal
  <2>1. /\ Pending(r) \subseteq {}
        /\ Justified(exec[c].seen, Settled(r)) /\ exec[c].seen # "failed"
    BY <1>1, <1>3, <1>6 DEF PageAgrees, Seen
  <2>2. Settle(c, ended)
    BY <1>6, <2>1 DEF PageDone, ended, st
  <2>3. QED
    BY <1>1, <1>5, <1>6, <2>1, <2>2, SettleTruly DEF Seen
<1>7. CASE Seen(c) \notin Terminal
  <2>1. /\ status' = [status EXCEPT ![r] = on]
        /\ exec' = [exec EXCEPT ![c] = [Idling EXCEPT !.at = "sleep"]]
        /\ batch' = NoBatch /\ UNCHANGED runs
    BY <1>7 DEF PageDone, on, st, workspaceVars
  <2>2. status'[r] = on /\ exec'[c].at = "sleep"
    BY <1>1, <1>2, <2>1 DEF Idling
  <2>3. \A i : KeyOf(r, i)' = KeyOf(r, i)
    BY <2>1 DEF KeyOf
  <2>4. Relies(c)'
    BY <1>3, <2>1, <2>2 DEF Relies, Collected, Pending
  <2>5. Agrees(r)'
    <3>1. Exists(r)' = Exists(r)
      BY DEF Exists
    <3>2. ASSUME Exists(r) PROVE CaughtUp(r, batch.next, log[r])
      <4>1. PageOutOf(r, log[r])
        BY <1>3, <3>2 DEF PageAgrees
      <4>2. QED
        BY <1>1, <4>1 DEF PageOutOf, CaughtUp
    <3>3. ASSUME Exists(r)' PROVE (Heard(r, log[r]) /\ CaughtUp(r, status[r].cursor, log[r]))'
      <4>1. Heard(r, log[r]) /\ CaughtUp(r, batch.next, log[r])
        BY <1>1, <3>1, <3>2, <3>3 DEF Agrees
      <4>2. status'[r].cursor = batch.next
        BY <1>5, <2>2
      <4>3. QED
        BY <2>1, <2>3, <4>1, <4>2 DEF Heard, CaughtUp
    <3>4. status'[r].job
      BY <1>5, <2>2
    <3>5. \A k \in runs'[r].keys \ runs'[r].missing :
            runs'[r].verdict[k] \in {Unanswered, "succeeded"}
      BY <1>1, <2>1 DEF Agrees
    <3>6. QED
      BY <3>3, <3>4, <3>5 DEF Agrees
  <2>6. SaysTruth(r)'
    <3>1. ~runs'[r].over /\ status'[r].state \notin Terminal
      BY <1>1, <1>5, <2>1, <2>2 DEF ActiveRuns, Active
    <3>2. QED
      BY <3>1 DEF SaysTruth, Terminal
  <2>7. QED
    BY <1>5, <2>2, <2>4, <2>5, <2>6 DEF ActsTruly
<1>8. QED
  BY <1>6, <1>7

LEMMA BatchDoneTruly ==
  ASSUME Truthful, Coordinated', NEW c \in Executions, BatchDone(c), ServiceGoes(c[1])
  PROVE  ActsTruly(c)
<1> DEFINE r == c[1]
           st == [status[r] EXCEPT !.state = "failed"]
<1>1. /\ batch.by = c /\ batch.todo = <<>>
      /\ UNCHANGED <<accepted, log, announced, forgotten>>
  BY DEF BatchDone, serviceVars
<1>2. CASE batch.then = "cached" /\ CachedDone(c)
  BY <1>1, <1>2, CachedDoneTruly
<1>3. CASE batch.then = "page" /\ PageDone(c)
  BY <1>1, <1>3, PageDoneTruly
<1>4. CASE batch.then = "failed" /\ Settle(c, st)
  <2>1. /\ exec[c].at = "batch" /\ exec[c].at \in Live /\ batch # NoBatch /\ TodoKeys = {}
    BY <1>1, BatchWorks, NothingToDo, TruthParts
  <2>2. /\ status[r] \in StatusRecord /\ status[r].error \notin {"incomplete", "internal"}
        /\ status[r].error # "none"
    BY <1>4, <2>1, LiveStatus, LiveRelies DEF Relies
  <2>3. st.state = "failed" /\ st.error = status[r].error
    BY <2>2 DEF StatusRecord
  <2>4. Pending(r) = {}
    <3>1. Pending(r) \subseteq {}
      BY <1>1, <1>4, <2>1, TruthParts DEF Coordinated, Data, BatchFits
    <3>2. QED
      BY <3>1
  <2>5. Justified("failed", Settled(r))
    BY DEF Justified
  <2> HIDE DEF st
  <2>6. QED
    BY <1>4, <2>1, <2>2, <2>3, <2>4, <2>5, SettleTruly DEF Terminal
<1>5. QED
  BY <1>2, <1>3, <1>4 DEF BatchDone

LEMMA ExecutionActsTruly ==
  ASSUME Truthful, Coordinated', NEW c \in Executions, Execution(c), ServiceGoes(c[1])
  PROVE  ActsTruly(c)
<1>1. exec[c].at \in Live
  BY TruthParts, ExecutionMoves DEF Acting
<1>2. QED
  BY <1>1, CallTruly, BeginTruly, AbortTruly, WakeTruly, CompleteOneTruly, BatchDoneTruly
  DEF Execution

(* An execution only answers and finishes the run it works on.             *)
LEMMA ExecutionTouchesOne ==
  ASSUME Coordinated, NEW c \in Executions, Execution(c)
  PROVE  /\ DOMAIN runs' = DOMAIN runs
         /\ \A q \in DOMAIN runs \ {c[1]} : runs'[q] = runs[q]
<1>1. Acting(c)
  BY ExecutionMoves
<1>2. c[1] \in DOMAIN runs /\ WorkspaceTypeOK
  BY <1>1, ActingParts
<1>3. \/ runs' = runs
      \/ \E new : RunBecomes(c[1], new)
  <2>1. CASE Finish(c[1])
    BY <1>2, <2>1, FinishBecomes
  <2>2. CASE CompleteOne(c)
    <3> DEFINE o == Head(batch.todo)
    <3>1. o.key \in runs[c[1]].keys /\ o.verdict \in Verdicts
      BY <2>2, FirstOutcome DEF CompleteOne
    <3>2. CASE Answer(c[1], o.key, o.verdict)
      BY <1>2, <3>1, <3>2, AnswerBecomes
    <3>3. QED
      BY <2>2, <3>2 DEF CompleteOne, Raise, workspaceVars
  <2>3. CASE BatchDone(c)
    BY <2>1, <2>3, BatchDoneFinishes DEF workspaceVars
  <2>4. CASE Begin(c) \/ Abort(c) \/ Wake(c)
    BY <2>4 DEF Begin, Abort, Wake, Onward, workspaceVars
  <2>5. CASE Call(c)
    <3>1. CASE Answered(c)
      BY <3>1 DEF Answered, Onward, workspaceVars
    <3>2. CASE Unavailable(c) \/ Refused(c)
      BY <3>2 DEF Unavailable, Refused, Raise, workspaceVars
    <3>3. QED
      BY <2>5, <3>1, <3>2 DEF Call
  <2>6. QED
    BY <2>2, <2>3, <2>4, <2>5 DEF Execution
<1>4. QED
  BY <1>2, <1>3 DEF RunBecomes

LEMMA ExecutionTruth ==
  ASSUME Truthful, Coordinated', NEW c \in Executions, Execution(c),
         \A q \in Runs : ServiceGoes(q)
  PROVE  Truth'
<1>1. /\ (Moved(c) /\ RunsGoOn) \/ Ended(c)
      /\ Acting(c) /\ c[1] \in Runs
  BY TruthParts, ExecutionMoves DEF Executions
<1>2. ActsTruly(c)
  BY <1>1, ExecutionActsTruly
<1>3. /\ DOMAIN runs' = DOMAIN runs
      /\ \A q \in DOMAIN runs \ {c[1]} : runs'[q] = runs[q]
  BY TruthParts, ExecutionTouchesOne
<1>4. QED
  BY <1>1, <1>2, <1>3, OthersStayTrue

-----------------------------------------------------------------------------
(* What a run says is true: the other steps                                *)

(* Steps that work off no outcomes.                                        *)
StatusGoesOn(r) ==
  /\ status'[r].cursor = status[r].cursor
  /\ status'[r].job = status[r].job
  /\ status'[r].error = status[r].error
  /\ \/ status'[r].state = status[r].state
     \/ ~runs[r].over /\ status'[r].state \notin Terminal

LEMMA QuietTruth ==
  ASSUME Truthful, Coordinated', \A q \in Runs : ServiceGoes(q), batch' = batch,
         \A c \in Executions : \/ exec'[c] = exec[c]
                               \/ exec'[c].at \in {"idle", "begin"},
         \A q \in DOMAIN runs' :
           \/ q \in DOMAIN runs /\ SameRun(runs[q], runs'[q]) /\ StatusGoesOn(q)
           \/ Sound(q)' /\ SaysTruth(q)',
         \A q \in Runs : status'[q].error \in {status[q].error, "none"}
  PROVE  Truth'
<1>1. ASSUME NEW q \in DOMAIN runs, q \in DOMAIN runs',
             SameRun(runs[q], runs'[q]), StatusGoesOn(q)
      PROVE  SaysTruth(q)'
  BY <1>1, SaysStays DEF StatusGoesOn
<1>2. ASSUME NEW q \in DOMAIN runs, q \in ActiveRuns',
             SameRun(runs[q], runs'[q]), StatusGoesOn(q)
      PROVE  Sound(q)'
  <2>1. q \in ActiveRuns /\ q \in Runs /\ Sound(q)
    BY <1>2, TruthParts DEF ActiveRuns, Active, SameRun
  <2>2. ServiceGoes(q)
    BY <2>1
  <2>3. ~Failing(q)' => Agrees(q)'
    <3>1. Failing(q)' = Failing(q)
      BY DEF Failing
    <3>2. QED
      BY <1>2, <2>1, <2>2, <3>1, AgreesStays DEF Sound, StatusGoesOn
  <2>4. ASSUME NEW s \in Slots PROVE Relies(<<q, s>>)'
    <3> DEFINE c == <<q, s>>
    <3>1. c \in Executions /\ c[1] = q /\ Relies(c)
      BY <2>1 DEF Executions, Sound
    <3> HIDE DEF c
    <3>2. CASE exec'[c] = exec[c]
      <4>1. Relies(c)'
        BY <1>2, <2>1, <2>2, <3>1, <3>2, ReliesStays DEF StatusGoesOn
      <4>2. QED
        BY <4>1 DEF c
    <3>3. CASE exec'[c].at \in {"idle", "begin"}
      <4>1. Relies(c)'
        BY <3>3 DEF Relies, Collected
      <4>2. QED
        BY <4>1 DEF c
    <3>4. QED
      BY <3>1, <3>2, <3>3
  <2>5. QED
    BY <2>3, <2>4 DEF Sound
<1>3. \A q \in ActiveRuns' : Sound(q)'
  <2>1. \A q \in ActiveRuns' : q \in DOMAIN runs'
    BY DEF ActiveRuns
  <2>2. QED
    BY <1>2, <2>1
<1>4. \A q \in DOMAIN runs' : SaysTruth(q)'
  BY <1>1
<1>5. ReadsConsistent'
  <2>1. \A q \in Runs : status[q].error \notin {"incomplete", "internal"}
    BY TruthParts DEF ReadsConsistent
  <2>2. QED
    BY <2>1 DEF ReadsConsistent
<1>6. QED
  BY <1>3, <1>4, <1>5 DEF Truth

(* The same for steps that leave the runs and their statuses alone.        *)
LEMMA QuietestTruth ==
  ASSUME Truthful, Coordinated', \A q \in Runs : ServiceGoes(q),
         UNCHANGED <<runs, status, batch>>,
         \A c \in Executions : exec'[c] = exec[c] \/ exec'[c].at \in {"idle", "begin"}
  PROVE  Truth'
<1>1. \A q \in DOMAIN runs' : q \in DOMAIN runs /\ SameRun(runs[q], runs'[q]) /\ StatusGoesOn(q)
  BY DEF SameRun, StatusGoesOn
<1>2. QED
  BY <1>1, QuietTruth

LEMMA LaunchRests ==
  ASSUME Coordinated, NEW r \in Runs, Launch(r) \/ UNCHANGED <<tasks, exec>>
  PROVE  \A c \in Executions : exec'[c] = exec[c] \/ exec'[c].at \in {"idle", "begin"}
<1>1. exec \in [Executions -> ExecRecord]
  BY ControlParts DEF PartsOK
<1>2. CASE Launch(r)
  <2>1. PICK s \in Slots : exec' = [exec EXCEPT ![<<r, s>>] = [Idling EXCEPT !.at = "begin"]]
    BY <1>2, LaunchPicks
  <2>2. [Idling EXCEPT !.at = "begin"].at = "begin"
    BY DEF Idling
  <2>3. QED
    BY <1>1, <2>1, <2>2
<1>3. QED
  BY <1>2

(* A run that has just been registered says nothing yet.                   *)
LEMMA AdmittedTruly ==
  ASSUME Truthful, Coordinated', LoopIsFree, NEW w, NEW ts, NEW ks, NEW intent,
         NEW r \in Runs, r = nextRun, r \in DOMAIN runs',
         runs'[r] = NewRun(w, ts, ks, intent),
         status'[r] = status[r], Launch(r), UNCHANGED <<batch, serviceVars>>
  PROVE  Sound(r)' /\ SaysTruth(r)'
<1>1. /\ r \notin DOMAIN runs /\ Untouched(r) /\ nextRun <= r
      /\ exec \in [Executions -> ExecRecord]
  BY TruthParts, ControlParts DEF PartsOK
<1>2. status[r] = NewStatus
  BY <1>1 DEF Untouched
<1>3. runs'[r].over = FALSE /\ \A k \in Keys : runs'[r].verdict[k] = Unanswered
  BY DEF NewRun
<1>4. runs'[r].keys \subseteq Keys /\ runs'[r].missing \subseteq runs'[r].keys
  <2>1. runs'[r] \in RunRecord /\ Asked(r)'
    BY DEF Coordinated, Consistent, WorkspaceTypeOK, Data
  <2>2. QED
    BY <2>1 DEF RunRecord, Asked
<1>5. ~Exists(r)'
  <2>1. accepted[r] = 0
    BY <1>1, TruthParts DEF ServiceKept, ServiceOf
  <2>2. QED
    BY <2>1 DEF Exists, serviceVars
<1>6. Agrees(r)'
  BY <1>2, <1>3, <1>4, <1>5 DEF Agrees, NewStatus
<1>7. \A s \in Slots : exec'[<<r, s>>].at \in {"idle", "begin"}
  <2>1. \A s \in Slots : exec[<<r, s>>].at = "idle" /\ <<r, s>> \in Executions
    BY <1>1 DEF Untouched, Idling, Executions
  <2>2. QED
    BY <2>1, LaunchRests, TruthParts
<1>8. \A s \in Slots : Relies(<<r, s>>)'
  BY <1>7 DEF Relies, Collected
<1>9. SaysTruth(r)'
  BY <1>2, <1>3 DEF SaysTruth, NewStatus, Terminal
<1>10. QED
  BY <1>6, <1>8, <1>9 DEF Sound

LEMMA AdmitTruth ==
  ASSUME Truthful, Coordinated', LoopIsFree, NEW w, NEW ks, NEW intent,
         Admit(w, ks, intent), \A q \in Runs : ServiceGoes(q)
  PROVE  Truth'
<1> DEFINE ts == workspaces[w].current
<1>1. /\ nextRun \in Runs /\ Register(w, ts, ks, intent)
      /\ IF nextRun' = nextRun THEN UNCHANGED <<tasks, exec>> ELSE Launch(nextRun)
      /\ status' = StatusOfRuns /\ UNCHANGED <<batch, serviceVars>>
  BY DEF Admit
<1>2. /\ \A r \in Runs : r \notin DOMAIN runs' => status'[r] = NewStatus
      /\ \A r \in Runs : r \in DOMAIN runs' => status'[r] = status[r]
  BY <1>1, TruthParts, StatusOfRunsType
<1>3. \A r \in Runs : status'[r].error \in {status[r].error, "none"}
  BY <1>2 DEF NewStatus
<1>4. \A r \in DOMAIN runs' : r \in Runs
  BY TruthParts DEF Coordinated, Consistent, WorkspaceTypeOK
<1>5. \A c \in Executions : exec'[c] = exec[c] \/ exec'[c].at \in {"idle", "begin"}
  BY <1>1, TruthParts, LaunchRests
<1>6. CASE RunsStay
  <2>1. \A q \in DOMAIN runs' :
          q \in DOMAIN runs /\ SameRun(runs[q], runs'[q]) /\ StatusGoesOn(q)
    BY <1>2, <1>4, <1>6 DEF RunsStay, StatusGoesOn
  <2>2. QED
    BY <1>1, <1>3, <1>5, <2>1, QuietTruth
<1>7. CASE /\ nextRun' = nextRun + 1
           /\ nextRun \in DOMAIN runs'
           /\ runs'[nextRun] = NewRun(w, ts, ks, intent)
           /\ \A r \in DOMAIN runs' \ {nextRun} : r \in DOMAIN runs /\ runs'[r] = runs[r]
  <2>1. PICK r \in Runs : r = nextRun
    BY <1>1
  <2>2. nextRun' # nextRun
    BY <1>7, TruthParts, ControlParts
  <2>3. Launch(r)
    BY <1>1, <2>1, <2>2
  <2>4. r \in DOMAIN runs' /\ runs'[r] = NewRun(w, ts, ks, intent) /\ status'[r] = status[r]
    BY <1>2, <1>7, <2>1
  <2>5. Sound(r)' /\ SaysTruth(r)'
    BY <1>1, <2>1, <2>3, <2>4, AdmittedTruly
  <2>6. ASSUME NEW q \in DOMAIN runs'
        PROVE  \/ q \in DOMAIN runs /\ SameRun(runs[q], runs'[q]) /\ StatusGoesOn(q)
               \/ Sound(q)' /\ SaysTruth(q)'
    <3>1. CASE q = r
      BY <2>5, <3>1
    <3>2. CASE q # r
      BY <1>2, <1>4, <1>7, <2>1, <3>2 DEF SameRun, StatusGoesOn
    <3>3. QED
      BY <3>1, <3>2
  <2>7. QED
    BY <1>1, <1>3, <1>5, <2>6, QuietTruth
<1>8. QED
  BY <1>1, <1>6, <1>7, TruthParts, RegisterStays

LEMMA CancelTruth ==
  ASSUME Truthful, Coordinated', NEW r \in ActiveRuns, RequestCancel(r), RunsStay,
         UNCHANGED batch, \A q \in Runs : ServiceGoes(q)
  PROVE  Truth'
<1>1. r \in Runs /\ r \in DOMAIN runs /\ ~runs[r].over /\ status \in [Runs -> StatusRecord]
  BY TruthParts DEF PartsOK
<1>2. PICK st \in StatusRecord :
        /\ status' = [status EXCEPT ![r] = st] /\ st.state = "cancelling"
        /\ st.job = status[r].job /\ st.error = status[r].error
        /\ st.cursor = status[r].cursor
  BY TruthParts, RequestCancelStatus
<1>3. \A q \in Runs : status'[q] = IF q = r THEN st ELSE status[q]
  BY <1>1, <1>2
<1>4. \A c \in Executions : exec'[c] = exec[c] \/ exec'[c].at \in {"idle", "begin"}
  BY <1>1, TruthParts, LaunchRests DEF RequestCancel, LaunchUnlessRunning
<1>5. ASSUME NEW q \in DOMAIN runs'
      PROVE  q \in DOMAIN runs /\ SameRun(runs[q], runs'[q]) /\ StatusGoesOn(q)
  <2>1. q \in DOMAIN runs /\ q \in Runs /\ SameRun(runs[q], runs'[q])
    BY TruthParts DEF RunsStay
  <2>2. QED
    BY <1>1, <1>2, <1>3, <2>1 DEF StatusGoesOn, Terminal
<1>6. \A q \in Runs : status'[q].error \in {status[q].error, "none"}
  BY <1>2, <1>3
<1>7. QED
  BY <1>4, <1>5, <1>6, QuietTruth

LEMMA ResumeTruth ==
  ASSUME Truthful, Coordinated', NEW r \in DOMAIN runs, Resume(r),
         \A q \in Runs : ServiceGoes(q)
  PROVE  Truth'
<1> DEFINE st == [status[r] EXCEPT !.paused = FALSE]
<1>1. r \in Runs /\ status \in [Runs -> StatusRecord] /\ status[r] \in StatusRecord
  BY TruthParts DEF PartsOK
<1>2. /\ st.job = status[r].job /\ st.error = status[r].error
      /\ st.cursor = status[r].cursor /\ st.state = status[r].state
  BY <1>1 DEF StatusRecord
<1>3. status' = [status EXCEPT ![r] = st] /\ UNCHANGED <<runs, batch>> /\ Launch(r)
  BY DEF Resume, workspaceVars
<1> HIDE DEF st
<1>4. \A q \in Runs : status'[q] = IF q = r THEN st ELSE status[q]
  BY <1>1, <1>3
<1>5. \A c \in Executions : exec'[c] = exec[c] \/ exec'[c].at \in {"idle", "begin"}
  BY <1>1, <1>3, TruthParts, LaunchRests
<1>6. ASSUME NEW q \in DOMAIN runs'
      PROVE  q \in DOMAIN runs /\ SameRun(runs[q], runs'[q]) /\ StatusGoesOn(q)
  <2>1. q \in DOMAIN runs /\ q \in Runs /\ runs'[q] = runs[q]
    BY <1>3, TruthParts
  <2>2. QED
    BY <1>2, <1>4, <2>1 DEF SameRun, StatusGoesOn
<1>7. \A q \in Runs : status'[q].error \in {status[q].error, "none"}
  BY <1>2, <1>4
<1>8. QED
  BY <1>3, <1>5, <1>6, <1>7, QuietTruth

LEMMA RequestsTruth ==
  ASSUME Truthful, Coordinated', Requests, \A q \in Runs : ServiceGoes(q)
  PROVE  Truth'
<1>1. ASSUME NEW w, NEW ks, StartManual(w, ks) PROVE Truth'
  BY <1>1, AdmitTruth DEF StartManual, Serving
<1>2. ASSUME NEW w, NEW source, NEW ks, StartInteractive(w, source, ks) PROVE Truth'
  <2>1. CASE Admit(w, ks, "interactive")
    BY <1>2, <2>1, AdmitTruth DEF StartInteractive, Serving
  <2>2. ASSUME NEW r \in Owned(w) \cap ActiveRuns, Supersede(r), RequestCancel(r),
               UNCHANGED batch
        PROVE  Truth'
    <3>1. r \in DOMAIN runs /\ r \in ActiveRuns
      BY DEF ActiveRuns
    <3>2. RunsStay
      BY <2>2, <3>1, TruthParts, MarksStay
    <3>3. QED
      BY <2>2, <3>1, <3>2, CancelTruth
  <2>3. QED
    BY <1>2, <2>1, <2>2 DEF StartInteractive
<1>3. ASSUME NEW r \in DOMAIN runs, CancelRun(r) PROVE Truth'
  <2>1. r \in ActiveRuns /\ RequestCancel(r) /\ UNCHANGED batch /\ RunsStay
    BY <1>3, UnchangedStay DEF CancelRun, ActiveRuns, workspaceVars
  <2>2. QED
    BY <2>1, CancelTruth
<1>4. ASSUME NEW r \in DOMAIN runs, Resume(r) PROVE Truth'
  BY <1>4, ResumeTruth
<1>5. CASE StoreRoutes
  <2>1. status' = StatusOfRuns /\ UNCHANGED <<exec, batch>>
    BY <1>5 DEF StoreRoutes
  <2>2. RunsStay
    BY <1>5, TruthParts, StoreOperationsStay DEF StoreRoutes, StoreOperations
  <2>3. /\ \A r \in Runs : r \notin DOMAIN runs' => status'[r] = NewStatus
        /\ \A r \in Runs : r \in DOMAIN runs' => status'[r] = status[r]
    BY <2>1, TruthParts, StatusOfRunsType
  <2>4. \A q \in DOMAIN runs' :
          q \in DOMAIN runs /\ SameRun(runs[q], runs'[q]) /\ StatusGoesOn(q)
    BY <2>2, <2>3, TruthParts DEF RunsStay, StatusGoesOn
  <2>5. \A q \in Runs : status'[q].error \in {status[q].error, "none"}
    BY <2>3 DEF NewStatus
  <2>6. QED
    BY <2>1, <2>4, <2>5, QuietTruth
<1>6. QED
  BY <1>1, <1>2, <1>3, <1>4, <1>5 DEF Requests

(* What a run says is true after every step.                               *)
LEMMA TruthStep ==
  ASSUME Truthful, [Next]_vars, Coordinated'
  PROVE  Truth'
<1>1. \A q \in Runs : ServiceGoes(q)
  BY ServiceAlwaysGoes
<1>2. CASE Requests
  BY <1>1, <1>2, RequestsTruth
<1>3. ASSUME NEW c \in Executions, Execution(c) PROVE Truth'
  BY <1>1, <1>3, ExecutionTruth
<1>4. ASSUME NEW c \in Executions, Callback(c) PROVE Truth'
  <2>1. exec \in [Executions -> ExecRecord]
    BY TruthParts DEF PartsOK
  <2>2. /\ exec' = [exec EXCEPT ![c] = Idling]
        /\ UNCHANGED <<runs, status, batch>>
    BY <1>4 DEF Callback, workspaceVars
  <2>3. \A d \in Executions : exec'[d] = exec[d] \/ exec'[d].at \in {"idle", "begin"}
    BY <2>1, <2>2 DEF Idling
  <2>4. QED
    BY <1>1, <2>2, <2>3, QuietestTruth
<1>5. CASE FinishClose
  <2>1. UNCHANGED <<runs, status, batch>> /\ \A c \in Executions : exec'[c].at = "idle"
    BY <1>5 DEF FinishClose, workspaceVars, Idling
  <2>2. QED
    BY <1>1, <2>1, QuietestTruth
<1>6. CASE \/ BeginClose \/ UNCHANGED vars
           \/ \E r \in ActiveRuns : CloseCancel(r)
           \/ SimulationService
  <2>1. UNCHANGED <<runs, status, batch, exec>>
    BY <1>6 DEF BeginClose, CloseCancel, SimulationService, ServiceAnswers, ServiceForgets,
                ServiceRestarts, vars, workspaceVars, coordinatorVars
  <2>2. QED
    BY <1>1, <2>1, QuietestTruth
<1>7. QED
  BY <1>2, <1>3, <1>4, <1>5, <1>6 DEF Next

LEMMA TruthfulInit ==
  ASSUME Init
  PROVE  Truthful
<1>1. DOMAIN runs = {}
  BY DEF Init, WorkspaceInit
<1>2. ActiveRuns = {}
  BY <1>1 DEF ActiveRuns
<1>3. ReadsConsistent
  BY DEF Init, ReadsConsistent, NewStatus
<1>4. Truth
  BY <1>1, <1>2, <1>3 DEF Truth
<1>5. ResultsKept
  BY <1>1 DEF ResultsKept
<1>6. QED
  BY <1>4, <1>5, CoordinatedInit DEF Truthful

LEMMA TruthfulStep ==
  ASSUME Truthful, [Next]_vars
  PROVE  Truthful'
<1>1. Coordinated /\ ResultsKept /\ Consistent
  BY DEF Truthful, Coordinated
<1>2. Coordinated'
  BY <1>1, CoordinatedStep
<1>3. ResultsKept'
  BY <1>1, StoreStep, ResultsStep
<1>4. QED
  BY <1>2, <1>3, TruthStep DEF Truthful

LEMMA StaysTruthful == Spec => []Truthful
<1>1. Init => Truthful
  BY TruthfulInit
<1>2. Truthful /\ [Next]_vars => Truthful'
  BY TruthfulStep
<1>3. QED
  BY <1>1, <1>2, PTL DEF Spec

-----------------------------------------------------------------------------
(* The theorems about truth                                                *)

(* The status that finish publishes says what became of the scenarios:     *)
(* "completed" only if every one succeeded, "cancelled" and                *)
(* "completed_with_errors" only with an outcome to show for it, "failed"   *)
(* only with an error; wherever the outcomes came from, and however often  *)
(* the service failed, lost its jobs or was called twice on the way.       *)
THEOREM FinalStatesTruthful == Spec => []FinalStateTruthful
<1>1. Truthful => FinalStateTruthful
  <2>1. SUFFICES ASSUME Truthful, NEW r \in DOMAIN runs
                 PROVE  LET verdicts == {runs[r].verdict[k] : k \in runs[r].keys}
                            state == status[r].state
                        IN /\ runs[r].over <=> state \in Terminal
                           /\ runs[r].over => Unanswered \notin verdicts
                           /\ state = "completed" => verdicts = {"succeeded"}
                           /\ state = "completed_with_errors" =>
                                "failed" \in verdicts /\ "cancelled" \notin verdicts
                           /\ state = "cancelled" => "cancelled" \in verdicts
                           /\ state = "failed" => status[r].error # "none"
    BY DEF FinalStateTruthful
  <2> DEFINE verdicts == {runs[r].verdict[k] : k \in runs[r].keys}
             state == status[r].state
  <2>2. SaysTruth(r)
    BY <2>1, TruthParts
  <2>3. verdicts # {}
    <3>1. Asked(r) /\ WorkspaceTypeOK
      BY <2>1, TruthParts DEF Coordinated, Data
    <3>2. runs[r].keys # {}
      BY <2>1, <3>1, AskedFinite
    <3>3. QED
      BY <3>2
  <2>4. /\ runs[r].over <=> state \in Terminal
        /\ runs[r].over => Unanswered \notin verdicts /\ Justified(state, verdicts)
        /\ state = "failed" => status[r].error # "none"
    BY <2>2 DEF SaysTruth
  <2>5. {"completed", "completed_with_errors", "cancelled", "failed"} \subseteq Terminal
    BY DEF Terminal
  <2> HIDE DEF verdicts, state
  <2>6. state \in Terminal => Justified(state, verdicts)
    BY <2>4
  <2>7. /\ state = "completed" => verdicts = {"succeeded"}
        /\ state = "completed_with_errors" => "failed" \in verdicts /\ "cancelled" \notin verdicts
        /\ state = "cancelled" => "cancelled" \in verdicts
    BY <2>3, <2>5, <2>6 DEF Justified
  <2>8. QED
    BY <2>4, <2>7 DEF verdicts, state
<1>2. QED
  BY <1>1, StaysTruthful, PTL

(* Status and outcomes are separate calls of the gateway, and yet a page   *)
(* read after a terminal status answers all that is open, and a result     *)
(* that was cached when the run was registered is there to be collected:   *)
(* the two internal errors of execute are never raised.                    *)
THEOREM ReadsAgree == Spec => []ReadsConsistent
<1>1. Truthful => ReadsConsistent
  BY DEF Truthful, Truth
<1>2. QED
  BY <1>1, StaysTruthful, PTL

=============================================================================
