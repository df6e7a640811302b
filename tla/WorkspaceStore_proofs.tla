------------------------ MODULE WorkspaceStore_proofs ------------------------
(***************************************************************************)
(* Proofs about the workspace store, for any number of workspaces, task    *)
(* sets, configurations and runs, any sizes of results and any limits.     *)
(***************************************************************************)
EXTENDS WorkspaceStore, FiniteSums, FiniteSetTheorems, TLAPS

-----------------------------------------------------------------------------
(* The reservation of a run is a number of bytes.                          *)

LEMMA MinOfTwo ==
  ASSUME NEW m \in Nat, NEW n \in Nat
  PROVE  Min({m, n}) \in {m, n}
<1>1. \E x \in {m, n} : \A y \in {m, n} : x <= y
  <2>1. CASE m <= n
    BY <2>1
  <2>2. CASE ~(m <= n)
    BY <2>2
  <2>3. QED
    BY <2>1, <2>2
<1>2. QED
  BY <1>1 DEF Min

LEMMA SelectionsFinite ==
  ASSUME NEW ts \in TaskSets, NEW ks \in Selections(ts)
  PROVE  ks \subseteq Keys /\ IsFiniteSet(ks)
<1>1. IsFiniteSet({ts} \X Configs)
  BY FS_Singleton, FS_Product, WorkspaceAssumption
<1>2. ks \in SUBSET ({ts} \X Configs)
  BY DEF Selections
<1>3. QED
  BY <1>1, <1>2, FS_Subset DEF Keys

LEMMA ReservationIsNat ==
  ASSUME NEW missing, IsFiniteSet(missing)
  PROVE  Reservation(missing) \in Nat
<1>1. Cardinality(missing) \in Nat
  BY FS_CardinalityType
<1>2. MaxModelBytes * Cardinality(missing) \in Nat /\ MaxRunBytes \in Nat
  BY <1>1, WorkspaceAssumption
<1>3. QED
  BY <1>2, MinOfTwo DEF Reservation

-----------------------------------------------------------------------------
(* Registering prunes runs that are over and not protected, and evicts     *)
(* only what the runs that stay and the new one do not need.               *)

RefusedWithout(gone) ==
  /\ runs' = Without(runs, gone)
  /\ UNCHANGED <<workspaces, nextRun>>

AdmittedWithout(gone, w, ts, ks, intent) ==
  /\ runs' = [r \in (DOMAIN runs \ gone) \cup {nextRun} |->
                 IF r = nextRun THEN NewRun(w, ts, ks, intent) ELSE runs[r]]
  /\ nextRun' = nextRun + 1
  /\ workspaces' = IF intent = "manual" THEN workspaces
                   ELSE [workspaces EXCEPT ![w].latest = nextRun]

LEMMA RegisterPrunes ==
  ASSUME NEW w, NEW ts, NEW ks, NEW intent, Register(w, ts, ks, intent)
  PROVE  \E gone \in SUBSET DOMAIN runs, evicted \in SUBSET cache :
           /\ \A r \in gone : r \notin ActiveRuns /\ ~Protected(r)
           /\ evicted \subseteq Evictable(DOMAIN runs \ gone, ks)
           /\ cache' = cache \ evicted
           /\ RefusedWithout(gone) \/ AdmittedWithout(gone, w, ts, ks, intent)
<1> DEFINE left == DOMAIN runs \ Surplus(w)
<1>1. Surplus(w) \subseteq DOMAIN runs
      /\ \A r \in Surplus(w) : r \notin ActiveRuns /\ ~Protected(r)
  BY DEF Surplus, Oldest, Disposable, Owned
<1>2. CASE Cardinality(Owned(w) \cap left) >= MaxRetainedRuns
  <2>1. runs' = Without(runs, Surplus(w)) /\ UNCHANGED <<workspaces, cache, nextRun>>
    BY <1>2 DEF Register
  <2>2. cache' = cache \ {}
    BY <2>1
  <2>3. RefusedWithout(Surplus(w))
    BY <2>1 DEF RefusedWithout
  <2>4. Surplus(w) \in SUBSET DOMAIN runs
    BY <1>1
  <2>5. QED
    BY <1>1, <2>2, <2>3, <2>4
<1>3. CASE ~(Cardinality(Owned(w) \cap left) >= MaxRetainedRuns)
  <2>1. PICK n \in 0..Cardinality(Disposable(left)), evicted \in SUBSET cache :
          /\ MakesRoom(left, Reservation(ks \ cache), ks, n, evicted)
          /\ cache' = cache \ evicted
          /\ \/ /\ runs' = Without(runs, DOMAIN runs \ (left \ Oldest(n, Disposable(left))))
                /\ UNCHANGED <<workspaces, nextRun>>
             \/ /\ runs' = [r \in (left \ Oldest(n, Disposable(left))) \cup {nextRun} |->
                              IF r = nextRun THEN NewRun(w, ts, ks, intent)
                              ELSE runs[r]]
                /\ nextRun' = nextRun + 1
                /\ workspaces' = IF intent = "manual" THEN workspaces
                                 ELSE [workspaces EXCEPT ![w].latest = nextRun]
    BY <1>3 DEF Register
  <2> DEFINE kept == left \ Oldest(n, Disposable(left))
             gone == DOMAIN runs \ kept
  <2>2. gone \in SUBSET DOMAIN runs /\ DOMAIN runs \ gone = kept
    OBVIOUS
  <2>3. \A r \in gone : r \notin ActiveRuns /\ ~Protected(r)
    BY <1>1 DEF Oldest, Disposable
  <2>4. evicted \subseteq Evictable(kept, ks)
    <3>1. CASE Reservation(ks \ cache) = 0
      <4>1. n = 0 /\ evicted = Evictable(left \ Oldest(0, Disposable(left)), ks)
        BY <2>1, <3>1 DEF MakesRoom
      <4>2. QED
        BY <4>1
    <3>2. CASE Reservation(ks \ cache) # 0
      BY <2>1, <3>2 DEF MakesRoom
    <3>3. QED
      BY <3>1, <3>2
  <2>5. RefusedWithout(gone) \/ AdmittedWithout(gone, w, ts, ks, intent)
    BY <2>1, <2>2 DEF RefusedWithout, AdmittedWithout
  <2>6. QED
    BY <2>1, <2>2, <2>3, <2>4, <2>5
<1>4. QED
  BY <1>2, <1>3

-----------------------------------------------------------------------------
(* Types                                                                   *)

LEMMA NewRunType ==
  ASSUME NEW w \in Workspaces, NEW ts \in TaskSets, NEW ks \in Selections(ts),
         NEW intent \in {"manual", "interactive"}
  PROVE  NewRun(w, ts, ks, intent) \in RunRecord
<1>1. ks \subseteq Keys /\ IsFiniteSet(ks)
  BY SelectionsFinite
<1>2. IsFiniteSet(ks \ cache)
  BY <1>1, FS_Subset
<1>3. Reservation(ks \ cache) \in Nat
  BY <1>2, ReservationIsNat
<1>4. [k \in Keys |-> Unanswered] \in [Keys -> Verdicts \cup {Unanswered}]
  OBVIOUS
<1>5. ks \ cache \in SUBSET Keys
  BY <1>1
<1>6. QED
  BY <1>1, <1>3, <1>4, <1>5 DEF NewRun, RunRecord

LEMMA AnswerTypeOK ==
  ASSUME WorkspaceTypeOK, NEW r \in ActiveRuns, NEW k \in runs[r].keys,
         NEW v \in Verdicts, Answer(r, k, v)
  PROVE  WorkspaceTypeOK'
<1>1. r \in DOMAIN runs /\ runs[r] \in RunRecord
  BY DEF ActiveRuns, WorkspaceTypeOK
<1>2. k \in Keys
  BY <1>1 DEF RunRecord
<1>3. CASE v = "succeeded"
  <2>1. cache' \subseteq Keys
    BY <1>2, <1>3 DEF Answer, WorkspaceTypeOK
  <2>2. runs[r].reservation - ChargedBytes(k) \in Nat
    <3>1. Size(k) \in Nat
      BY <1>2, WorkspaceAssumption DEF Size, Keys
    <3>2. runs[r].reservation \in Nat
      BY <1>1 DEF RunRecord
    <3>3. QED
      BY <1>3, <3>1, <3>2 DEF Answer, CanRetain, ChargedBytes
  <2> DEFINE new == [runs[r] EXCEPT !.verdict = [@ EXCEPT ![k] = v],
                                    !.retained = @ \cup {k},
                                    !.reservation = @ - ChargedBytes(k)]
  <2>3. new \in RunRecord
    BY <1>1, <1>2, <2>2 DEF RunRecord
  <2>4. runs' = [runs EXCEPT ![r] = new]
    BY <1>3 DEF Answer
  <2>5. DOMAIN runs' = DOMAIN runs /\ \A q \in DOMAIN runs' : runs'[q] \in RunRecord
    BY <2>3, <2>4 DEF WorkspaceTypeOK
  <2>6. QED
    BY <2>1, <2>5 DEF Answer, WorkspaceTypeOK
<1>4. CASE v # "succeeded"
  <2> DEFINE new == [runs[r] EXCEPT !.verdict = [@ EXCEPT ![k] = v]]
  <2>1. new \in RunRecord
    BY <1>1, <1>2 DEF RunRecord
  <2>2. runs' = [runs EXCEPT ![r] = new]
    BY <1>4 DEF Answer
  <2>3. QED
    BY <1>4, <2>1, <2>2 DEF Answer, WorkspaceTypeOK
<1>5. QED
  BY <1>3, <1>4

LEMMA RegisterTypeOK ==
  ASSUME WorkspaceTypeOK, NEW w \in DOMAIN workspaces, NEW ts \in TaskSets,
         NEW ks \in Selections(ts), NEW intent \in {"manual", "interactive"},
         nextRun \in Runs, Register(w, ts, ks, intent)
  PROVE  WorkspaceTypeOK'
<1>1. PICK gone \in SUBSET DOMAIN runs, evicted \in SUBSET cache :
        /\ cache' = cache \ evicted
        /\ RefusedWithout(gone) \/ AdmittedWithout(gone, w, ts, ks, intent)
  BY RegisterPrunes
<1>2. w \in Workspaces /\ workspaces[w] \in Workspace
  BY DEF WorkspaceTypeOK
<1>3. CASE RefusedWithout(gone)
  BY <1>1, <1>3 DEF RefusedWithout, Without, WorkspaceTypeOK
<1>4. CASE AdmittedWithout(gone, w, ts, ks, intent)
  <2>1. NewRun(w, ts, ks, intent) \in RunRecord
    BY <1>2, NewRunType
  <2>2. DOMAIN runs' \subseteq Runs /\ \A r \in DOMAIN runs' : runs'[r] \in RunRecord
    BY <1>4, <2>1 DEF AdmittedWithout, WorkspaceTypeOK
  <2>3. [workspaces[w] EXCEPT !.latest = nextRun] \in Workspace
    BY <1>2 DEF Workspace
  <2>4. /\ DOMAIN workspaces' = DOMAIN workspaces
        /\ \A v \in DOMAIN workspaces' : workspaces'[v] \in Workspace
    <3>1. CASE intent = "manual"
      BY <1>4, <3>1 DEF AdmittedWithout, WorkspaceTypeOK
    <3>2. CASE intent # "manual"
      <4>1. workspaces' = [workspaces EXCEPT
                             ![w] = [workspaces[w] EXCEPT !.latest = nextRun]]
        BY <1>4, <3>2 DEF AdmittedWithout
      <4>2. QED
        BY <2>3, <4>1 DEF WorkspaceTypeOK
    <3>3. QED
      BY <3>1, <3>2
  <2>5. nextRun' \in 1..(MaxRuns + 1)
    BY <1>4, WorkspaceAssumption DEF AdmittedWithout, Runs
  <2>6. QED
    BY <1>1, <2>2, <2>4, <2>5 DEF WorkspaceTypeOK
<1>5. QED
  BY <1>1, <1>3, <1>4

LEMMA RemoveRunsTypes ==
  ASSUME WorkspaceTypeOK, NEW gone, RemoveRuns(gone)
  PROVE  /\ DOMAIN runs' = DOMAIN runs \ gone
         /\ \A r \in DOMAIN runs' : runs'[r] = runs[r] /\ runs'[r] \in RunRecord
         /\ cache' \subseteq Keys
  BY DEF RemoveRuns, Without, WorkspaceTypeOK

LEMMA WorkspaceOperationsTypeOK ==
  ASSUME WorkspaceTypeOK,
         \/ \E w \in Workspaces : Create(w)
         \/ \E w \in DOMAIN workspaces : DeleteWorkspace(w)
         \/ \E w \in DOMAIN workspaces, ts \in TaskSets :
              SaveEditor(w, ts) \/ DeleteTaskSet(w, ts)
  PROVE  WorkspaceTypeOK'
<1>1. ASSUME NEW w \in Workspaces, Create(w) PROVE WorkspaceTypeOK'
  <2>1. NewWorkspace \in Workspace
    BY DEF NewWorkspace, Workspace
  <2>2. QED
    BY <1>1, <2>1 DEF Create, WorkspaceTypeOK
<1>2. ASSUME NEW w \in DOMAIN workspaces, DeleteWorkspace(w) PROVE WorkspaceTypeOK'
  <2>1. RemoveRuns(Owned(w))
    BY <1>2 DEF DeleteWorkspace
  <2>2. DOMAIN workspaces' = DOMAIN workspaces \ {w}
        /\ \A v \in DOMAIN workspaces' : workspaces'[v] = workspaces[v]
    BY <1>2 DEF DeleteWorkspace, Without
  <2>3. QED
    BY <1>2, <2>1, <2>2, RemoveRunsTypes DEF DeleteWorkspace, WorkspaceTypeOK
<1>3. ASSUME NEW w \in DOMAIN workspaces, NEW ts \in TaskSets, SaveEditor(w, ts)
      PROVE  WorkspaceTypeOK'
  <2>1. workspaces[w] \in Workspace
    BY DEF WorkspaceTypeOK
  <2> DEFINE new ==
        [taskSets |-> workspaces[w].taskSets \cup {ts},
         current  |-> ts,
         baseline |-> IF workspaces[w].current = ts THEN workspaces[w].baseline ELSE Null,
         latest   |-> IF workspaces[w].current = ts THEN workspaces[w].latest ELSE Null]
  <2>2. new \in Workspace
    BY <2>1 DEF Workspace
  <2>3. workspaces' = [workspaces EXCEPT ![w] = new]
    BY <1>3 DEF SaveEditor
  <2>4. QED
    BY <1>3, <2>2, <2>3 DEF SaveEditor, WorkspaceTypeOK
<1>4. ASSUME NEW w \in DOMAIN workspaces, NEW ts \in TaskSets, DeleteTaskSet(w, ts)
      PROVE  WorkspaceTypeOK'
  <2>1. workspaces[w] \in Workspace
    BY DEF WorkspaceTypeOK
  <2> DEFINE new == [workspaces[w] EXCEPT !.taskSets = @ \ {ts}]
  <2>2. new \in Workspace
    BY <2>1 DEF Workspace
  <2>3. workspaces' = [workspaces EXCEPT ![w] = new]
    BY <1>4 DEF DeleteTaskSet
  <2>4. QED
    BY <1>4, <2>2, <2>3 DEF DeleteTaskSet, WorkspaceTypeOK
<1>5. QED
  BY <1>1, <1>2, <1>3, <1>4

LEMMA ComparisonTypeOK ==
  ASSUME WorkspaceTypeOK, NEW r \in DOMAIN runs,
         runs[r].workspace \in DOMAIN workspaces,
         Pin(r) \/ Unpin(r) \/ Baseline(r) \/ DeleteComparison(r)
  PROVE  WorkspaceTypeOK'
<1>1. runs[r] \in RunRecord /\ r \in Runs
  BY DEF WorkspaceTypeOK
<1> DEFINE w == runs[r].workspace
<1>2. workspaces[w] \in Workspace
  BY DEF WorkspaceTypeOK
<1>3. CASE Pin(r) \/ Unpin(r)
  <2>1. [runs[r] EXCEPT !.pinned = TRUE] \in RunRecord
        /\ [runs[r] EXCEPT !.pinned = FALSE] \in RunRecord
    BY <1>1 DEF RunRecord
  <2>2. \/ runs' = [runs EXCEPT ![r] = [runs[r] EXCEPT !.pinned = TRUE]]
        \/ runs' = [runs EXCEPT ![r] = [runs[r] EXCEPT !.pinned = FALSE]]
    BY <1>3 DEF Pin, Unpin
  <2>3. UNCHANGED <<workspaces, cache, nextRun>>
    BY <1>3 DEF Pin, Unpin
  <2>4. DOMAIN runs' = DOMAIN runs /\ \A q \in DOMAIN runs' : runs'[q] \in RunRecord
    BY <2>1, <2>2 DEF WorkspaceTypeOK
  <2>5. QED
    BY <2>3, <2>4 DEF WorkspaceTypeOK
<1>4. CASE Baseline(r)
  <2> DEFINE latest == workspaces[w].latest
             left == IF latest # Null /\ runs[latest].taskSet # runs[r].taskSet
                       THEN Null ELSE latest
             new == [workspaces[w] EXCEPT !.baseline = r, !.current = runs[r].taskSet,
                                          !.latest = left]
  <2>1. new \in Workspace
    BY <1>1, <1>2 DEF Workspace, RunRecord
  <2>2. workspaces' = [workspaces EXCEPT ![w] = new]
    BY <1>4 DEF Baseline
  <2>3. QED
    BY <1>4, <2>1, <2>2 DEF Baseline, WorkspaceTypeOK
<1>5. CASE DeleteComparison(r)
  <2> DEFINE new == [workspaces[w] EXCEPT
                       !.baseline = IF @ = r THEN Null ELSE @, !.latest = Leaving(w, r)]
  <2>1. new \in Workspace
    BY <1>2 DEF Workspace, Leaving
  <2>2. workspaces' = [workspaces EXCEPT ![w] = new]
    BY <1>5 DEF DeleteComparison
  <2>3. RemoveRuns({r}) /\ UNCHANGED nextRun
    BY <1>5 DEF DeleteComparison
  <2>4. QED
    BY <2>1, <2>2, <2>3, RemoveRunsTypes DEF WorkspaceTypeOK
<1>6. QED
  BY <1>3, <1>4, <1>5

LEMMA FinishTypeOK ==
  ASSUME WorkspaceTypeOK, NEW r \in DOMAIN runs,
         runs[r].workspace \in DOMAIN workspaces,
         Finish(r) \/ Supersede(r)
  PROVE  WorkspaceTypeOK'
<1>1. runs[r] \in RunRecord /\ r \in Runs
  BY DEF WorkspaceTypeOK
<1> DEFINE w == runs[r].workspace
<1>2. workspaces[w] \in Workspace
  BY DEF WorkspaceTypeOK
<1>3. CASE Finish(r)
  <2>1. PICK b \in {r, workspaces[w].baseline}, l \in {r, workspaces[w].latest} :
          workspaces' = [workspaces EXCEPT ![w] =
                           [workspaces[w] EXCEPT !.baseline = b, !.latest = l]]
    BY <1>3 DEF Finish
  <2>2. [workspaces[w] EXCEPT !.baseline = b, !.latest = l] \in Workspace
    BY <1>1, <1>2 DEF Workspace
  <2>3. [runs[r] EXCEPT !.over = TRUE, !.reservation = 0] \in RunRecord
    BY <1>1 DEF RunRecord
  <2>4. runs' = [runs EXCEPT ![r] = [runs[r] EXCEPT !.over = TRUE, !.reservation = 0]]
    BY <1>3 DEF Finish
  <2>5. UNCHANGED <<cache, nextRun>>
    BY <1>3 DEF Finish
  <2>6. DOMAIN runs' = DOMAIN runs /\ \A q \in DOMAIN runs' : runs'[q] \in RunRecord
    BY <2>3, <2>4 DEF WorkspaceTypeOK
  <2>7. /\ DOMAIN workspaces' = DOMAIN workspaces
        /\ \A v \in DOMAIN workspaces' : workspaces'[v] \in Workspace
    BY <2>1, <2>2 DEF WorkspaceTypeOK
  <2>8. QED
    BY <2>5, <2>6, <2>7 DEF WorkspaceTypeOK
<1>4. CASE Supersede(r)
  <2>1. [runs[r] EXCEPT !.superseded = TRUE] \in RunRecord
    BY <1>1 DEF RunRecord
  <2>2. runs' = [runs EXCEPT ![r] = [runs[r] EXCEPT !.superseded = TRUE]]
    BY <1>4 DEF Supersede
  <2>3. QED
    BY <1>4, <2>1, <2>2 DEF Supersede, WorkspaceTypeOK
<1>5. QED
  BY <1>3, <1>4

-----------------------------------------------------------------------------
(* References                                                              *)

(* Runs are numbered in the order of their registration: a new run takes   *)
(* the place of none.                                                      *)
RunsNumbered == \A r \in DOMAIN runs : r < nextRun

Consistent == WorkspaceTypeOK /\ ReferencesResolve /\ RunsNumbered

(* The operations that change neither which runs there are nor where they  *)
(* belong leave the question to the workspaces.                            *)
SameRuns ==
  /\ DOMAIN runs' = DOMAIN runs
  /\ \A r \in DOMAIN runs : /\ runs'[r].workspace = runs[r].workspace
                            /\ runs'[r].taskSet = runs[r].taskSet
  /\ nextRun' = nextRun

LEMMA SameRunsOwned ==
  ASSUME SameRuns, NEW w
  PROVE  Owned(w)' = Owned(w)
  BY DEF SameRuns, Owned

LEMMA SameRunsReferences ==
  ASSUME Consistent, SameRuns, UNCHANGED workspaces
  PROVE  ReferencesResolve' /\ RunsNumbered'
  BY SameRunsOwned
  DEF Consistent, SameRuns, ReferencesResolve, RunsNumbered, Shown, Owned

(* One workspace is replaced by another record.                            *)
LEMMA ReplacedReferences ==
  ASSUME Consistent, SameRuns, NEW w \in DOMAIN workspaces, NEW new,
         workspaces' = [workspaces EXCEPT ![w] = new],
         \A r \in Owned(w) : runs[r].taskSet \in new.taskSets,
         {new.baseline, new.latest} \subseteq Owned(w) \cup {Null},
         new.current \in new.taskSets \cup {Null}
  PROVE  ReferencesResolve' /\ RunsNumbered'
<1>1. /\ DOMAIN workspaces' = DOMAIN workspaces
      /\ workspaces'[w] = new
      /\ \A v \in DOMAIN workspaces \ {w} : workspaces'[v] = workspaces[v]
  OBVIOUS
<1>2. ASSUME NEW r \in DOMAIN runs'
      PROVE  /\ runs'[r].workspace \in DOMAIN workspaces'
             /\ runs'[r].taskSet \in workspaces'[runs'[r].workspace].taskSets
  <2>1. CASE runs[r].workspace = w
    BY <1>1, <2>1 DEF SameRuns, Owned
  <2>2. CASE runs[r].workspace # w
    BY <1>1, <2>2 DEF SameRuns, Consistent, ReferencesResolve
  <2>3. QED
    BY <2>1, <2>2
<1>3. ASSUME NEW v \in DOMAIN workspaces'
      PROVE  /\ Shown(v)' \subseteq Owned(v)' \cup {Null}
             /\ workspaces'[v].current \in workspaces'[v].taskSets \cup {Null}
  <2>1. Owned(v)' = Owned(v)
    BY SameRunsOwned
  <2>2. CASE v = w
    BY <1>1, <2>1, <2>2 DEF Shown
  <2>3. CASE v # w
    BY <1>1, <1>3, <2>1, <2>3 DEF Shown, Consistent, ReferencesResolve
  <2>4. QED
    BY <2>2, <2>3
<1>4. RunsNumbered'
  BY DEF SameRuns, RunsNumbered, Consistent
<1>5. QED
  BY <1>2, <1>3, <1>4 DEF ReferencesResolve

(* Runs that nothing refers to go, perhaps with their workspace.           *)
LEMMA RemovedReferences ==
  ASSUME Consistent, NEW gone, UNCHANGED <<workspaces, nextRun>>,
         DOMAIN runs' = DOMAIN runs \ gone,
         \A r \in DOMAIN runs' : runs'[r] = runs[r],
         \A w \in DOMAIN workspaces : Shown(w) \cap gone \subseteq {Null}
  PROVE  ReferencesResolve' /\ RunsNumbered'
<1>1. \A w \in DOMAIN workspaces : Owned(w)' = Owned(w) \ gone
  BY DEF Owned
<1>2. \A w \in DOMAIN workspaces : Shown(w)' = Shown(w)
  BY DEF Shown
<1>3. QED
  BY <1>1, <1>2 DEF Consistent, ReferencesResolve, RunsNumbered

LEMMA WorkspaceOperationsReferences ==
  ASSUME Consistent,
         \/ \E w \in Workspaces : Create(w)
         \/ \E w \in DOMAIN workspaces : DeleteWorkspace(w)
         \/ \E w \in DOMAIN workspaces, ts \in TaskSets :
              SaveEditor(w, ts) \/ DeleteTaskSet(w, ts)
  PROVE  ReferencesResolve' /\ RunsNumbered'
<1>1. ASSUME NEW w \in Workspaces, Create(w)
      PROVE  ReferencesResolve' /\ RunsNumbered'
  <2>1. /\ DOMAIN workspaces' = DOMAIN workspaces \cup {w}
        /\ workspaces'[w] = NewWorkspace
        /\ \A v \in DOMAIN workspaces : v # w /\ workspaces'[v] = workspaces[v]
        /\ UNCHANGED <<runs, nextRun>>
    BY <1>1 DEF Create
  <2>2. \A v : Owned(v)' = Owned(v)
    BY <2>1 DEF Owned
  <2>3. QED
    BY <2>1, <2>2
    DEF Consistent, ReferencesResolve, RunsNumbered, Shown, NewWorkspace
<1>2. ASSUME NEW w \in DOMAIN workspaces, DeleteWorkspace(w)
      PROVE  ReferencesResolve' /\ RunsNumbered'
  <2>1. /\ DOMAIN runs' = DOMAIN runs \ Owned(w)
        /\ \A r \in DOMAIN runs' : runs'[r] = runs[r] /\ runs[r].workspace # w
        /\ DOMAIN workspaces' = DOMAIN workspaces \ {w}
        /\ \A v \in DOMAIN workspaces' : workspaces'[v] = workspaces[v]
        /\ UNCHANGED nextRun
    BY <1>2 DEF DeleteWorkspace, RemoveRuns, Without, Owned
  <2>2. \A v \in DOMAIN workspaces' : Owned(v)' = Owned(v)
    BY <2>1 DEF Owned
  <2>3. QED
    BY <2>1, <2>2 DEF Consistent, ReferencesResolve, RunsNumbered, Shown
<1>3. ASSUME NEW w \in DOMAIN workspaces, NEW ts \in TaskSets, SaveEditor(w, ts)
      PROVE  ReferencesResolve' /\ RunsNumbered'
  <2> DEFINE new ==
        [taskSets |-> workspaces[w].taskSets \cup {ts},
         current  |-> ts,
         baseline |-> IF workspaces[w].current = ts THEN workspaces[w].baseline ELSE Null,
         latest   |-> IF workspaces[w].current = ts THEN workspaces[w].latest ELSE Null]
  <2>1. workspaces' = [workspaces EXCEPT ![w] = new] /\ SameRuns
    BY <1>3 DEF SaveEditor, SameRuns
  <2>2. \A r \in Owned(w) : runs[r].taskSet \in new.taskSets
    BY DEF Owned, Consistent, ReferencesResolve
  <2>3. {new.baseline, new.latest} \subseteq Owned(w) \cup {Null}
    BY DEF Consistent, ReferencesResolve, Shown
  <2>4. new.current \in new.taskSets \cup {Null}
    OBVIOUS
  <2> HIDE DEF new
  <2>5. QED
    BY <2>1, <2>2, <2>3, <2>4, ReplacedReferences
<1>4. ASSUME NEW w \in DOMAIN workspaces, NEW ts \in TaskSets, DeleteTaskSet(w, ts)
      PROVE  ReferencesResolve' /\ RunsNumbered'
  <2> DEFINE new == [workspaces[w] EXCEPT !.taskSets = @ \ {ts}]
  <2>0. workspaces[w] \in Workspace
    BY DEF Consistent, WorkspaceTypeOK
  <2>1. workspaces' = [workspaces EXCEPT ![w] = new] /\ SameRuns
    BY <1>4 DEF DeleteTaskSet, SameRuns
  <2>2. /\ new.taskSets = workspaces[w].taskSets \ {ts}
        /\ new.current = workspaces[w].current
        /\ new.baseline = workspaces[w].baseline /\ new.latest = workspaces[w].latest
    BY <2>0 DEF Workspace
  <2>3. ts \notin {workspaces[w].current} \cup {runs[r].taskSet : r \in Owned(w)}
    BY <1>4 DEF DeleteTaskSet, UsedTaskSets
  <2>4. \A r \in Owned(w) : runs[r].taskSet \in new.taskSets
    BY <2>2, <2>3 DEF Owned, Consistent, ReferencesResolve
  <2>5. {new.baseline, new.latest} \subseteq Owned(w) \cup {Null}
    BY <2>2 DEF Consistent, ReferencesResolve, Shown
  <2>6. new.current \in new.taskSets \cup {Null}
    BY <2>2, <2>3 DEF Consistent, ReferencesResolve
  <2> HIDE DEF new
  <2>7. QED
    BY <2>1, <2>4, <2>5, <2>6, ReplacedReferences
<1>5. QED
  BY <1>1, <1>2, <1>3, <1>4

LEMMA ComparisonReferences ==
  ASSUME Consistent, NEW r \in DOMAIN runs,
         Pin(r) \/ Unpin(r) \/ Baseline(r) \/ DeleteComparison(r)
  PROVE  ReferencesResolve' /\ RunsNumbered'
<1> DEFINE w == runs[r].workspace
<1>1. w \in DOMAIN workspaces /\ workspaces[w] \in Workspace /\ r \in Owned(w)
  BY DEF Consistent, ReferencesResolve, WorkspaceTypeOK, Owned
<1>2. CASE Pin(r) \/ Unpin(r)
  <2>0. runs[r] \in RunRecord
    BY DEF Consistent, WorkspaceTypeOK
  <2>1. SameRuns /\ UNCHANGED workspaces
    BY <1>2, <2>0 DEF Pin, Unpin, SameRuns, RunRecord
  <2>2. QED
    BY <2>1, SameRunsReferences
<1>3. CASE Baseline(r)
  <2> DEFINE latest == workspaces[w].latest
             left == IF latest # Null /\ runs[latest].taskSet # runs[r].taskSet
                       THEN Null ELSE latest
             new == [workspaces[w] EXCEPT !.baseline = r, !.current = runs[r].taskSet,
                                          !.latest = left]
  <2>1. workspaces' = [workspaces EXCEPT ![w] = new] /\ SameRuns
    BY <1>3 DEF Baseline, SameRuns
  <2>2. /\ new.taskSets = workspaces[w].taskSets /\ new.current = runs[r].taskSet
        /\ new.baseline = r /\ new.latest \in {Null, workspaces[w].latest}
    BY <1>1 DEF Workspace
  <2>3. \A q \in Owned(w) : runs[q].taskSet \in new.taskSets
    BY <2>2 DEF Owned, Consistent, ReferencesResolve
  <2>4. {new.baseline, new.latest} \subseteq Owned(w) \cup {Null}
    BY <1>1, <2>2 DEF Consistent, ReferencesResolve, Shown
  <2>5. new.current \in new.taskSets \cup {Null}
    BY <1>1, <2>2, <2>3
  <2> HIDE DEF new
  <2>6. QED
    BY <1>1, <2>1, <2>3, <2>4, <2>5, ReplacedReferences
<1>4. CASE DeleteComparison(r)
  <2>1. /\ DOMAIN runs' = DOMAIN runs \ {r}
        /\ \A q \in DOMAIN runs' : runs'[q] = runs[q]
        /\ UNCHANGED nextRun
    BY <1>4 DEF DeleteComparison, RemoveRuns, Without
  <2>2. /\ DOMAIN workspaces' = DOMAIN workspaces
        /\ \A v \in DOMAIN workspaces \ {w} : workspaces'[v] = workspaces[v]
        /\ workspaces'[w].taskSets = workspaces[w].taskSets
        /\ workspaces'[w].current = workspaces[w].current
        /\ workspaces'[w].baseline \in {workspaces[w].baseline, Null} \ {r}
        /\ workspaces'[w].latest \in {workspaces[w].latest, Null} \ {r}
    <3>1. r # Null
      BY WorkspaceAssumption DEF Consistent, WorkspaceTypeOK
    <3> DEFINE new == [workspaces[w] EXCEPT
                         !.baseline = IF @ = r THEN Null ELSE @, !.latest = Leaving(w, r)]
    <3>2. workspaces' = [workspaces EXCEPT ![w] = new]
      BY <1>4 DEF DeleteComparison
    <3>3. /\ new.taskSets = workspaces[w].taskSets /\ new.current = workspaces[w].current
          /\ new.baseline \in {workspaces[w].baseline, Null} \ {r}
          /\ new.latest \in {workspaces[w].latest, Null} \ {r}
      BY <1>1, <3>1 DEF Workspace, Leaving
    <3>4. QED
      BY <1>1, <3>2, <3>3
  <2>3. \A v : Owned(v)' = Owned(v) \ {r}
    BY <2>1 DEF Owned
  <2>4. ASSUME NEW v \in DOMAIN workspaces' PROVE Shown(v)' \subseteq Owned(v)' \cup {Null}
    <3>1. CASE v = w
      BY <2>2, <2>3, <2>4, <3>1 DEF Consistent, ReferencesResolve, Shown
    <3>2. CASE v # w
      <4>1. r \notin Owned(v)
        BY <3>2 DEF Owned
      <4>2. QED
        BY <2>2, <2>3, <2>4, <3>2, <4>1 DEF Consistent, ReferencesResolve, Shown
    <3>3. QED
      BY <3>1, <3>2
  <2>5. ASSUME NEW q \in DOMAIN runs'
        PROVE  /\ runs'[q].workspace \in DOMAIN workspaces'
               /\ runs'[q].taskSet \in workspaces'[runs'[q].workspace].taskSets
    BY <2>1, <2>2 DEF Consistent, ReferencesResolve
  <2>6. \A v \in DOMAIN workspaces' :
          workspaces'[v].current \in workspaces'[v].taskSets \cup {Null}
    BY <2>2 DEF Consistent, ReferencesResolve
  <2>7. RunsNumbered'
    BY <2>1 DEF RunsNumbered, Consistent
  <2>8. QED
    BY <2>4, <2>5, <2>6, <2>7 DEF ReferencesResolve
<1>5. QED
  BY <1>2, <1>3, <1>4

LEMMA RegisterReferences ==
  ASSUME Consistent, NEW w \in DOMAIN workspaces, NEW ts \in TaskSets,
         NEW ks, NEW intent,
         workspaces[w].current = ts, nextRun \in Runs, Register(w, ts, ks, intent)
  PROVE  ReferencesResolve' /\ RunsNumbered'
<1>1. PICK gone \in SUBSET DOMAIN runs, evicted \in SUBSET cache :
        /\ \A r \in gone : r \notin ActiveRuns /\ ~Protected(r)
        /\ RefusedWithout(gone) \/ AdmittedWithout(gone, w, ts, ks, intent)
  BY RegisterPrunes
<1>2. \A v \in DOMAIN workspaces : Shown(v) \cap gone = {}
  <2>1. SUFFICES ASSUME NEW v \in DOMAIN workspaces, NEW r \in Shown(v) \cap gone
                 PROVE  FALSE
    OBVIOUS
  <2>2. r # Null
    BY WorkspaceAssumption DEF Consistent, WorkspaceTypeOK
  <2>3. runs[r].workspace = v
    BY <2>2 DEF Consistent, ReferencesResolve, Owned
  <2>4. QED
    BY <1>1, <2>3 DEF Protected
<1>3. CASE RefusedWithout(gone)
  <2>1. /\ UNCHANGED <<workspaces, nextRun>>
        /\ DOMAIN runs' = DOMAIN runs \ gone
        /\ \A r \in DOMAIN runs' : runs'[r] = runs[r]
    BY <1>3 DEF RefusedWithout, Without
  <2>2. QED
    BY <1>2, <2>1, RemovedReferences
<1>4. CASE AdmittedWithout(gone, w, ts, ks, intent)
  <2>1. /\ DOMAIN runs' = (DOMAIN runs \ gone) \cup {nextRun}
        /\ \A r \in DOMAIN runs \ gone : r # nextRun /\ runs'[r] = runs[r]
        /\ runs'[nextRun].workspace = w /\ runs'[nextRun].taskSet = ts
    <3>1. nextRun \notin DOMAIN runs
      <4>1. nextRun \in Int
        BY WorkspaceAssumption DEF Runs
      <4>2. QED
        BY <4>1 DEF Consistent, RunsNumbered
    <3>2. QED
      BY <1>4, <3>1 DEF AdmittedWithout, NewRun
  <2>2. /\ DOMAIN workspaces' = DOMAIN workspaces
        /\ \A v \in DOMAIN workspaces \ {w} : workspaces'[v] = workspaces[v]
        /\ workspaces'[w].taskSets = workspaces[w].taskSets
        /\ workspaces'[w].current = workspaces[w].current
        /\ workspaces'[w].baseline = workspaces[w].baseline
        /\ workspaces'[w].latest \in {workspaces[w].latest, nextRun}
    <3>1. workspaces[w] \in Workspace
      BY DEF Consistent, WorkspaceTypeOK
    <3>2. CASE intent = "manual"
      BY <1>4, <3>2 DEF AdmittedWithout
    <3>3. CASE intent # "manual"
      <4>1. workspaces' = [workspaces EXCEPT
                             ![w] = [workspaces[w] EXCEPT !.latest = nextRun]]
        BY <1>4, <3>3 DEF AdmittedWithout
      <4>2. QED
        BY <3>1, <4>1 DEF Workspace
    <3>4. QED
      BY <3>2, <3>3
  <2>3. \A v : Owned(v) \ gone \subseteq Owned(v)'
    BY <2>1 DEF Owned
  <2>4. nextRun \in Owned(w)'
    BY <2>1 DEF Owned
  <2>5. ASSUME NEW v \in DOMAIN workspaces' PROVE Shown(v)' \subseteq Owned(v)' \cup {Null}
    <3>1. Shown(v) \subseteq (Owned(v) \ gone) \cup {Null}
      BY <1>2, <2>2, <2>5 DEF Consistent, ReferencesResolve
    <3>2. QED
      BY <2>2, <2>3, <2>4, <3>1 DEF Shown
  <2>6. ASSUME NEW r \in DOMAIN runs'
        PROVE  /\ runs'[r].workspace \in DOMAIN workspaces'
               /\ runs'[r].taskSet \in workspaces'[runs'[r].workspace].taskSets
    <3>1. CASE r = nextRun
      <4>1. ts \in workspaces[w].taskSets
        BY WorkspaceAssumption DEF Consistent, ReferencesResolve
      <4>2. QED
        BY <2>1, <2>2, <3>1, <4>1
    <3>2. CASE r # nextRun
      BY <2>1, <2>2, <2>6, <3>2 DEF Consistent, ReferencesResolve
    <3>3. QED
      BY <3>1, <3>2
  <2>7. \A v \in DOMAIN workspaces' :
          workspaces'[v].current \in workspaces'[v].taskSets \cup {Null}
    BY <2>2 DEF Consistent, ReferencesResolve
  <2>8. RunsNumbered'
    <3>1. nextRun \in Int /\ DOMAIN runs \subseteq Int /\ nextRun' = nextRun + 1
      BY <1>4, WorkspaceAssumption DEF AdmittedWithout, Consistent, WorkspaceTypeOK, Runs
    <3>2. QED
      BY <2>1, <3>1 DEF RunsNumbered, Consistent
  <2>9. QED
    BY <2>5, <2>6, <2>7, <2>8 DEF ReferencesResolve
<1>5. QED
  BY <1>1, <1>3, <1>4

LEMMA RunningReferences ==
  ASSUME Consistent, NEW r \in ActiveRuns,
         \/ \E k \in runs[r].keys, v \in Verdicts : Answer(r, k, v)
         \/ Finish(r)
         \/ Supersede(r)
  PROVE  ReferencesResolve' /\ RunsNumbered'
<1> DEFINE w == runs[r].workspace
<1>1. r \in DOMAIN runs /\ runs[r] \in RunRecord
  BY DEF ActiveRuns, Consistent, WorkspaceTypeOK
<1>2. w \in DOMAIN workspaces /\ workspaces[w] \in Workspace /\ r \in Owned(w)
  BY <1>1 DEF Consistent, ReferencesResolve, WorkspaceTypeOK, Owned
<1>3. ASSUME NEW k \in runs[r].keys, NEW v \in Verdicts, Answer(r, k, v)
      PROVE  ReferencesResolve' /\ RunsNumbered'
  <2>1. SameRuns
    <3> DEFINE answered == [runs[r] EXCEPT !.verdict = [@ EXCEPT ![k] = v]]
               kept == [runs[r] EXCEPT !.verdict = [@ EXCEPT ![k] = v],
                                       !.retained = @ \cup {k},
                                       !.reservation = @ - ChargedBytes(k)]
    <3>1. answered.workspace = w /\ answered.taskSet = runs[r].taskSet
      BY <1>1 DEF RunRecord
    <3>2. kept.workspace = w /\ kept.taskSet = runs[r].taskSet
      BY <1>1 DEF RunRecord
    <3>3. runs' = [runs EXCEPT ![r] = answered] \/ runs' = [runs EXCEPT ![r] = kept]
      <4>1. CASE v = "succeeded"
        BY <1>3, <4>1 DEF Answer
      <4>2. CASE v # "succeeded"
        BY <1>3, <4>2 DEF Answer
      <4>3. QED
        BY <4>1, <4>2
    <3>4. nextRun' = nextRun
      BY <1>3 DEF Answer
    <3> HIDE DEF answered, kept
    <3>5. QED
      BY <1>1, <3>1, <3>2, <3>3, <3>4 DEF SameRuns
  <2>2. QED
    BY <1>3, <2>1, SameRunsReferences DEF Answer
<1>4. CASE Finish(r)
  <2>1. PICK b \in {r, workspaces[w].baseline}, l \in {r, workspaces[w].latest} :
          workspaces' = [workspaces EXCEPT ![w] =
                           [workspaces[w] EXCEPT !.baseline = b, !.latest = l]]
    BY <1>4 DEF Finish
  <2> DEFINE new == [workspaces[w] EXCEPT !.baseline = b, !.latest = l]
  <2>2. /\ new.taskSets = workspaces[w].taskSets /\ new.current = workspaces[w].current
        /\ new.baseline = b /\ new.latest = l
    BY <1>2 DEF Workspace
  <2>3. SameRuns
    BY <1>1, <1>4 DEF Finish, SameRuns, RunRecord
  <2>4. \A q \in Owned(w) : runs[q].taskSet \in new.taskSets
    BY <2>2 DEF Owned, Consistent, ReferencesResolve
  <2>5. {new.baseline, new.latest} \subseteq Owned(w) \cup {Null}
    BY <1>2, <2>2 DEF Consistent, ReferencesResolve, Shown
  <2>6. new.current \in new.taskSets \cup {Null}
    BY <1>2, <2>2 DEF Consistent, ReferencesResolve
  <2>7. workspaces' = [workspaces EXCEPT ![w] = new]
    BY <2>1
  <2> HIDE DEF new
  <2>8. QED
    BY <1>2, <2>3, <2>4, <2>5, <2>6, <2>7, ReplacedReferences
<1>5. CASE Supersede(r)
  <2>1. SameRuns /\ UNCHANGED workspaces
    BY <1>1, <1>5 DEF Supersede, SameRuns, RunRecord
  <2>2. QED
    BY <2>1, SameRunsReferences
<1>6. QED
  BY <1>3, <1>4, <1>5

-----------------------------------------------------------------------------

LEMMA ConsistentInit == WorkspaceInit => Consistent
<1>1. SUFFICES ASSUME WorkspaceInit PROVE Consistent
  OBVIOUS
<1>2. 1 \in 1..(MaxRuns + 1)
  BY WorkspaceAssumption
<1>3. QED
  BY <1>1, <1>2
  DEF WorkspaceInit, Consistent, WorkspaceTypeOK, ReferencesResolve, RunsNumbered

LEMMA ConsistentStep == Consistent /\ [WorkspaceNext]_workspaceVars => Consistent'
<1>1. SUFFICES ASSUME Consistent, [WorkspaceNext]_workspaceVars PROVE Consistent'
  OBVIOUS
<1>2. WorkspaceTypeOK
      /\ \A r \in DOMAIN runs : runs[r].workspace \in DOMAIN workspaces
  BY <1>1 DEF Consistent, ReferencesResolve
<1>3. CASE \/ \E w \in Workspaces : Create(w)
           \/ \E w \in DOMAIN workspaces, ts \in TaskSets :
                SaveEditor(w, ts) \/ DeleteTaskSet(w, ts)
  BY <1>1, <1>2, <1>3, WorkspaceOperationsTypeOK, WorkspaceOperationsReferences
  DEF Consistent
<1>4. ASSUME NEW r \in DOMAIN runs, Pin(r) \/ Unpin(r) \/ Baseline(r)
      PROVE  Consistent'
  BY <1>1, <1>2, <1>4, ComparisonTypeOK, ComparisonReferences DEF Consistent
<1>5. CASE Deletion
  <2>1. ASSUME NEW w \in DOMAIN workspaces, DeleteWorkspace(w) PROVE Consistent'
    BY <1>1, <1>2, <2>1, WorkspaceOperationsTypeOK, WorkspaceOperationsReferences
    DEF Consistent
  <2>2. ASSUME NEW r \in DOMAIN runs, DeleteComparison(r) PROVE Consistent'
    BY <1>1, <1>2, <2>2, ComparisonTypeOK, ComparisonReferences DEF Consistent
  <2>3. QED
    BY <1>5, <2>1, <2>2 DEF Deletion
<1>6. CASE Registration
  <2>1. PICK w \in DOMAIN workspaces, ts \in TaskSets,
             intent \in {"manual", "interactive"} :
          \E ks \in Selections(ts) :
            nextRun \in Runs /\ MayRun(w, ts, intent) /\ Register(w, ts, ks, intent)
    BY <1>6 DEF Registration
  <2>2. PICK ks \in Selections(ts) :
          nextRun \in Runs /\ MayRun(w, ts, intent) /\ Register(w, ts, ks, intent)
    BY <2>1
  <2>3. workspaces[w].current = ts
    BY <2>2 DEF MayRun
  <2>4. QED
    BY <1>1, <1>2, <2>2, <2>3, RegisterTypeOK, RegisterReferences DEF Consistent
<1>7. ASSUME NEW r \in ActiveRuns,
             \/ \E k \in runs[r].keys, v \in Verdicts : Answer(r, k, v)
             \/ Finish(r)
             \/ Supersede(r)
      PROVE  Consistent'
  <2>1. r \in DOMAIN runs
    BY DEF ActiveRuns
  <2>2. WorkspaceTypeOK'
    BY <1>2, <1>7, <2>1, AnswerTypeOK, FinishTypeOK
  <2>3. QED
    BY <1>1, <1>7, <2>2, RunningReferences DEF Consistent
<1>8. CASE UNCHANGED workspaceVars
  BY <1>1, <1>8
  DEF workspaceVars, Consistent, WorkspaceTypeOK, ReferencesResolve, RunsNumbered,
      Shown, Owned
<1>9. QED
  BY <1>1, <1>3, <1>4, <1>5, <1>6, <1>7, <1>8 DEF WorkspaceNext

(* The workspace store stays type correct, for any number of workspaces    *)
(* and runs: no reservation is ever overdrawn (storage.py, retain_result). *)
THEOREM WorkspaceTypes == WorkspaceSpec => []WorkspaceTypeOK
<1>1. WorkspaceSpec => []Consistent
  BY ConsistentInit, ConsistentStep, PTL DEF WorkspaceSpec
<1>2. Consistent => WorkspaceTypeOK
  BY DEF Consistent
<1>3. QED
  BY <1>1, <1>2, PTL

(* No reference dangles: the baseline, the latest comparison, the task set *)
(* of the editor and those of the runs exist in the workspace, whatever is *)
(* saved, compared, pruned or deleted in whatever order (storage.py).      *)
THEOREM References == WorkspaceSpec => []ReferencesResolve
<1>1. WorkspaceSpec => []Consistent
  BY ConsistentInit, ConsistentStep, PTL DEF WorkspaceSpec
<1>2. Consistent => ReferencesResolve
  BY DEF Consistent
<1>3. QED
  BY <1>1, <1>2, PTL

-----------------------------------------------------------------------------
(* Results                                                                 *)

(* What a run needs of the cache: what it retained and, while it runs, the *)
(* cached results it has yet to collect.                                   *)
Collects(r) == {k \in runs[r].keys \ runs[r].missing : runs[r].verdict[k] = Unanswered}

RunKept(r) ==
  /\ runs[r].retained \subseteq cache
  /\ Active(r) => Collects(r) \subseteq cache

LEMMA ResultsKeptByRun == ResultsKept <=> \A r \in DOMAIN runs : RunKept(r)
  BY DEF ResultsKept, RunKept, Collects

LEMMA EvictableSpares ==
  ASSUME NEW rs, NEW protect
  PROVE  Evictable(rs, protect) \cap protect = {}
  BY DEF Evictable

(* A run that stays as it is keeps its results when only evictable ones go.*)
LEMMA EvictionKeeps ==
  ASSUME NEW rs \in SUBSET DOMAIN runs, NEW protect, NEW r \in rs,
         NEW evicted \in SUBSET Evictable(rs, protect),
         cache' = cache \ evicted, runs'[r] = runs[r], RunKept(r)
  PROVE  RunKept(r)'
<1>1. runs[r].retained \cap evicted = {}
  BY DEF Evictable
<1>2. Active(r) => runs[r].keys \cap evicted = {}
  BY DEF Evictable, ActiveRuns
<1>3. runs'[r].retained \subseteq cache'
  BY <1>1 DEF RunKept
<1>4. ASSUME Active(r)' PROVE Collects(r)' \subseteq cache'
  <2>1. Active(r)
    BY <1>4 DEF Active
  <2>2. Collects(r)' = Collects(r)
    BY DEF Collects
  <2>3. Collects(r) \subseteq runs[r].keys
    BY DEF Collects
  <2>4. Collects(r) \subseteq cache
    BY <2>1 DEF RunKept
  <2>5. QED
    BY <1>2, <2>1, <2>2, <2>3, <2>4
<1>5. QED
  BY <1>3, <1>4 DEF RunKept

LEMMA RemovalKeeps ==
  ASSUME ResultsKept, NEW gone, RemoveRuns(gone)
  PROVE  ResultsKept'
<1>1. SUFFICES ASSUME NEW r \in DOMAIN runs' PROVE RunKept(r)'
  BY ResultsKeptByRun DEF ResultsKept, RunKept, Collects
<1>2. r \in DOMAIN runs \ gone /\ runs'[r] = runs[r]
  BY DEF RemoveRuns, Without
<1>3. cache' = cache \ Evictable(DOMAIN runs \ gone, {})
  BY DEF RemoveRuns
<1>4. RunKept(r)
  BY <1>2, ResultsKeptByRun
<1>5. QED
  BY <1>2, <1>3, <1>4, EvictionKeeps

LEMMA RegisterKeeps ==
  ASSUME Consistent, ResultsKept, NEW w, NEW ts, NEW ks, NEW intent,
         nextRun \in Runs, Register(w, ts, ks, intent)
  PROVE  ResultsKept'
<1>1. PICK gone \in SUBSET DOMAIN runs, evicted \in SUBSET cache :
        /\ evicted \subseteq Evictable(DOMAIN runs \ gone, ks)
        /\ cache' = cache \ evicted
        /\ RefusedWithout(gone) \/ AdmittedWithout(gone, w, ts, ks, intent)
  BY RegisterPrunes
<1>2. SUFFICES ASSUME NEW r \in DOMAIN runs' PROVE RunKept(r)'
  BY DEF ResultsKept, RunKept, Collects
<1>3. CASE r \in DOMAIN runs \ gone /\ runs'[r] = runs[r]
  <2>1. RunKept(r)
    BY <1>3, ResultsKeptByRun
  <2>2. QED
    BY <1>1, <1>3, <2>1, EvictionKeeps
<1>4. CASE r = nextRun /\ runs'[r] = NewRun(w, ts, ks, intent)
  <2>1. evicted \cap ks = {}
    BY <1>1, EvictableSpares
  <2>2. runs'[r].retained = {} /\ runs'[r].keys = ks /\ runs'[r].missing = ks \ cache
    BY <1>4 DEF NewRun
  <2>3. QED
    BY <1>1, <2>1, <2>2 DEF RunKept, Collects
<1>5. \/ r \in DOMAIN runs \ gone /\ runs'[r] = runs[r]
      \/ r = nextRun /\ runs'[r] = NewRun(w, ts, ks, intent)
  BY <1>1 DEF RefusedWithout, AdmittedWithout, Without
<1>6. QED
  BY <1>3, <1>4, <1>5

LEMMA AnswerKeeps ==
  ASSUME Consistent, ResultsKept, NEW r \in ActiveRuns, NEW k \in runs[r].keys,
         NEW v \in Verdicts, Answer(r, k, v)
  PROVE  ResultsKept'
<1>1. r \in DOMAIN runs /\ runs[r] \in RunRecord
  BY DEF ActiveRuns, Consistent, WorkspaceTypeOK
<1>2. k \in Keys /\ v # Unanswered
  BY <1>1, WorkspaceAssumption DEF RunRecord
<1> DEFINE answered == [runs[r] EXCEPT !.verdict = [@ EXCEPT ![k] = v]]
           kept == [runs[r] EXCEPT !.verdict = [@ EXCEPT ![k] = v],
                                   !.retained = @ \cup {k},
                                   !.reservation = @ - ChargedBytes(k)]
<1>3. \/ runs' = [runs EXCEPT ![r] = answered] /\ cache' = cache
      \/ runs' = [runs EXCEPT ![r] = kept] /\ cache' = cache \cup {k}
  <2>1. CASE v = "succeeded"
    BY <2>1 DEF Answer
  <2>2. CASE v # "succeeded"
    BY <2>2 DEF Answer
  <2>3. QED
    BY <2>1, <2>2
<1>4. /\ answered.keys = runs[r].keys /\ answered.missing = runs[r].missing
      /\ answered.retained = runs[r].retained /\ answered.over = runs[r].over
      /\ \A q \in Keys : answered.verdict[q] = Unanswered => runs[r].verdict[q] = Unanswered
  BY <1>1, <1>2 DEF RunRecord
<1>5. /\ kept.keys = runs[r].keys /\ kept.missing = runs[r].missing
      /\ kept.retained = runs[r].retained \cup {k} /\ kept.over = runs[r].over
      /\ \A q \in Keys : kept.verdict[q] = Unanswered => runs[r].verdict[q] = Unanswered
  BY <1>1, <1>2 DEF RunRecord
<1> HIDE DEF answered, kept
<1>6. SUFFICES ASSUME NEW q \in DOMAIN runs' PROVE RunKept(q)'
  BY DEF ResultsKept, RunKept, Collects
<1>7. q \in DOMAIN runs /\ RunKept(q)
  BY <1>1, <1>3, ResultsKeptByRun
<1>8. CASE q # r
  BY <1>3, <1>7, <1>8 DEF RunKept, Collects, Active
<1>9. CASE q = r
  <2>1. runs[r].keys \subseteq Keys
    BY <1>1 DEF RunRecord
  <2>2. /\ runs'[r].keys = runs[r].keys /\ runs'[r].missing = runs[r].missing
        /\ runs'[r].over = runs[r].over
        /\ \A x \in Keys : runs'[r].verdict[x] = Unanswered => runs[r].verdict[x] = Unanswered
        /\ runs'[r].retained \subseteq cache' /\ cache \subseteq cache'
    BY <1>1, <1>3, <1>4, <1>5, <1>7, <1>9 DEF RunKept
  <2>3. QED
    BY <1>7, <1>9, <2>1, <2>2 DEF RunKept, Collects, Active
<1>10. QED
  BY <1>8, <1>9

(* Whatever else happens leaves the cache and what runs need of it alone.  *)
LEMMA OtherStepsKeep ==
  ASSUME ResultsKept, Consistent,
         \/ UNCHANGED <<runs, cache>>
         \/ \E r \in DOMAIN runs : Pin(r) \/ Unpin(r) \/ Finish(r) \/ Supersede(r)
  PROVE  ResultsKept'
<1>1. CASE UNCHANGED <<runs, cache>>
  BY <1>1 DEF ResultsKept, Active
<1>2. ASSUME NEW r \in DOMAIN runs, Pin(r) \/ Unpin(r) \/ Finish(r) \/ Supersede(r)
      PROVE  ResultsKept'
  <2>1. runs[r] \in RunRecord
    BY DEF Consistent, WorkspaceTypeOK
  <2>2. PICK new :
          /\ runs' = [runs EXCEPT ![r] = new]
          /\ new.keys = runs[r].keys /\ new.missing = runs[r].missing
          /\ new.retained = runs[r].retained /\ new.verdict = runs[r].verdict
          /\ new.over \in {runs[r].over, TRUE}
    <3>1. CASE Pin(r)
      <4> WITNESS [runs[r] EXCEPT !.pinned = TRUE]
      <4>1. QED
        BY <2>1, <3>1 DEF Pin, RunRecord
    <3>2. CASE Unpin(r)
      <4> WITNESS [runs[r] EXCEPT !.pinned = FALSE]
      <4>1. QED
        BY <2>1, <3>2 DEF Unpin, RunRecord
    <3>3. CASE Finish(r)
      <4> WITNESS [runs[r] EXCEPT !.over = TRUE, !.reservation = 0]
      <4>1. QED
        BY <2>1, <3>3 DEF Finish, RunRecord
    <3>4. CASE Supersede(r)
      <4> WITNESS [runs[r] EXCEPT !.superseded = TRUE]
      <4>1. QED
        BY <2>1, <3>4 DEF Supersede, RunRecord
    <3>5. QED
      BY <1>2, <3>1, <3>2, <3>3, <3>4
  <2>3. cache' = cache
    BY <1>2 DEF Pin, Unpin, Finish, Supersede
  <2>4. QED
    BY <2>2, <2>3 DEF ResultsKept, Active
<1>3. QED
  BY <1>1, <1>2

LEMMA ResultsStep ==
  Consistent /\ ResultsKept /\ [WorkspaceNext]_workspaceVars => ResultsKept'
<1>1. SUFFICES ASSUME Consistent, ResultsKept, [WorkspaceNext]_workspaceVars
               PROVE  ResultsKept'
  OBVIOUS
<1>2. CASE \/ \E w \in Workspaces : Create(w)
           \/ \E w \in DOMAIN workspaces, ts \in TaskSets :
                SaveEditor(w, ts) \/ DeleteTaskSet(w, ts)
           \/ \E r \in DOMAIN runs : Baseline(r)
           \/ UNCHANGED workspaceVars
  <2>1. UNCHANGED <<runs, cache>>
    BY <1>2 DEF Create, SaveEditor, DeleteTaskSet, Baseline, workspaceVars
  <2>2. QED
    BY <1>1, <2>1, OtherStepsKeep
<1>3. CASE \E r \in DOMAIN runs : Pin(r) \/ Unpin(r)
  BY <1>1, <1>3, OtherStepsKeep
<1>4. CASE Deletion
  <2>1. \E gone : RemoveRuns(gone)
    BY <1>4 DEF Deletion, DeleteWorkspace, DeleteComparison
  <2>2. QED
    BY <1>1, <2>1, RemovalKeeps
<1>5. CASE Registration
  BY <1>1, <1>5, RegisterKeeps DEF Registration
<1>6. ASSUME NEW r \in ActiveRuns, NEW k \in runs[r].keys, NEW v \in Verdicts,
             Answer(r, k, v)
      PROVE  ResultsKept'
  BY <1>1, <1>6, AnswerKeeps
<1>7. ASSUME NEW r \in ActiveRuns, Finish(r) \/ Supersede(r)
      PROVE  ResultsKept'
  <2>1. r \in DOMAIN runs
    BY DEF ActiveRuns
  <2>2. QED
    BY <1>1, <1>7, <2>1, OtherStepsKeep
<1>8. QED
  BY <1>1, <1>2, <1>3, <1>4, <1>5, <1>6, <1>7 DEF WorkspaceNext

(* No eviction takes a result away from a comparison that shows it, nor a  *)
(* cached result from the running run that counts on it (prune_cache and   *)
(* its callers in storage.py), for any number of runs that share results.  *)
THEOREM Results == WorkspaceSpec => []ResultsKept
<1>1. WorkspaceInit => Consistent /\ ResultsKept
  BY ConsistentInit DEF WorkspaceInit, ResultsKept
<1>2. (Consistent /\ ResultsKept) /\ [WorkspaceNext]_workspaceVars
        => (Consistent /\ ResultsKept)'
  BY ConsistentStep, ResultsStep
<1>3. Consistent /\ ResultsKept => ResultsKept
  OBVIOUS
<1>4. QED
  BY <1>1, <1>2, <1>3, PTL DEF WorkspaceSpec

LEMMA StepSpares ==
  ASSUME [WorkspaceNext]_workspaceVars
  PROVE  [\/ \A r \in DOMAIN runs \ DOMAIN runs' : ~Active(r) /\ ~Protected(r)
          \/ Deletion]_workspaceVars
<1>1. CASE Registration
  <2>0. PICK w \in DOMAIN workspaces, ts \in TaskSets,
             intent \in {"manual", "interactive"} :
          \E ks \in Selections(ts) : Register(w, ts, ks, intent)
    BY <1>1 DEF Registration
  <2>1. PICK ks \in Selections(ts) : Register(w, ts, ks, intent)
    BY <2>0
  <2>2. PICK gone \in SUBSET DOMAIN runs :
          /\ \A r \in gone : r \notin ActiveRuns /\ ~Protected(r)
          /\ RefusedWithout(gone) \/ AdmittedWithout(gone, w, ts, ks, intent)
    BY <2>1, RegisterPrunes
  <2>3. DOMAIN runs \ DOMAIN runs' \subseteq gone
    BY <2>2 DEF RefusedWithout, AdmittedWithout, Without
  <2>4. QED
    BY <2>2, <2>3 DEF ActiveRuns
<1>2. CASE Deletion
  BY <1>2
<1>3. CASE UNCHANGED workspaceVars
  BY <1>3
<1>4. ASSUME WorkspaceNext, ~Registration, ~Deletion
      PROVE  DOMAIN runs' = DOMAIN runs
  <2>1. ASSUME NEW r, NEW k, NEW v, Answer(r, k, v)
        PROVE  DOMAIN runs' = DOMAIN runs
    <3>1. CASE v = "succeeded"
      BY <2>1, <3>1 DEF Answer
    <3>2. CASE v # "succeeded"
      BY <2>1, <3>2 DEF Answer
    <3>3. QED
      BY <3>1, <3>2
  <2>2. ASSUME NEW r, Finish(r) PROVE DOMAIN runs' = DOMAIN runs
    BY <2>2 DEF Finish
  <2>3. ASSUME NEW r, Pin(r) \/ Unpin(r) \/ Baseline(r) \/ Supersede(r)
        PROVE  DOMAIN runs' = DOMAIN runs
    BY <2>3 DEF Pin, Unpin, Baseline, Supersede
  <2>4. ASSUME NEW w, NEW ts, Create(w) \/ SaveEditor(w, ts) \/ DeleteTaskSet(w, ts)
        PROVE  DOMAIN runs' = DOMAIN runs
    BY <2>4 DEF Create, SaveEditor, DeleteTaskSet
  <2>5. QED
    BY <1>4, <2>1, <2>2, <2>3, <2>4 DEF WorkspaceNext
<1>5. QED
  BY <1>1, <1>2, <1>3, <1>4

(* A run leaves the store only if it is over and not protected, or because *)
(* a request deletes it: making room for another run spares what is        *)
(* running, pinned or shown (prune_history, prune_for_capacity).           *)
THEOREM Eviction == WorkspaceSpec => EvictionSpares
  BY StepSpares, PTL DEF WorkspaceSpec, EvictionSpares

-----------------------------------------------------------------------------
(* The budget.  Sums over the cache and over the runs are sums of          *)
(* functions, to which the laws of finite sums apply.                      *)

Sizes == [k \in Keys |-> Size(k)]
Reservations(rs) == [r \in DOMAIN rs |-> rs[r].reservation]
ReservedIn(rs, S) == MapThenSumSet(LAMBDA r : rs[r].reservation, S)

LEMMA BytesIsSum ==
  ASSUME NEW keys \in SUBSET Keys, IsFiniteSet(keys)
  PROVE  Bytes(keys) = SumOf(Sizes, keys)
<1> DEFINE IsBytes(g) ==
             g = [T \in SUBSET keys |->
                    IF T = {} THEN 0
                    ELSE Size(FirstOf(T)) + g[T \ {FirstOf(T)}]]
           bytes == CHOOSE g : IsBytes(g)
<1>1. Bytes(keys) = bytes[keys]
  BY DEF Bytes, MapThenSumSet, MapThenFoldSet, FirstOf
<1>2. \A T \in SUBSET keys : T # {} => Sizes[FirstOf(T)] = Size(FirstOf(T))
  BY FirstProperties DEF Sizes
<1>3. \A g : IsBytes(g) <=> IsSum(g, Sizes, keys)
  BY <1>2 DEF IsSum
<1>4. PICK h : IsSum(h, Sizes, keys) /\ SumOf(Sizes, keys) = h[keys]
  BY SumIsFold
<1> HIDE DEF IsBytes
<1>5. IsSum(bytes, Sizes, keys)
  BY <1>3, <1>4
<1>6. QED
  BY <1>1, <1>4, <1>5, SumUnique

LEMMA ReservedIsSum ==
  ASSUME NEW rs, NEW S \in SUBSET DOMAIN rs, IsFiniteSet(S)
  PROVE  ReservedIn(rs, S) = SumOf(Reservations(rs), S)
<1> DEFINE IsReserved(g) ==
             g = [T \in SUBSET S |->
                    IF T = {} THEN 0
                    ELSE rs[FirstOf(T)].reservation + g[T \ {FirstOf(T)}]]
           total == CHOOSE g : IsReserved(g)
<1>1. ReservedIn(rs, S) = total[S]
  BY DEF ReservedIn, MapThenSumSet, MapThenFoldSet, FirstOf
<1>2. \A T \in SUBSET S :
        T # {} => Reservations(rs)[FirstOf(T)] = rs[FirstOf(T)].reservation
  BY FirstProperties DEF Reservations
<1>3. \A g : IsReserved(g) <=> IsSum(g, Reservations(rs), S)
  BY <1>2 DEF IsSum
<1>4. PICK h : IsSum(h, Reservations(rs), S) /\ SumOf(Reservations(rs), S) = h[S]
  BY SumIsFold
<1> HIDE DEF IsReserved
<1>5. IsSum(total, Reservations(rs), S)
  BY <1>3, <1>4
<1>6. QED
  BY <1>1, <1>4, <1>5, SumUnique

LEMMA BytesLaws ==
  ASSUME NEW keys \in SUBSET Keys, IsFiniteSet(keys)
  PROVE  /\ Bytes(keys) \in Nat
         /\ \A part \in SUBSET keys : Bytes(part) \in Nat /\ Bytes(part) <= Bytes(keys)
         /\ \A k \in Keys \ keys : /\ Bytes(keys \cup {k}) = Bytes(keys) + Size(k)
                                   /\ Size(k) \in Nat
<1>1. \A k \in Keys : Sizes[k] = Size(k) /\ Size(k) \in Nat
  BY WorkspaceAssumption DEF Sizes, Size, Keys
<1>2. Bytes(keys) = SumOf(Sizes, keys) /\ SumOf(Sizes, keys) \in Nat
  BY <1>1, BytesIsSum, SumType
<1>3. ASSUME NEW part \in SUBSET keys
      PROVE  Bytes(part) \in Nat /\ Bytes(part) <= Bytes(keys)
  <2>1. IsFiniteSet(part)
    BY FS_Subset
  <2>2. Bytes(part) = SumOf(Sizes, part) /\ SumOf(Sizes, part) \in Nat
    BY <1>1, <2>1, BytesIsSum, SumType
  <2>3. SumOf(Sizes, part) <= SumOf(Sizes, keys)
    BY <1>1, SumSubset
  <2>4. QED
    BY <1>2, <2>2, <2>3
<1>4. ASSUME NEW k \in Keys \ keys
      PROVE  Bytes(keys \cup {k}) = Bytes(keys) + Size(k) /\ Size(k) \in Nat
  <2>1. IsFiniteSet(keys \cup {k}) /\ keys \cup {k} \in SUBSET Keys
    BY FS_AddElement
  <2>2. Bytes(keys \cup {k}) = SumOf(Sizes, keys \cup {k})
    BY <2>1, BytesIsSum
  <2>3. \A q \in keys \cup {k} : Sizes[q] \in Nat
    BY <1>1, <2>1
  <2>4. k \notin keys
    OBVIOUS
  <2> HIDE DEF Sizes
  <2>5. SumOf(Sizes, keys \cup {k}) = SumOf(Sizes, keys) + Sizes[k]
    BY <2>3, <2>4, SumAdd
  <2>6. QED
    BY <1>1, <1>2, <2>2, <2>5
<1>5. QED
  BY <1>2, <1>3, <1>4

(* Records of runs whose reservations are counted.                         *)
Counted(rs) == IsFiniteSet(DOMAIN rs) /\ \A r \in DOMAIN rs : rs[r].reservation \in Nat

LEMMA RunsCounted ==
  ASSUME NEW rs, DOMAIN rs \subseteq Runs,
         \A r \in DOMAIN rs : rs[r].reservation \in Nat
  PROVE  Counted(rs)
<1>1. IsFiniteSet(Runs)
  BY FS_Interval, WorkspaceAssumption DEF Runs
<1>2. QED
  BY <1>1, FS_Subset DEF Counted

LEMMA ReservedType ==
  ASSUME NEW rs, Counted(rs), NEW S \in SUBSET DOMAIN rs
  PROVE  /\ IsFiniteSet(S) /\ ReservedIn(rs, S) \in Nat
         /\ ReservedIn(rs, S) <= ReservedIn(rs, DOMAIN rs)
<1>1. IsFiniteSet(S) /\ IsFiniteSet(DOMAIN rs)
  BY FS_Subset DEF Counted
<1>2. \A r \in DOMAIN rs : Reservations(rs)[r] \in Nat
  BY DEF Reservations, Counted
<1>3. /\ ReservedIn(rs, S) = SumOf(Reservations(rs), S)
      /\ ReservedIn(rs, DOMAIN rs) = SumOf(Reservations(rs), DOMAIN rs)
  BY <1>1, ReservedIsSum
<1>4. SumOf(Reservations(rs), S) \in Nat
  BY <1>1, <1>2, SumType
<1>5. SumOf(Reservations(rs), S) <= SumOf(Reservations(rs), DOMAIN rs)
  BY <1>1, <1>2, SumSubset
<1>6. QED
  BY <1>1, <1>3, <1>4, <1>5

LEMMA ReservedEqual ==
  ASSUME NEW rs, NEW new, Counted(rs), NEW S \in SUBSET DOMAIN rs,
         S \subseteq DOMAIN new,
         \A r \in S : new[r].reservation = rs[r].reservation
  PROVE  ReservedIn(new, S) = ReservedIn(rs, S)
<1>1. IsFiniteSet(S)
  BY FS_Subset DEF Counted
<1>2. /\ ReservedIn(rs, S) = SumOf(Reservations(rs), S)
      /\ ReservedIn(new, S) = SumOf(Reservations(new), S)
  BY <1>1, ReservedIsSum
<1>3. \A r \in S : Reservations(new)[r] = Reservations(rs)[r]
  BY DEF Reservations
<1>4. QED
  BY <1>1, <1>2, <1>3, SumEqual

LEMMA ReservedChanged ==
  ASSUME NEW rs, NEW new, Counted(rs), Counted(new), DOMAIN new = DOMAIN rs,
         NEW r \in DOMAIN rs,
         \A q \in DOMAIN rs \ {r} : new[q].reservation = rs[q].reservation
  PROVE  ReservedIn(new, DOMAIN new) =
           ReservedIn(rs, DOMAIN rs) + new[r].reservation - rs[r].reservation
<1>1. IsFiniteSet(DOMAIN rs)
  BY DEF Counted
<1>2. /\ ReservedIn(rs, DOMAIN rs) = SumOf(Reservations(rs), DOMAIN rs)
      /\ ReservedIn(new, DOMAIN rs) = SumOf(Reservations(new), DOMAIN rs)
  BY <1>1, ReservedIsSum
<1>3. /\ \A q \in DOMAIN rs : /\ Reservations(rs)[q] = rs[q].reservation
                              /\ Reservations(new)[q] = new[q].reservation
                              /\ Reservations(rs)[q] \in Nat
                              /\ Reservations(new)[q] \in Nat
  BY DEF Reservations, Counted
<1>4. \A q \in DOMAIN rs \ {r} : Reservations(new)[q] = Reservations(rs)[q]
  BY <1>3
<1>5. SumOf(Reservations(new), DOMAIN rs) =
        SumOf(Reservations(rs), DOMAIN rs)
          + Reservations(new)[r] - Reservations(rs)[r]
  BY <1>1, <1>3, <1>4, SumChange
<1>6. QED
  BY <1>2, <1>3, <1>5

LEMMA ReservedAdded ==
  ASSUME NEW rs, Counted(rs), NEW r \in DOMAIN rs
  PROVE  ReservedIn(rs, DOMAIN rs) =
           ReservedIn(rs, DOMAIN rs \ {r}) + rs[r].reservation
<1>1. IsFiniteSet(DOMAIN rs) /\ IsFiniteSet(DOMAIN rs \ {r})
  BY FS_Subset DEF Counted
<1>2. /\ ReservedIn(rs, DOMAIN rs) = SumOf(Reservations(rs), DOMAIN rs)
      /\ ReservedIn(rs, DOMAIN rs \ {r}) = SumOf(Reservations(rs), DOMAIN rs \ {r})
  BY <1>1, ReservedIsSum
<1>3. \A q \in DOMAIN rs : Reservations(rs)[q] = rs[q].reservation
                           /\ Reservations(rs)[q] \in Nat
  BY DEF Reservations, Counted
<1>4. SumOf(Reservations(rs), DOMAIN rs) =
        Reservations(rs)[r] + SumOf(Reservations(rs), DOMAIN rs \ {r})
  BY <1>1, <1>3, SumRemove
<1>5. SumOf(Reservations(rs), DOMAIN rs \ {r}) \in Nat
  BY <1>1, <1>3, SumType
<1>6. QED
  BY <1>2, <1>3, <1>4, <1>5

(* The cache is finite, so that its bytes are a number.                    *)
Budgeted == Consistent /\ IsFiniteSet(cache) /\ WithinBudget

LEMMA UsedIsSum ==
  Used(cache, DOMAIN runs) = Bytes(cache) + ReservedIn(runs, DOMAIN runs)
  BY DEF Used, Reserved, ReservedIn

LEMMA BudgetAsSums ==
  ASSUME Consistent, IsFiniteSet(cache)
  PROVE  /\ WithinBudget <=>
              Bytes(cache) + ReservedIn(runs, DOMAIN runs) <= MaxResultBytes
         /\ Bytes(cache) \in Nat /\ cache \in SUBSET Keys
         /\ Counted(runs) /\ ReservedIn(runs, DOMAIN runs) \in Nat
         /\ MaxResultBytes \in Nat
<1>1. cache \in SUBSET Keys /\ Counted(runs) /\ MaxResultBytes \in Nat
  BY RunsCounted, WorkspaceAssumption
  DEF Consistent, WorkspaceTypeOK, RunRecord
<1>2. Bytes(cache) \in Nat /\ ReservedIn(runs, DOMAIN runs) \in Nat
  BY <1>1, BytesLaws, ReservedType
<1>3. QED
  BY <1>1, <1>2, UsedIsSum DEF WithinBudget

LEMMA BudgetOfSums ==
  ASSUME Consistent', IsFiniteSet(cache'),
         Bytes(cache') + ReservedIn(runs', DOMAIN runs') <= MaxResultBytes
  PROVE  Budgeted'
<1>1. (Used(cache, DOMAIN runs) = Bytes(cache) + ReservedIn(runs, DOMAIN runs))'
  BY UsedIsSum, PTL
<1>2. QED
  BY <1>1 DEF WithinBudget, Budgeted

(* Results and runs that go only give memory back.                         *)
LEMMA BudgetShrinks ==
  ASSUME Budgeted, Consistent', cache' \subseteq cache,
         DOMAIN runs' \subseteq DOMAIN runs,
         \A r \in DOMAIN runs' : runs'[r].reservation = runs[r].reservation
  PROVE  Budgeted'
<1>1. /\ Bytes(cache) + ReservedIn(runs, DOMAIN runs) <= MaxResultBytes
      /\ Bytes(cache) \in Nat /\ cache \in SUBSET Keys
      /\ Counted(runs) /\ ReservedIn(runs, DOMAIN runs) \in Nat
      /\ MaxResultBytes \in Nat /\ IsFiniteSet(cache)
  BY BudgetAsSums DEF Budgeted
<1>2. IsFiniteSet(cache') /\ Bytes(cache') \in Nat /\ Bytes(cache') <= Bytes(cache)
  BY <1>1, BytesLaws, FS_Subset
<1>3. ReservedIn(runs', DOMAIN runs') = ReservedIn(runs, DOMAIN runs')
  BY <1>1, ReservedEqual
<1>4. /\ ReservedIn(runs, DOMAIN runs') \in Nat
      /\ ReservedIn(runs, DOMAIN runs') <= ReservedIn(runs, DOMAIN runs)
  BY <1>1, ReservedType
<1>5. QED
  BY <1>1, <1>2, <1>3, <1>4, BudgetOfSums

(* A result that was not cached moves from the reservation to the cache.   *)
LEMMA AnswerBudget ==
  ASSUME Budgeted, Consistent', NEW r \in ActiveRuns, NEW k \in runs[r].keys,
         NEW v \in Verdicts, Answer(r, k, v)
  PROVE  Budgeted'
<1>1. /\ Bytes(cache) + ReservedIn(runs, DOMAIN runs) <= MaxResultBytes
      /\ Bytes(cache) \in Nat /\ cache \in SUBSET Keys
      /\ Counted(runs) /\ ReservedIn(runs, DOMAIN runs) \in Nat
      /\ MaxResultBytes \in Nat /\ IsFiniteSet(cache)
  BY BudgetAsSums DEF Budgeted
<1>2. r \in DOMAIN runs /\ runs[r] \in RunRecord /\ k \in Keys
  BY DEF ActiveRuns, Budgeted, Consistent, WorkspaceTypeOK, RunRecord
<1>3. CASE v = "succeeded" /\ k \notin cache
  <2>1. /\ cache' = cache \cup {k}
        /\ runs' = [runs EXCEPT ![r].verdict[k] = v,
                                ![r].retained = @ \cup {k},
                                ![r].reservation = @ - Size(k)]
    BY <1>3 DEF Answer, ChargedBytes
  <2>2. DOMAIN runs' = DOMAIN runs
    BY <2>1
  <2>3. \A q \in DOMAIN runs \ {r} : runs'[q].reservation = runs[q].reservation
    BY <2>1
  <2>4. runs'[r].reservation = runs[r].reservation - Size(k)
    BY <1>2, <2>1 DEF RunRecord
  <2>5. Counted(runs')
    BY RunsCounted DEF Consistent, WorkspaceTypeOK, RunRecord
  <2>6. /\ Bytes(cache') = Bytes(cache) + Size(k)
        /\ Size(k) \in Nat /\ IsFiniteSet(cache')
    BY <1>1, <1>2, <1>3, <2>1, BytesLaws, FS_AddElement
  <2>7. runs[r].reservation \in Nat
    BY <1>2 DEF RunRecord
  <2>8. ReservedIn(runs', DOMAIN runs') =
          ReservedIn(runs, DOMAIN runs) + runs'[r].reservation - runs[r].reservation
    BY <1>1, <1>2, <2>2, <2>3, <2>5, ReservedChanged
  <2>9. QED
    BY <1>1, <2>4, <2>6, <2>7, <2>8, BudgetOfSums
<1>4. CASE v = "succeeded" /\ k \in cache
  <2>1. /\ cache' = cache
        /\ runs' = [runs EXCEPT ![r].verdict[k] = v,
                                ![r].retained = @ \cup {k},
                                ![r].reservation = @ - 0]
    BY <1>4 DEF Answer, ChargedBytes
  <2>2. /\ DOMAIN runs' = DOMAIN runs
        /\ \A q \in DOMAIN runs : runs'[q].reservation = runs[q].reservation
    BY <1>1, <1>2, <2>1 DEF RunRecord, Counted
  <2>3. QED
    BY <2>1, <2>2, BudgetShrinks
<1>5. CASE v # "succeeded"
  <2>1. cache' = cache /\ runs' = [runs EXCEPT ![r].verdict[k] = v]
    BY <1>5 DEF Answer
  <2>2. /\ DOMAIN runs' = DOMAIN runs
        /\ \A q \in DOMAIN runs : runs'[q].reservation = runs[q].reservation
    BY <1>2, <2>1 DEF RunRecord
  <2>3. QED
    BY <2>1, <2>2, BudgetShrinks
<1>6. QED
  BY <1>3, <1>4, <1>5

(* A run that is over returns what it did not use.                         *)
LEMMA FinishBudget ==
  ASSUME Budgeted, Consistent', NEW r \in DOMAIN runs, Finish(r)
  PROVE  Budgeted'
<1>1. /\ Bytes(cache) + ReservedIn(runs, DOMAIN runs) <= MaxResultBytes
      /\ Bytes(cache) \in Nat /\ Counted(runs)
      /\ ReservedIn(runs, DOMAIN runs) \in Nat
      /\ MaxResultBytes \in Nat /\ IsFiniteSet(cache)
  BY BudgetAsSums DEF Budgeted
<1>2. /\ cache' = cache
      /\ runs' = [runs EXCEPT ![r].over = TRUE, ![r].reservation = 0]
      /\ runs[r] \in RunRecord
  BY DEF Finish, Budgeted, Consistent, WorkspaceTypeOK
<1>3. /\ DOMAIN runs' = DOMAIN runs /\ runs'[r].reservation = 0
      /\ \A q \in DOMAIN runs \ {r} : runs'[q].reservation = runs[q].reservation
      /\ runs[r].reservation \in Nat
  BY <1>2 DEF RunRecord
<1>4. Counted(runs')
  BY <1>1, <1>3 DEF Counted
<1>5. ReservedIn(runs', DOMAIN runs') =
        ReservedIn(runs, DOMAIN runs) + runs'[r].reservation - runs[r].reservation
  BY <1>1, <1>3, <1>4, ReservedChanged
<1>6. QED
  BY <1>1, <1>2, <1>3, <1>5, BudgetOfSums

(* An admitted run's reservation fits beside the cache and all the runs    *)
(* there were before the last ones went.                                   *)
AdmittedBeside(left, kept, w, ts, ks, intent) ==
  /\ kept \subseteq left /\ cache' \subseteq cache
  /\ Used(cache', left) + Reservation(ks \ cache) <= MaxResultBytes
  /\ runs' = [r \in kept \cup {nextRun} |->
                IF r = nextRun THEN NewRun(w, ts, ks, intent) ELSE runs[r]]

LEMMA RegisterFits ==
  ASSUME NEW w, NEW ts, NEW ks, NEW intent, Register(w, ts, ks, intent)
  PROVE  \/ cache' \subseteq cache /\ \E gone : runs' = Without(runs, gone)
         \/ \E left \in SUBSET DOMAIN runs, kept \in SUBSET DOMAIN runs :
              AdmittedBeside(left, kept, w, ts, ks, intent)
<1> DEFINE left == DOMAIN runs \ Surplus(w)
<1>1. CASE Cardinality(Owned(w) \cap left) >= MaxRetainedRuns
  BY <1>1 DEF Register
<1>2. CASE ~(Cardinality(Owned(w) \cap left) >= MaxRetainedRuns)
  <2>1. PICK n \in 0..Cardinality(Disposable(left)), evicted \in SUBSET cache :
          /\ cache' = cache \ evicted
          /\ \/ runs' = Without(runs, DOMAIN runs \ (left \ Oldest(n, Disposable(left))))
             \/ /\ Used(cache \ evicted, left) + Reservation(ks \ cache)
                     <= MaxResultBytes
                /\ runs' = [r \in (left \ Oldest(n, Disposable(left))) \cup {nextRun} |->
                              IF r = nextRun THEN NewRun(w, ts, ks, intent)
                              ELSE runs[r]]
    BY <1>2 DEF Register
  <2>2. /\ left \in SUBSET DOMAIN runs
        /\ left \ Oldest(n, Disposable(left)) \in SUBSET DOMAIN runs
        /\ left \ Oldest(n, Disposable(left)) \subseteq left
    OBVIOUS
  <2> DEFINE kept == left \ Oldest(n, Disposable(left))
  <2>3. AdmittedBeside(left, kept, w, ts, ks, intent)
          \/ runs' = Without(runs, DOMAIN runs \ kept)
    BY <2>1 DEF AdmittedBeside
  <2>4. cache' \subseteq cache
    BY <2>1
  <2> HIDE DEF left, kept
  <2>5. QED
    BY <2>2, <2>3, <2>4 DEF kept
<1>3. QED
  BY <1>1, <1>2

LEMMA RegisterBudget ==
  ASSUME Budgeted, Consistent', NEW w, NEW ts \in TaskSets,
         NEW ks \in Selections(ts), NEW intent, Register(w, ts, ks, intent)
  PROVE  Budgeted'
<1>1. CASE cache' \subseteq cache /\ \E gone : runs' = Without(runs, gone)
  BY <1>1, BudgetShrinks DEF Without
<1>2. CASE \E left \in SUBSET DOMAIN runs, kept \in SUBSET DOMAIN runs :
             AdmittedBeside(left, kept, w, ts, ks, intent)
  <2>1. PICK left \in SUBSET DOMAIN runs, kept \in SUBSET DOMAIN runs :
          /\ kept \subseteq left
          /\ cache' \subseteq cache
          /\ Used(cache', left) + Reservation(ks \ cache) <= MaxResultBytes
          /\ runs' = [r \in kept \cup {nextRun} |->
                        IF r = nextRun THEN NewRun(w, ts, ks, intent)
                        ELSE runs[r]]
    BY <1>2 DEF AdmittedBeside
  <2> DEFINE need == Reservation(ks \ cache)
  <2>2. need \in Nat
    BY SelectionsFinite, FS_Subset, ReservationIsNat
  <2>3. /\ cache \in SUBSET Keys /\ IsFiniteSet(cache) /\ Counted(runs)
        /\ MaxResultBytes \in Nat
    BY BudgetAsSums DEF Budgeted
  <2>4. cache' \in SUBSET cache /\ IsFiniteSet(cache') /\ Bytes(cache') \in Nat
    BY <2>1, <2>3, BytesLaws, FS_Subset
  <2>5. Counted(runs')
    BY RunsCounted DEF Consistent, WorkspaceTypeOK, RunRecord
  <2>6. nextRun \notin DOMAIN runs
    BY DEF Budgeted, Consistent, RunsNumbered, WorkspaceTypeOK, Runs
  <2>7. /\ DOMAIN runs' = kept \cup {nextRun}
        /\ DOMAIN runs' \ {nextRun} = kept
        /\ \A r \in kept : runs'[r].reservation = runs[r].reservation
        /\ runs'[nextRun].reservation = need
    BY <2>1, <2>6 DEF NewRun
  <2>8. ReservedIn(runs', DOMAIN runs') = ReservedIn(runs', kept) + need
    BY <2>5, <2>7, ReservedAdded
  <2>9. ReservedIn(runs', kept) = ReservedIn(runs, kept)
    BY <2>3, <2>7, ReservedEqual
  <2>10. /\ ReservedIn(runs, kept) \in Nat /\ ReservedIn(runs, left) \in Nat
         /\ ReservedIn(runs, kept) <= ReservedIn(runs, left)
    <3> DEFINE part == [r \in left |-> runs[r]]
    <3>1. Counted(part) /\ DOMAIN part = left /\ kept \in SUBSET DOMAIN part
      BY <2>1, <2>3, FS_Subset DEF Counted
    <3>2. /\ \A r \in left : part[r].reservation = runs[r].reservation
          /\ \A r \in kept : part[r].reservation = runs[r].reservation
      BY <2>1
    <3>3. left \in SUBSET DOMAIN runs /\ kept \in SUBSET DOMAIN runs
      BY <2>1
    <3> HIDE DEF part
    <3>4. /\ ReservedIn(part, left) = ReservedIn(runs, left)
          /\ ReservedIn(part, kept) = ReservedIn(runs, kept)
      BY <2>3, <3>1, <3>2, <3>3, ReservedEqual
    <3>5. /\ ReservedIn(part, kept) \in Nat /\ ReservedIn(part, left) \in Nat
          /\ ReservedIn(part, kept) <= ReservedIn(part, left)
      <4>1. left \in SUBSET DOMAIN part
        BY <3>1
      <4>2. QED
        BY <3>1, <4>1, ReservedType
    <3>6. QED
      BY <3>4, <3>5
  <2>11. Used(cache', left) = Bytes(cache') + ReservedIn(runs, left)
    BY DEF Used, Reserved, ReservedIn
  <2>12. Bytes(cache') + ReservedIn(runs', DOMAIN runs') <= MaxResultBytes
    <3> HIDE DEF need
    <3>1. Used(cache', left) + need <= MaxResultBytes
      BY <2>1 DEF need
    <3>2. QED
      BY <2>2, <2>3, <2>4, <2>8, <2>9, <2>10, <2>11, <3>1
  <2>13. QED
    BY <2>4, <2>12, BudgetOfSums
<1>3. QED
  BY <1>1, <1>2, RegisterFits

LEMMA BudgetInit == WorkspaceInit => Budgeted
<1> SUFFICES ASSUME WorkspaceInit  PROVE Budgeted
  OBVIOUS
<1>1. cache = {} /\ DOMAIN runs = {} /\ IsFiniteSet({})
  BY FS_EmptySet DEF WorkspaceInit
<1>2. Bytes({}) = 0
  BY <1>1, BytesIsSum, SumEquation
<1>3. ReservedIn(runs, {}) = 0
  <2>1. {} \in SUBSET DOMAIN runs
    OBVIOUS
  <2>2. ReservedIn(runs, {}) = SumOf(Reservations(runs), {})
    BY <1>1, <2>1, ReservedIsSum
  <2>3. QED
    BY <1>1, <2>2, SumEquation
<1>4. QED
  BY <1>1, <1>2, <1>3, ConsistentInit, BudgetAsSums DEF Budgeted

LEMMA BudgetStep == Budgeted /\ [WorkspaceNext]_workspaceVars => Budgeted'
<1> SUFFICES ASSUME Budgeted, [WorkspaceNext]_workspaceVars  PROVE Budgeted'
  OBVIOUS
<1>1. Consistent'
  BY ConsistentStep DEF Budgeted
<1>2. CASE UNCHANGED <<runs, cache>>
  BY <1>1, <1>2, BudgetShrinks
<1>3. CASE Deletion
  <2>1. \E gone : RemoveRuns(gone)
    BY <1>3 DEF Deletion, DeleteWorkspace, DeleteComparison
  <2>2. QED
    BY <1>1, <2>1, BudgetShrinks DEF RemoveRuns, Without
<1>4. CASE Registration
  BY <1>1, <1>4, RegisterBudget DEF Registration
<1>5. ASSUME NEW r \in ActiveRuns, NEW k \in runs[r].keys, NEW v \in Verdicts,
             Answer(r, k, v)
      PROVE  Budgeted'
  BY <1>1, <1>5, AnswerBudget
<1>6. CASE \E r \in DOMAIN runs : Finish(r)
  BY <1>1, <1>6, FinishBudget
<1>7. CASE \E r \in DOMAIN runs : Pin(r) \/ Unpin(r) \/ Supersede(r)
  <2>1. PICK r \in DOMAIN runs : Pin(r) \/ Unpin(r) \/ Supersede(r)
    BY <1>7
  <2>2. runs[r] \in RunRecord
    BY DEF Budgeted, Consistent, WorkspaceTypeOK
  <2>3. /\ cache' = cache /\ DOMAIN runs' = DOMAIN runs
        /\ \A q \in DOMAIN runs : runs'[q].reservation = runs[q].reservation
    BY <2>1, <2>2 DEF Pin, Unpin, Supersede, RunRecord
  <2>4. QED
    BY <1>1, <2>3, BudgetShrinks
<1>8. QED
  BY <1>2, <1>3, <1>4, <1>5, <1>6, <1>7
  DEF WorkspaceNext, Create, SaveEditor, DeleteTaskSet, Baseline, ActiveRuns,
      workspaceVars

(* What the cache holds and what running runs may still add to it never    *)
(* exceed the memory for results, whatever the sizes and limits are.       *)
THEOREM Budget == WorkspaceSpec => []WithinBudget
<1>1. Budgeted => WithinBudget
  BY DEF Budgeted
<1>2. QED
  BY <1>1, BudgetInit, BudgetStep, PTL DEF WorkspaceSpec

-----------------------------------------------------------------------------
(* Reservations suffice.  While a run is running its reservation covers    *)
(* either all that the run may still retain, or one model of the largest   *)
(* size for each scenario the service has yet to answer.                   *)

Open(run) == {k \in run.missing : run.verdict[k] = Unanswered}

Backed(run) ==
  /\ run.missing \subseteq run.keys
  /\ IsFiniteSet(run.missing) /\ IsFiniteSet(run.retained)
  /\ \A k \in run.retained : run.verdict[k] # Unanswered
  /\ ~run.over =>
       \/ MaxRunBytes <= Bytes(run.retained) + run.reservation
       \/ MaxModelBytes * Cardinality(Open(run)) <= run.reservation

AllBacked == \A r \in DOMAIN runs : Backed(runs[r])

LEMMA ProductGrows ==
  ASSUME NEW a \in Nat, NEW m \in Nat, NEW n \in Nat
  PROVE  /\ a * m \in Nat
         /\ m <= n => a * m <= a * n
         /\ m + 1 <= n => a * m + a <= a * n
  OBVIOUS

LEMMA NewRunBacked ==
  ASSUME NEW w \in Workspaces, NEW ts \in TaskSets, NEW ks \in Selections(ts),
         NEW intent \in {"manual", "interactive"}
  PROVE  Backed(NewRun(w, ts, ks, intent))
<1> DEFINE run == NewRun(w, ts, ks, intent)
<1>1. /\ run.missing = ks \ cache /\ run.keys = ks /\ run.retained = {}
      /\ run.reservation = Reservation(ks \ cache)
      /\ \A k \in Keys : run.verdict[k] = Unanswered
  BY DEF NewRun
<1>2. ks \subseteq Keys /\ IsFiniteSet(ks \ cache) /\ IsFiniteSet({})
  BY SelectionsFinite, FS_Subset, FS_EmptySet
<1> HIDE DEF run
<1>3. Open(run) = ks \ cache
  BY <1>1, <1>2 DEF Open
<1>4. Bytes({}) = 0
  BY <1>2, BytesIsSum, SumEquation
<1>5. Cardinality(ks \ cache) \in Nat
  BY <1>2, FS_CardinalityType
<1>6. /\ MaxRunBytes \in Nat
      /\ MaxModelBytes * Cardinality(ks \ cache) \in Nat
  BY <1>5, WorkspaceAssumption
<1>7. run.reservation \in {MaxRunBytes, MaxModelBytes * Cardinality(ks \ cache)}
  BY <1>1, <1>6, MinOfTwo DEF Reservation
<1>8. QED
  BY <1>1, <1>2, <1>3, <1>4, <1>6, <1>7 DEF Backed, run

(* Any answer leaves fewer scenarios open.                                 *)
LEMMA FewerOpen ==
  ASSUME NEW run, NEW new, IsFiniteSet(run.missing), new.missing = run.missing,
         NEW k, new.verdict[k] # Unanswered,
         \A q \in run.missing : q # k => new.verdict[q] = run.verdict[q],
         run.verdict[k] = Unanswered
  PROVE  /\ Cardinality(Open(new)) \in Nat /\ Cardinality(Open(run)) \in Nat
         /\ Cardinality(Open(new)) <= Cardinality(Open(run))
         /\ k \in run.missing =>
              Cardinality(Open(new)) + 1 <= Cardinality(Open(run))
<1>1. Open(new) = Open(run) \ {k}
  BY DEF Open
<1>2. IsFiniteSet(Open(run))
  BY FS_Subset DEF Open
<1>3. k \in run.missing => k \in Open(run)
  BY DEF Open
<1>4. IsFiniteSet(Open(new))
  BY <1>1, <1>2, FS_Subset
<1>5. Cardinality(Open(new)) \in Nat /\ Cardinality(Open(run)) \in Nat
  BY <1>2, <1>4, FS_CardinalityType
<1>6. CASE k \in Open(run)
  <2>1. Cardinality(Open(run) \ {k}) = Cardinality(Open(run)) - 1
    BY <1>2, <1>6, FS_RemoveElement
  <2>2. QED
    BY <1>1, <1>5, <2>1
<1>7. CASE k \notin Open(run)
  <2>1. Open(new) = Open(run)
    BY <1>1, <1>7
  <2>2. QED
    BY <1>3, <1>5, <1>7, <2>1
<1>8. QED
  BY <1>6, <1>7

LEMMA AnswerBacked ==
  ASSUME Consistent, AllBacked, NEW r \in ActiveRuns, NEW k \in runs[r].keys,
         NEW v \in Verdicts, Answer(r, k, v)
  PROVE  AllBacked'
<1>1. /\ r \in DOMAIN runs /\ runs[r] \in RunRecord /\ k \in Keys
      /\ v # Unanswered /\ runs[r].verdict[k] = Unanswered /\ Backed(runs[r])
  BY WorkspaceAssumption
  DEF ActiveRuns, Consistent, WorkspaceTypeOK, RunRecord, AllBacked, Answer
<1>2. /\ MaxRunBytes \in Nat /\ MaxModelBytes \in Nat /\ Size(k) \in Nat
      /\ runs[r].reservation \in Nat
      /\ k \notin runs[r].retained /\ runs[r].retained \in SUBSET Keys
      /\ IsFiniteSet(runs[r].retained) /\ IsFiniteSet(runs[r].missing)
      /\ runs[r].missing \in SUBSET Keys
  BY <1>1, WorkspaceAssumption DEF RunRecord, Backed, Size, Keys
<1>3. /\ Bytes(runs[r].retained) \in Nat
      /\ Bytes(runs[r].retained \cup {k}) = Bytes(runs[r].retained) + Size(k)
      /\ IsFiniteSet(runs[r].retained \cup {k})
  BY <1>1, <1>2, BytesLaws, FS_AddElement
<1>4. /\ DOMAIN runs' = DOMAIN runs
      /\ \A q \in DOMAIN runs \ {r} : runs'[q] = runs[q]
  <2>1. CASE v = "succeeded"
    BY <2>1 DEF Answer
  <2>2. CASE v # "succeeded"
    BY <2>2 DEF Answer
  <2>3. QED
    BY <2>1, <2>2
<1> DEFINE run == runs[r]
           new == runs'[r]
<1>5. /\ new.missing = run.missing /\ new.keys = run.keys /\ new.over = run.over
      /\ new.verdict = [run.verdict EXCEPT ![k] = v]
  <2>1. CASE v = "succeeded"
    BY <1>1, <2>1 DEF Answer, RunRecord
  <2>2. CASE v # "succeeded"
    BY <1>1, <2>2 DEF Answer, RunRecord
  <2>3. QED
    BY <2>1, <2>2
<1>6. new.verdict[k] = v /\ \A q \in Keys : q # k => new.verdict[q] = run.verdict[q]
  BY <1>1, <1>5 DEF RunRecord
<1>7. /\ Cardinality(Open(new)) \in Nat /\ Cardinality(Open(run)) \in Nat
      /\ Cardinality(Open(new)) <= Cardinality(Open(run))
      /\ k \in run.missing =>
           Cardinality(Open(new)) + 1 <= Cardinality(Open(run))
  <2>1. \A q \in run.missing : q # k => new.verdict[q] = run.verdict[q]
    BY <1>2, <1>6
  <2> HIDE DEF run, new
  <2>2. QED
    BY <1>1, <1>2, <1>5, <1>6, <2>1, FewerOpen DEF run
<1>8. /\ MaxModelBytes * Cardinality(Open(new)) \in Nat
      /\ MaxModelBytes * Cardinality(Open(run)) \in Nat
      /\ MaxModelBytes * Cardinality(Open(new))
           <= MaxModelBytes * Cardinality(Open(run))
      /\ k \in run.missing =>
           MaxModelBytes * Cardinality(Open(new)) + MaxModelBytes
             <= MaxModelBytes * Cardinality(Open(run))
  <2> HIDE DEF run, new
  <2>1. QED
    BY <1>2, <1>7, ProductGrows
<1>9. \/ MaxRunBytes <= Bytes(run.retained) + run.reservation
      \/ MaxModelBytes * Cardinality(Open(run)) <= run.reservation
  BY <1>1 DEF Backed, ActiveRuns, Active
<1>10. CASE v = "succeeded"
  <2>0. runs' = [runs EXCEPT ![r].verdict[k] = v,
                             ![r].retained = @ \cup {k},
                             ![r].reservation = @ - ChargedBytes(k)]
    BY <1>10 DEF Answer
  <2>1. /\ new.retained = run.retained \cup {k}
        /\ new.reservation = run.reservation - ChargedBytes(k)
        /\ CanRetain(r, k) /\ (k \in run.missing \/ k \in cache)
    <3>1. new.retained = run.retained \cup {k}
      BY <1>1, <2>0 DEF RunRecord
    <3>2. new.reservation = run.reservation - ChargedBytes(k)
      BY <1>1, <2>0 DEF RunRecord
    <3>3. CanRetain(r, k) /\ (k \in run.missing \/ k \in cache)
      BY <1>10 DEF Answer
    <3>4. QED
      BY <3>1, <3>2, <3>3
  <2>2. Size(k) <= MaxModelBytes
    BY <2>1 DEF CanRetain
  <2>3. \A q \in new.retained : new.verdict[q] # Unanswered
    BY <1>1, <1>2, <1>6, <2>1 DEF Backed
  <2>4. \/ MaxRunBytes <= Bytes(new.retained) + new.reservation
        \/ MaxModelBytes * Cardinality(Open(new)) <= new.reservation
    <3> HIDE DEF run, new
    <3>1. Bytes(new.retained) = Bytes(run.retained) + Size(k)
          /\ Bytes(run.retained) \in Nat /\ run.reservation \in Nat
      BY <1>2, <1>3, <2>1 DEF run
    <3>2. CASE k \in cache
      <4>1. new.reservation = run.reservation
        BY <2>1, <3>1, <3>2 DEF ChargedBytes
      <4>2. QED
        BY <1>2, <1>8, <1>9, <3>1, <4>1
    <3>3. CASE k \notin cache
      <4>1. new.reservation = run.reservation - Size(k) /\ k \in run.missing
        BY <2>1, <3>3 DEF ChargedBytes
      <4>2. QED
        BY <1>2, <1>8, <1>9, <2>2, <3>1, <4>1
    <3>4. QED
      BY <3>2, <3>3
  <2>5. Backed(new)
    <3>1. IsFiniteSet(new.missing) /\ IsFiniteSet(new.retained)
      BY <1>2, <1>3, <1>5, <2>1
    <3>2. new.missing \subseteq new.keys
      BY <1>1, <1>5 DEF Backed
    <3> HIDE DEF run, new
    <3>3. QED
      BY <2>3, <2>4, <3>1, <3>2 DEF Backed
  <2>6. QED
    BY <1>1, <1>4, <2>5 DEF AllBacked
<1>11. CASE v # "succeeded"
  <2>1. new.retained = run.retained /\ new.reservation = run.reservation
    BY <1>1, <1>11 DEF Answer, RunRecord
  <2>2. \A q \in new.retained : new.verdict[q] # Unanswered
    BY <1>1, <1>2, <1>6, <2>1 DEF Backed
  <2>3. \/ MaxRunBytes <= Bytes(new.retained) + new.reservation
        \/ MaxModelBytes * Cardinality(Open(new)) <= new.reservation
    <3>1. run.reservation \in Nat
      BY <1>2
    <3> HIDE DEF run, new
    <3>2. QED
      BY <1>8, <1>9, <2>1, <3>1
  <2>4. Backed(new)
    <3>1. IsFiniteSet(new.missing) /\ IsFiniteSet(new.retained)
          /\ new.missing \subseteq new.keys
      BY <1>1, <1>2, <1>5, <2>1 DEF Backed
    <3> HIDE DEF run, new
    <3>2. QED
      BY <2>2, <2>3, <3>1 DEF Backed
  <2>5. QED
    BY <1>1, <1>4, <2>4 DEF AllBacked
<1>12. QED
  BY <1>10, <1>11

(* Removing runs, and steps that leave the fields in question alone or end *)
(* a run, keep the remaining runs backed.                                  *)
LEMMA SameBacked ==
  ASSUME AllBacked, DOMAIN runs' \subseteq DOMAIN runs,
         \A q \in DOMAIN runs' :
           /\ runs'[q].missing = runs[q].missing
           /\ runs'[q].keys = runs[q].keys
           /\ runs'[q].retained = runs[q].retained
           /\ runs'[q].verdict = runs[q].verdict
           /\ ~runs'[q].over => /\ ~runs[q].over
                                /\ runs'[q].reservation = runs[q].reservation
  PROVE  AllBacked'
<1>1. ASSUME NEW q \in DOMAIN runs'  PROVE Backed(runs'[q])
  <2>1. q \in DOMAIN runs /\ Backed(runs[q])
    BY <1>1 DEF AllBacked
  <2>2. Open(runs'[q]) = Open(runs[q])
    BY <1>1 DEF Open
  <2>3. QED
    BY <1>1, <2>1, <2>2 DEF Backed
<1>2. QED
  BY <1>1 DEF AllBacked

LEMMA RegisterBacked ==
  ASSUME Consistent, AllBacked, NEW w \in DOMAIN workspaces, NEW ts \in TaskSets,
         NEW ks \in Selections(ts), NEW intent \in {"manual", "interactive"},
         Register(w, ts, ks, intent)
  PROVE  AllBacked'
<1>1. PICK gone \in SUBSET DOMAIN runs :
        RefusedWithout(gone) \/ AdmittedWithout(gone, w, ts, ks, intent)
  BY RegisterPrunes
<1>2. CASE RefusedWithout(gone)
  <2>1. DOMAIN runs' \subseteq DOMAIN runs /\ \A q \in DOMAIN runs' : runs'[q] = runs[q]
    BY <1>2 DEF RefusedWithout, Without
  <2>2. QED
    BY <2>1, SameBacked
<1>3. CASE AdmittedWithout(gone, w, ts, ks, intent)
  <2>1. \A q \in DOMAIN runs' : \/ q \in DOMAIN runs /\ runs'[q] = runs[q]
                                \/ runs'[q] = NewRun(w, ts, ks, intent)
    BY <1>3 DEF AdmittedWithout
  <2>2. w \in Workspaces
    BY DEF Consistent, WorkspaceTypeOK
  <2>3. Backed(NewRun(w, ts, ks, intent))
    BY <2>2, NewRunBacked
  <2>4. ASSUME NEW q \in DOMAIN runs'  PROVE Backed(runs'[q])
    BY <2>1, <2>3, <2>4 DEF AllBacked
  <2>5. QED
    BY <2>4 DEF AllBacked
<1>4. QED
  BY <1>1, <1>2, <1>3

LEMMA BackedStep ==
  Consistent /\ AllBacked /\ [WorkspaceNext]_workspaceVars => AllBacked'
<1>1. SUFFICES ASSUME Consistent, AllBacked, [WorkspaceNext]_workspaceVars
               PROVE  AllBacked'
  OBVIOUS
<1>2. CASE UNCHANGED runs
  BY <1>1, <1>2, SameBacked
<1>3. CASE Deletion
  <2>1. PICK gone : RemoveRuns(gone)
    BY <1>3 DEF Deletion, DeleteWorkspace, DeleteComparison
  <2>2. DOMAIN runs' \subseteq DOMAIN runs /\ \A q \in DOMAIN runs' : runs'[q] = runs[q]
    BY <2>1 DEF RemoveRuns, Without
  <2>3. QED
    BY <1>1, <2>2, SameBacked
<1>4. CASE Registration
  BY <1>1, <1>4, RegisterBacked DEF Registration
<1>5. ASSUME NEW r \in ActiveRuns, NEW k \in runs[r].keys, NEW v \in Verdicts,
             Answer(r, k, v)
      PROVE  AllBacked'
  BY <1>1, <1>5, AnswerBacked
<1>6. CASE \E r \in DOMAIN runs : Pin(r) \/ Unpin(r) \/ Supersede(r) \/ Finish(r)
  <2>1. PICK r \in DOMAIN runs : Pin(r) \/ Unpin(r) \/ Supersede(r) \/ Finish(r)
    BY <1>6
  <2>2. runs[r] \in RunRecord
    BY <1>1 DEF Consistent, WorkspaceTypeOK
  <2>3. /\ DOMAIN runs' = DOMAIN runs
        /\ \A q \in DOMAIN runs \ {r} : runs'[q] = runs[q]
        /\ runs'[r].missing = runs[r].missing
        /\ runs'[r].keys = runs[r].keys
        /\ runs'[r].retained = runs[r].retained
        /\ runs'[r].verdict = runs[r].verdict
        /\ ~runs'[r].over => /\ ~runs[r].over
                             /\ runs'[r].reservation = runs[r].reservation
    <3>1. CASE Pin(r) \/ Unpin(r) \/ Supersede(r)
      BY <2>2, <3>1 DEF Pin, Unpin, Supersede, RunRecord
    <3>2. CASE Finish(r)
      BY <2>2, <3>2 DEF Finish, RunRecord
    <3>3. QED
      BY <2>1, <3>1, <3>2
  <2>4. \A q \in DOMAIN runs' :
           /\ runs'[q].missing = runs[q].missing
           /\ runs'[q].keys = runs[q].keys
           /\ runs'[q].retained = runs[q].retained
           /\ runs'[q].verdict = runs[q].verdict
           /\ ~runs'[q].over => /\ ~runs[q].over
                                /\ runs'[q].reservation = runs[q].reservation
    BY <2>3
  <2>5. QED
    BY <1>1, <2>3, <2>4, SameBacked
<1>7. QED
  BY <1>1, <1>2, <1>3, <1>4, <1>5, <1>6
  DEF WorkspaceNext, Create, SaveEditor, DeleteTaskSet, Baseline, ActiveRuns,
      workspaceVars

(* An unanswered result that is not cached is still missing, because no    *)
(* eviction takes what a run counts on: it is one of those the reservation *)
(* was made for.                                                           *)
LEMMA BackedSuffices ==
  Consistent /\ ResultsKept /\ AllBacked => ReservationSuffices
<1> SUFFICES ASSUME Consistent, ResultsKept, AllBacked,
                    NEW r \in ActiveRuns, NEW k \in runs[r].keys,
                    runs[r].verdict[k] = Unanswered, Size(k) <= MaxModelBytes,
                    Spent(r) + Size(k) <= MaxRunBytes, k \notin cache
             PROVE  Size(k) <= runs[r].reservation
  BY DEF ReservationSuffices, CanRetain
<1>1. /\ r \in DOMAIN runs /\ runs[r] \in RunRecord /\ k \in Keys
      /\ Backed(runs[r]) /\ ~runs[r].over
  BY DEF ActiveRuns, Active, Consistent, WorkspaceTypeOK, RunRecord, AllBacked
<1>2. /\ MaxRunBytes \in Nat /\ MaxModelBytes \in Nat /\ Size(k) \in Nat
      /\ runs[r].reservation \in Nat
      /\ IsFiniteSet(runs[r].missing) /\ IsFiniteSet(runs[r].retained)
      /\ runs[r].retained \in SUBSET Keys
  BY <1>1, WorkspaceAssumption DEF RunRecord, Backed, Size, Keys
<1>3. Bytes(runs[r].retained) \in Nat
  BY <1>2, BytesLaws
<1>4. k \in Open(runs[r])
  BY <1>1 DEF ResultsKept, Active, Open
<1>5. Cardinality(Open(runs[r])) \in Nat /\ Cardinality(Open(runs[r])) >= 1
  <2>1. IsFiniteSet(Open(runs[r]))
    BY <1>2, FS_Subset DEF Open
  <2>2. Cardinality(Open(runs[r])) # 0
    BY <1>4, <2>1, FS_EmptySet
  <2>3. QED
    BY <2>1, <2>2, FS_CardinalityType
<1>6. /\ MaxModelBytes * Cardinality(Open(runs[r])) \in Nat
      /\ MaxModelBytes <= MaxModelBytes * Cardinality(Open(runs[r]))
  <2>1. MaxModelBytes * 1 <= MaxModelBytes * Cardinality(Open(runs[r]))
    BY <1>2, <1>5, ProductGrows
  <2>2. QED
    BY <1>2, <1>5, <2>1, ProductGrows
<1>7. \/ MaxRunBytes <= Bytes(runs[r].retained) + runs[r].reservation
      \/ MaxModelBytes * Cardinality(Open(runs[r])) <= runs[r].reservation
  BY <1>1 DEF Backed
<1>8. QED
  BY <1>2, <1>3, <1>6, <1>7 DEF Spent

(* A result within the limits of model and run always finds its bytes in   *)
(* the reservation (retain_result): register reserves for the scenarios    *)
(* that were not cached, and neither the cache nor other runs take that    *)
(* away before the scenario is answered.                                   *)
THEOREM ReservationsSuffice == WorkspaceSpec => []ReservationSuffices
<1>1. WorkspaceInit => Consistent /\ ResultsKept /\ AllBacked
  BY ConsistentInit DEF WorkspaceInit, ResultsKept, AllBacked
<1>2. (Consistent /\ ResultsKept /\ AllBacked) /\ [WorkspaceNext]_workspaceVars
        => (Consistent /\ ResultsKept /\ AllBacked)'
  BY ConsistentStep, ResultsStep, BackedStep
<1>3. Consistent /\ ResultsKept /\ AllBacked => ReservationSuffices
  BY BackedSuffices
<1>4. QED
  BY <1>1, <1>2, <1>3, PTL DEF WorkspaceSpec

=============================================================================
