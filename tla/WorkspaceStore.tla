--------------------------- MODULE WorkspaceStore ---------------------------
(***************************************************************************)
(* The workspace store of the web application: workspaces with their task  *)
(* sets and comparison context, the records of runs, and one cache of      *)
(* results that all runs share.  Memory for results is a budget: what the  *)
(* cache holds plus what running runs have reserved.                       *)
(*                                                                         *)
(* Every route runs on one event loop and the store never suspends, so     *)
(* each operation is one action.  Who calls it is open here; the calls of  *)
(* the run coordinator are in RunCoordinator.                              *)
(*                                                                         *)
(* Runs are numbered in the order of their registration.  A scenario of a  *)
(* run is known by the key its result has in the cache, because the key is *)
(* a digest of everything the result depends on.                           *)
(***************************************************************************)
EXTENDS Integers, FiniteSets, FiniteSetsExt

CONSTANTS
  Workspaces,         (* identifiers of workspaces                          *)
  TaskSets,           (* task specifications, each with its task set        *)
  Configs,            (* scenario configurations                            *)
  Verdicts,           (* what may become of a scenario, "succeeded" included*)
  ResultSize,         (* serialised size of the result of a configuration   *)
  MaxRuns,            (* bound: runs registered in a behaviour              *)
  MaxWorkspaces,      (* AppSettings.max_workspaces                         *)
  MaxTaskSets,        (* max_task_sets                                      *)
  MaxActiveRuns,      (* max_active_runs                                    *)
  MaxRetainedRuns,    (* max_retained_runs                                  *)
  MaxPins,            (* max_pins                                           *)
  MaxResultBytes,     (* max_result_bytes                                   *)
  MaxRunBytes,        (* max_run_bytes                                      *)
  MaxModelBytes,      (* max_model_bytes                                    *)
  Null                (* absence of a value                                 *)

Runs == 1..MaxRuns
Unanswered == "pending"
Keys == TaskSets \X Configs
Size(k) == ResultSize[k[2]]

ASSUME WorkspaceAssumption ==
  /\ MaxRuns \in Nat
  /\ MaxWorkspaces \in Nat \ {0}
  /\ MaxTaskSets \in Nat \ {0}
  /\ MaxActiveRuns \in Nat \ {0}
  /\ MaxRetainedRuns \in Nat \ {0}
  /\ MaxPins \in Nat \ {0}
  /\ MaxResultBytes \in Nat \ {0}
  /\ MaxRunBytes \in Nat \ {0}
  /\ MaxModelBytes \in Nat \ {0}
  /\ ResultSize \in [Configs -> Nat \ {0}]
  /\ Null \notin TaskSets \cup Runs
  /\ Unanswered \notin Verdicts
  /\ IsFiniteSet(Configs)

VARIABLES
  workspaces,         (* self.workspaces                                    *)
  runs,               (* self.runs: the record of each run                  *)
  cache,              (* keys of self.cache                                 *)
  nextRun             (* the next run to be registered                      *)

workspaceVars == <<workspaces, runs, cache, nextRun>>

Workspace == [taskSets : SUBSET TaskSets, current : TaskSets \cup {Null},
              baseline : Runs \cup {Null}, latest : Runs \cup {Null}]

RunRecord == [workspace : Workspaces, taskSet : TaskSets,
              intent : {"manual", "interactive"},
              keys : SUBSET Keys,                    \* cache_keys
              missing : SUBSET Keys,                 \* service_indices
              verdict : [Keys -> Verdicts \cup {Unanswered}],
              retained : SUBSET Keys,                \* results
              reservation : Nat,
              over : BOOLEAN,                        \* state is terminal
              pinned : BOOLEAN, superseded : BOOLEAN]

WorkspaceTypeOK ==
  /\ DOMAIN workspaces \subseteq Workspaces
  /\ \A w \in DOMAIN workspaces : workspaces[w] \in Workspace
  /\ DOMAIN runs \subseteq Runs
  /\ \A r \in DOMAIN runs : runs[r] \in RunRecord
  /\ cache \subseteq Keys
  /\ nextRun \in 1..(MaxRuns + 1)

WorkspaceInit ==
  /\ workspaces = [w \in {} |-> Null]
  /\ runs = [r \in {} |-> Null]
  /\ cache = {}
  /\ nextRun = 1

-----------------------------------------------------------------------------
(* Reading the store                                                       *)

Owned(w) == {r \in DOMAIN runs : runs[r].workspace = w}
Active(r) == ~runs[r].over
ActiveRuns == {r \in DOMAIN runs : Active(r)}
Idle(w) == Owned(w) \cap ActiveRuns = {}

(* The comparisons a workspace shows, whatever happens to be pinned.       *)
Shown(w) == {workspaces[w].baseline, workspaces[w].latest}
Protected(r) == runs[r].pinned \/ r \in Shown(runs[r].workspace)

Bytes(keys) == MapThenSumSet(Size, keys)
Reserved(rs) == MapThenSumSet(LAMBDA r : runs[r].reservation, rs)
Used(keys, rs) == Bytes(keys) + Reserved(rs)

Without(f, gone) == [x \in DOMAIN f \ gone |-> f[x]]

-----------------------------------------------------------------------------
(* Evicting results: prune_cache                                           *)

\* Mutant: only running runs keep their results.
EvictableUnlessActive(rs, protect) ==
  cache \ ((UNION {runs[r].keys : r \in rs \cap ActiveRuns}) \cup protect)

(* What may be evicted while the runs rs remain.                           *)
Evictable(rs, protect) ==
  cache \ ((UNION {runs[r].retained : r \in rs})
             \cup (UNION {runs[r].keys : r \in rs \cap ActiveRuns})
             \cup protect)

(* Without a required size everything evictable goes.                      *)
RemoveRuns(gone) ==
  /\ runs' = Without(runs, gone)
  /\ cache' = cache \ Evictable(DOMAIN runs \ gone, {})

-----------------------------------------------------------------------------
(* Making room for a run: prune_history, prune_cache, prune_for_capacity   *)

\* Mutant: only pins are spared.
DisposableUnlessPinned(rs) == {r \in rs \ ActiveRuns : ~runs[r].pinned}

Disposable(rs) == {r \in rs \ ActiveRuns : ~Protected(r)}

Oldest(n, rs) == {r \in rs : Cardinality({q \in rs : q < r}) < n}

(* History beyond max_retained_runs, the oldest first.                     *)
Surplus(w) ==
  Oldest(Cardinality(Owned(w)) + 1 - MaxRetainedRuns, Disposable(Owned(w)))

\* Mutant: the whole run counts as one model.
ReservationOfOne(missing) ==
  IF missing = {} THEN 0 ELSE Min({MaxRunBytes, MaxModelBytes})

Reservation(missing) ==
  Min({MaxRunBytes, MaxModelBytes * Cardinality(missing)})

(* The n oldest disposable runs of all workspaces and the results evicted  *)
(* go, one run and the results it frees after the other, until the         *)
(* required bytes fit: no run more than needed, and evicting stops when    *)
(* there is room.  Entries leave in the order of their last use, which is  *)
(* not kept here: any order may be the one.                                *)
MakesRoom(left, required, protect, n, evicted) ==
  LET Drop(k) == Oldest(k, Disposable(left))
      Free(k) == Evictable(left \ Drop(k), protect)
      Fits(out) == Used(cache \ out, left) + required <= MaxResultBytes
      before == IF n = 0 THEN {} ELSE Free(n - 1)
  IN IF required = 0
       THEN n = 0 /\ evicted = Free(0)
       ELSE /\ \A k \in 0..(n - 1) : ~Fits(Free(k))
            /\ n < Cardinality(Disposable(left)) => Fits(Free(n))
            /\ before \subseteq evicted /\ evicted \subseteq Free(n)
            /\ ~Fits(evicted) => evicted = Free(n)
            /\ evicted # before =>
                 \E e \in evicted \ before : ~Fits(evicted \ {e})

NewRun(w, ts, ks, intent) ==
  [workspace |-> w, taskSet |-> ts, intent |-> intent,
   keys |-> ks, missing |-> ks \ cache,
   verdict |-> [k \in Keys |-> Unanswered], retained |-> {},
   reservation |-> Reservation(ks \ cache), over |-> FALSE,
   pinned |-> FALSE, superseded |-> FALSE]

(* register.  A refusal keeps what was pruned; that the snapshot of the    *)
(* inputs is too large may be found after everything else.                 *)
Register(w, ts, ks, intent) ==
  LET left == DOMAIN runs \ Surplus(w)
      need == Reservation(ks \ cache)
  IN /\ Idle(w)
     /\ Cardinality(ActiveRuns) < MaxActiveRuns
     /\ IF Cardinality(Owned(w) \cap left) >= MaxRetainedRuns
          THEN /\ runs' = Without(runs, Surplus(w))
               /\ UNCHANGED <<workspaces, cache, nextRun>>
          ELSE \E n \in 0..Cardinality(Disposable(left)),
                 evicted \in SUBSET cache :
                 LET kept == left \ Oldest(n, Disposable(left))
                     room == Used(cache \ evicted, left) + need
                               <= MaxResultBytes
                 IN /\ MakesRoom(left, need, ks, n, evicted)
                    /\ cache' = cache \ evicted
                    /\ \/ /\ runs' = Without(runs, DOMAIN runs \ kept)
                          /\ UNCHANGED <<workspaces, nextRun>>
                       \/ /\ room
                          /\ runs' = [r \in kept \cup {nextRun} |->
                               IF r = nextRun THEN NewRun(w, ts, ks, intent)
                               ELSE runs[r]]
                          /\ nextRun' = nextRun + 1
                          /\ workspaces' =
                               IF intent = "manual" THEN workspaces
                               ELSE [workspaces EXCEPT ![w].latest = nextRun]

-----------------------------------------------------------------------------
(* Workspaces, task sets and the editor                                    *)

NewWorkspace ==
  [taskSets |-> {}, current |-> Null, baseline |-> Null, latest |-> Null]

Create(w) ==
  /\ w \notin DOMAIN workspaces
  /\ Cardinality(DOMAIN workspaces) < MaxWorkspaces
  /\ workspaces' = [v \in DOMAIN workspaces \cup {w} |->
                      IF v = w THEN NewWorkspace ELSE workspaces[v]]
  /\ UNCHANGED <<runs, cache, nextRun>>

DeleteWorkspace(w) ==
  /\ Idle(w)
  /\ workspaces' = Without(workspaces, {w})
  /\ RemoveRuns(Owned(w))
  /\ UNCHANGED nextRun

(* Saving other inputs for the same tasks keeps the comparison context; a  *)
(* new task set starts another one.                                        *)
SaveEditor(w, ts) ==
  LET space == workspaces[w]
  IN /\ ts \in space.taskSets \/ Cardinality(space.taskSets) < MaxTaskSets
     /\ workspaces' = [workspaces EXCEPT ![w] =
          [taskSets |-> space.taskSets \cup {ts},
           current  |-> ts,
           baseline |-> IF space.current = ts THEN space.baseline ELSE Null,
           latest   |-> IF space.current = ts THEN space.latest ELSE Null]]
     /\ UNCHANGED <<runs, cache, nextRun>>

\* Mutant: the comparisons that use a task set are not looked at.
UsedTaskSetsOfEditor(w) == {workspaces[w].current}

UsedTaskSets(w) == {workspaces[w].current} \cup {runs[r].taskSet : r \in Owned(w)}

DeleteTaskSet(w, ts) ==
  /\ ts \in workspaces[w].taskSets \ UsedTaskSets(w)
  /\ workspaces' = [workspaces EXCEPT ![w].taskSets = @ \ {ts}]
  /\ UNCHANGED <<runs, cache, nextRun>>

-----------------------------------------------------------------------------
(* Comparisons: pin, unpin, baseline and delete, for a run that is over    *)

Pin(r) ==
  /\ ~Active(r)
  /\ runs[r].retained # {}
  /\ runs[r].pinned \/
     Cardinality({q \in Owned(runs[r].workspace) : runs[q].pinned}) < MaxPins
  /\ runs' = [runs EXCEPT ![r].pinned = TRUE]
  /\ UNCHANGED <<workspaces, cache, nextRun>>

Unpin(r) ==
  /\ ~Active(r)
  /\ runs' = [runs EXCEPT ![r].pinned = FALSE]
  /\ UNCHANGED <<workspaces, cache, nextRun>>

(* The editor follows the baseline; a latest comparison of other tasks     *)
(* leaves the context.                                                     *)
Baseline(r) ==
  LET w == runs[r].workspace
      latest == workspaces[w].latest
  IN /\ ~Active(r)
     /\ runs[r].retained # {}
     /\ workspaces' = [workspaces EXCEPT
          ![w].baseline = r,
          ![w].current = runs[r].taskSet,
          ![w].latest = IF latest # Null /\ runs[latest].taskSet # runs[r].taskSet
                          THEN Null ELSE latest]
     /\ UNCHANGED <<runs, cache, nextRun>>

Leaving(w, r) == IF workspaces[w].latest = r THEN Null ELSE workspaces[w].latest

DeleteComparison(r) ==
  LET w == runs[r].workspace
  IN /\ ~Active(r)
     /\ RemoveRuns({r})
     /\ workspaces' = [workspaces EXCEPT
          ![w].baseline = IF @ = r THEN Null ELSE @,
          ![w].latest = Leaving(w, r)]
     /\ UNCHANGED nextRun

-----------------------------------------------------------------------------
(* What a running run does to the store                                    *)

Spent(r) == Bytes(runs[r].retained)

(* retain_result takes the result of key k for run r.                      *)
CanRetain(r, k) ==
  /\ Size(k) <= MaxModelBytes
  /\ Spent(r) + Size(k) <= MaxRunBytes
  /\ k \in cache \/ Size(k) <= runs[r].reservation

\* Mutant: a retained result is not taken out of the reservation.
UnchargedBytes(k) == 0

\* Mutant: a result that is cached already is taken out of it, too.
ChargedTwice(k) == Size(k)

ChargedBytes(k) == IF k \in cache THEN 0 ELSE Size(k)

(* complete_outcome: a scenario is answered once, with its result when it  *)
(* succeeded; a result of the cache is taken from there.                   *)
Answer(r, k, v) ==
  /\ runs[r].verdict[k] = Unanswered
  /\ IF v = "succeeded"
       THEN /\ CanRetain(r, k)
            /\ k \in runs[r].missing \/ k \in cache
            /\ cache' = cache \cup {k}
            /\ runs' = [runs EXCEPT ![r].verdict[k] = v,
                                    ![r].retained = @ \cup {k},
                                    ![r].reservation = @ - ChargedBytes(k)]
       ELSE /\ runs' = [runs EXCEPT ![r].verdict[k] = v]
            /\ UNCHANGED cache
  /\ UNCHANGED <<workspaces, nextRun>>

Succeeded(r) == \E k \in runs[r].keys : runs[r].verdict[k] = "succeeded"

(* finish: the run is over, its reservation returned; it may become the    *)
(* baseline of its tasks, or else, if started by hand, the latest.         *)
Finish(r) ==
  LET w == runs[r].workspace
      counts == Succeeded(r) /\ ~runs[r].superseded
      becomesBaseline == /\ counts
                         /\ workspaces[w].baseline = Null
                         /\ workspaces[w].current = runs[r].taskSet
      baseline == IF becomesBaseline THEN r ELSE workspaces[w].baseline
  IN /\ runs' = [runs EXCEPT ![r].over = TRUE, ![r].reservation = 0]
     /\ workspaces' = [workspaces EXCEPT
          ![w].baseline = baseline,
          ![w].latest = IF counts /\ runs[r].intent = "manual" /\ baseline # r
                          THEN r ELSE @]
     /\ UNCHANGED <<cache, nextRun>>

(* A newer interactive request gives up the run that is still running.     *)
Supersede(r) ==
  /\ runs[r].intent = "interactive"
  /\ runs' = [runs EXCEPT ![r].superseded = TRUE]
  /\ UNCHANGED <<workspaces, cache, nextRun>>

-----------------------------------------------------------------------------
(* Any caller that answers every scenario of a run before it finishes it.  *)

(* Scenarios a request may ask for: a selection of one task set's keys.    *)
Selections(ts) == (SUBSET ({ts} \X Configs)) \ {{}}

(* The editor's inputs, or a change to a comparison of the same tasks.     *)
MayRun(w, ts, intent) ==
  /\ workspaces[w].current = ts
  /\ intent = "interactive" =>
       \E s \in Owned(w) : ~Active(s) /\ runs[s].retained # {} /\ runs[s].taskSet = ts

Registration ==
  \E w \in DOMAIN workspaces, ts \in TaskSets,
     intent \in {"manual", "interactive"} :
    \E ks \in Selections(ts) :
      nextRun \in Runs /\ MayRun(w, ts, intent) /\ Register(w, ts, ks, intent)

Deletion ==
  \/ \E w \in DOMAIN workspaces : DeleteWorkspace(w)
  \/ \E r \in DOMAIN runs : DeleteComparison(r)

WorkspaceNext ==
  \/ \E w \in Workspaces : Create(w)
  \/ \E w \in DOMAIN workspaces, ts \in TaskSets :
       SaveEditor(w, ts) \/ DeleteTaskSet(w, ts)
  \/ \E r \in DOMAIN runs : Pin(r) \/ Unpin(r) \/ Baseline(r)
  \/ Deletion
  \/ Registration
  \/ \E r \in ActiveRuns :
       \/ \E k \in runs[r].keys, v \in Verdicts : Answer(r, k, v)
       \/ /\ \A k \in runs[r].keys : runs[r].verdict[k] # Unanswered
          /\ Finish(r)
       \/ Supersede(r)

WorkspaceSpec == WorkspaceInit /\ [][WorkspaceNext]_workspaceVars

-----------------------------------------------------------------------------
(* Cached results and reservations together never exceed the memory given  *)
(* to results, although runs share cached results, return reservations and *)
(* evict each other's history.                                             *)
WithinBudget == Used(cache, DOMAIN runs) <= MaxResultBytes

(* No eviction takes a result away from a run that shows it, nor the       *)
(* cached result a running run was registered with and has yet to collect. *)
ResultsKept ==
  \A r \in DOMAIN runs :
    /\ runs[r].retained \subseteq cache
    /\ Active(r) => {k \in runs[r].keys \ runs[r].missing :
                       runs[r].verdict[k] = Unanswered} \subseteq cache

(* A result within the limits of model and run always finds its bytes in   *)
(* the reservation, whatever was cached when the run was registered.       *)
ReservationSuffices ==
  \A r \in ActiveRuns : \A k \in runs[r].keys :
    (/\ runs[r].verdict[k] = Unanswered
     /\ Size(k) <= MaxModelBytes
     /\ Spent(r) + Size(k) <= MaxRunBytes) => CanRetain(r, k)

(* Baseline and latest name runs of the workspace itself, and the editor   *)
(* and every run a task set it still has: the routes follow these          *)
(* references without looking.                                             *)
ReferencesResolve ==
  /\ \A r \in DOMAIN runs :
       /\ runs[r].workspace \in DOMAIN workspaces
       /\ runs[r].taskSet \in workspaces[runs[r].workspace].taskSets
  /\ \A w \in DOMAIN workspaces :
       /\ Shown(w) \subseteq Owned(w) \cup {Null}
       /\ workspaces[w].current \in workspaces[w].taskSets \cup {Null}

(* Making room never removes a run that is running, pinned, the baseline   *)
(* or the latest comparison: only a request to delete does.                *)
EvictionSpares ==
  [][\/ \A r \in DOMAIN runs \ DOMAIN runs' : ~Active(r) /\ ~Protected(r)
     \/ Deletion]_workspaceVars

=============================================================================
