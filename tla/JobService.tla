----------------------------- MODULE JobService -----------------------------
(***************************************************************************)
(* The simulation service: HTTP handlers, the model scheduler with its     *)
(* thread pool, and one worker process per running model, over the job     *)
(* store of JobStore.                                                      *)
(*                                                                         *)
(* Threads.  A task <<job, index>> is one future of the executor; once a   *)
(* worker thread picks it, pc[t] follows _run_model and the completion     *)
(* callback.  Handlers are the threads that run ModelScheduler.cancel: the *)
(* HTTP cancellation handlers and the closer, which runs close.  A job     *)
(* between reserve and ModelScheduler.submit is in "submitting".           *)
(*                                                                         *)
(* Locks.  Each critical section of the scheduler's RLock is one action,   *)
(* with one exception: the dispatch loop of _forget_finished reads the     *)
(* store once per waiting job, and store operations of other threads fall  *)
(* in between, so each iteration is an action of its own and "lock" holds  *)
(* the thread inside the loop.  Every other action that takes the lock is  *)
(* disabled meanwhile.                                                     *)
(***************************************************************************)
EXTENDS JobStore

CONSTANTS
  MaxWorkers,         (* max_model_workers, threads of the executor         *)
  Clients,            (* threads that serve cancellation requests           *)
  Closer              (* the thread that runs close at shutdown             *)

Handlers == Clients \cup {Closer}

ASSUME ServiceAssumption ==
  /\ MaxWorkers \in Nat \ {0}
  /\ Closer \notin Clients
  /\ None \notin Tasks \cup Handlers
  /\ Tasks \cap Handlers = {}

VARIABLES
  active,             (* _active_jobs                                       *)
  futures,            (* keys of _futures                                   *)
  pending,            (* _pending_jobs                                      *)
  fifo,               (* work queue of the executor                         *)
  pc,                 (* where the future of each task stands               *)
  answer,             (* result held by _run_model, NoResult for an error   *)
  proc,               (* worker process of each task                        *)
  registered,         (* keys of _processes                                 *)
  lock,               (* thread in the dispatch loop of _forget_finished    *)
  submitting,         (* jobs reserved but not yet handed to the scheduler  *)
  rejected,           (* jobs the closed scheduler refused                  *)
  handler,            (* step, job and process snapshot of each handler     *)
  shutdown,           (* progress of close; _closed from "closing" on       *)
  toCancel            (* job_ids still to be cancelled by close             *)

schedVars == <<active, futures, pending, fifo>>
workerVars == <<pc, answer, proc, registered>>
httpVars == <<submitting, rejected, handler>>
closeVars == <<shutdown, toCancel>>
serviceVars == <<schedVars, workerVars, httpVars, closeVars, lock>>
vars == <<storeVars, serviceVars>>

(* A future is queued until picked or cancelled, then follows _run_model,  *)
(* and is done from "finished" on: "finished" still owes its callback.     *)
RunningSteps == {"starting", "spawning", "registering", "waiting",
                 "stopping", "cleanup", "reaping", "reporting", "returning"}
DoneSteps == {"finished", "done", "cancelled"}
Steps == {"none", "queued"} \cup RunningSteps \cup DoneSteps
HandlerSteps == {"idle", "scheduler", "signal"}

TypeOK ==
  /\ StoreTypeOK
  /\ active \in SUBSET Jobs
  /\ futures \in SUBSET Jobs
  /\ pending \in Seq(Jobs)
  /\ fifo \in Seq(Tasks)
  /\ pc \in [Tasks -> Steps]
  /\ answer \in [Tasks -> Results]
  /\ proc \in [Tasks -> {"none", "live", "signalled", "dead"}]
  /\ registered \in SUBSET Tasks
  /\ lock \in Tasks \cup Handlers \cup {None}
  /\ submitting \in SUBSET Jobs
  /\ rejected \in SUBSET Jobs
  /\ handler \in [Handlers -> [step : HandlerSteps,
                               job : Jobs \cup {None},
                               procs : SUBSET Tasks]]
  /\ shutdown \in {"open", "closing", "joining", "stopped"}
  /\ toCancel \in SUBSET Jobs

IdleHandler == [step |-> "idle", job |-> None, procs |-> {}]

Init ==
  /\ StoreInit
  /\ active = {} /\ futures = {} /\ pending = <<>> /\ fifo = <<>>
  /\ pc = [t \in Tasks |-> "none"]
  /\ answer = [t \in Tasks |-> NoResult]
  /\ proc = [t \in Tasks |-> "none"]
  /\ registered = {}
  /\ lock = None
  /\ submitting = {} /\ rejected = {}
  /\ handler = [h \in Handlers |-> IdleHandler]
  /\ shutdown = "open" /\ toCancel = {}

Closed == shutdown # "open"
\* Mutant: close waits for the executor while it holds the lock.
LockFreeUntilJoin == lock = None /\ shutdown # "joining"
LockFree == lock = None

(* status of the store, as the scheduler reads it.                         *)
Cancelled(j) == j \in Kept /\ status[j] = "cancelled"
\* Mutant: only a job that is gone counts as cancelled.
StartableIfKept(j) == j \in Kept
Startable(j) == j \in Kept /\ status[j] # "cancelled"

-----------------------------------------------------------------------------
(* Scheduling under the lock: _start_job and _forget_finished              *)

\* Mutant: futures are submitted under indices counted from zero.
StartJobFromZero(j) ==
  /\ active' = active \cup {j}
  /\ futures' = futures \cup {j}
  /\ fifo' = fifo \o [i \in 1..size[j] |-> <<j, i - 1>>]
  /\ pc' = [t \in Tasks |-> IF t \in TasksOf(j) THEN "queued" ELSE pc[t]]

StartJob(j) ==
  /\ active' = active \cup {j}
  /\ futures' = futures \cup {j}
  /\ fifo' = fifo \o [i \in 1..size[j] |-> <<j, i>>]
  /\ pc' = [t \in Tasks |-> IF t \in TasksOf(j) THEN "queued" ELSE pc[t]]

\* Mutant: the comparison with max_active_jobs is off by one.
MoreToStartTooFew(waiting, running) ==
  /\ ~Closed
  /\ waiting # <<>>
  /\ Cardinality(running) + 1 < MaxActive

(* The condition of the dispatch loop.                                     *)
MoreToStart(waiting, running) ==
  /\ ~Closed
  /\ waiting # <<>>
  /\ Cardinality(running) < MaxActive

(* A thread enters or stays in the dispatch loop, or lets go of the lock.  *)
LoopOrRelease(thread) ==
  lock' = IF MoreToStart(pending', active') THEN thread ELSE None

AllDone(j, steps) == \A t \in TasksOf(j) : steps[t] \in DoneSteps

\* Mutant: the job's futures are dropped but its slot is not given back.
ForgetKeepingSlot(j, thread) ==
  IF j \in futures /\ AllDone(j, pc')
    THEN /\ futures' = futures \ {j}
         /\ UNCHANGED active
         /\ LoopOrRelease(thread)
    ELSE UNCHANGED <<futures, active, lock>>

(* The completion callback: the last future of a job gives back its slot.  *)
ForgetFinished(j, thread) ==
  IF j \in futures /\ AllDone(j, pc')
    THEN /\ futures' = futures \ {j}
         /\ active' = active \ {j}
         /\ LoopOrRelease(thread)
    ELSE UNCHANGED <<futures, active, lock>>

(* One iteration of the dispatch loop.                                     *)
Dispatch ==
  LET j == Head(pending)
  IN /\ lock # None
     /\ MoreToStart(pending, active)
     /\ Touch
     /\ pending' = Tail(pending)
     /\ IF Startable(j) THEN StartJob(j)
        ELSE UNCHANGED <<active, futures, fifo, pc>>
     /\ LoopOrRelease(lock)
     /\ UNCHANGED <<answer, proc, registered, httpVars, closeVars>>

-----------------------------------------------------------------------------
(* POST: reserve in the store, then hand over to the scheduler             *)

Submit(j, n, sid, fp) ==
  /\ shutdown # "stopped"
  /\ Reserve(j, n, sid, fp)
  /\ submitting' = submitting \cup {j}
  /\ UNCHANGED <<schedVars, workerVars, rejected, handler, closeVars, lock>>

SchedulerSubmit(j) ==
  /\ LockFree
  /\ j \in submitting
  /\ submitting' = submitting \ {j}
  /\ \/ /\ Closed
        /\ rejected' = rejected \cup {j}
        /\ UNCHANGED <<schedVars, pc>>
     \/ /\ ~Closed
        /\ Cardinality(active) >= MaxActive
        /\ pending' = Append(pending, j)
        /\ UNCHANGED <<active, futures, fifo, pc, rejected>>
     \/ /\ ~Closed
        /\ Cardinality(active) < MaxActive
        /\ StartJob(j)
        /\ UNCHANGED <<pending, rejected>>
  /\ UNCHANGED <<storeVars, answer, proc, registered, handler, closeVars,
                 lock>>

(* The handler cancels the job it reserved when the scheduler is closed.   *)
CancelRejected(j) ==
  /\ j \in rejected
  /\ CancelJob(j) \/ (~CanCancel(j) /\ Touch)
  /\ rejected' = rejected \ {j}
  /\ UNCHANGED <<schedVars, workerVars, submitting, handler, closeVars, lock>>

(* Status and outcome requests, refused and repeated submissions.          *)
ClientRead == Touch /\ UNCHANGED serviceVars

-----------------------------------------------------------------------------
(* A worker thread: the executor, _run_model and the completion callback   *)

Goto(t, step) == pc' = [pc EXCEPT ![t] = step]

Busy(t) == pc[t] \in RunningSteps \cup {"finished"} \/ lock = t

(* The executor works its queue in order and skips cancelled futures.      *)
Pick(t) ==
  /\ Cardinality({u \in Tasks : Busy(u)}) < MaxWorkers
  /\ \E k \in 1..Len(fifo) :
       /\ fifo[k] = t
       /\ pc[t] = "queued"
       /\ \A m \in 1..(k - 1) : pc[fifo[m]] = "cancelled"
       /\ fifo' = SubSeq(fifo, k + 1, Len(fifo))
  /\ Goto(t, "starting")
  /\ UNCHANGED <<storeVars, active, futures, pending, answer, proc,
                 registered, httpVars, closeVars, lock>>

\* Mutant: the model runs without being marked as started.
BeginModelUnmarked(t) ==
  /\ pc[t] = "starting"
  /\ Touch /\ Goto(t, "spawning")
  /\ UNCHANGED <<schedVars, answer, proc, registered, httpVars, closeVars,
                 lock>>

BeginModel(t) ==
  /\ pc[t] = "starting"
  /\ \/ StartModel(t) /\ Goto(t, "spawning")
     \/ ~CanStart(t) /\ Touch /\ Goto(t, "returning")
  /\ UNCHANGED <<schedVars, answer, proc, registered, httpVars, closeVars,
                 lock>>

Spawn(t) ==
  /\ pc[t] = "spawning"
  /\ \/ /\ proc' = [proc EXCEPT ![t] = "live"]
        /\ Goto(t, "registering")
     \/ Goto(t, "cleanup") /\ UNCHANGED proc
  /\ UNCHANGED <<storeVars, schedVars, answer, registered, httpVars,
                 closeVars, lock>>

(* The process is made visible to cancel and the status is read under the  *)
(* lock; a job that is cancelled or gone has its process terminated here.  *)
Register(t) ==
  /\ pc[t] = "registering"
  /\ LockFree
  /\ Touch
  /\ registered' = registered \cup {t}
  /\ \/ Startable(t[1]) /\ Goto(t, "waiting") /\ UNCHANGED proc
     \/ /\ Cancelled(t[1])
        /\ proc' = [proc EXCEPT ![t] = "signalled"]
        /\ Goto(t, "cleanup")
     \/ /\ t[1] \notin Kept
        /\ proc' = [proc EXCEPT ![t] = "signalled"]
        /\ Goto(t, "stopping")
  /\ UNCHANGED <<schedVars, answer, httpVars, closeVars, lock>>

(* communicate returns: a result, or whatever counts as an error.          *)
Communicate(t) ==
  /\ pc[t] = "waiting"
  /\ \E r \in Results : answer' = [answer EXCEPT ![t] = r]
  /\ proc' = [proc EXCEPT ![t] = "dead"]
  /\ Goto(t, "cleanup")
  /\ UNCHANGED <<storeVars, schedVars, registered, httpVars, closeVars, lock>>

Timeout(t) ==
  /\ pc[t] = "waiting"
  /\ proc' = [proc EXCEPT ![t] = "signalled"]
  /\ Goto(t, "stopping")
  /\ UNCHANGED <<storeVars, schedVars, answer, registered, httpVars,
                 closeVars, lock>>

(* _stop_process waits for the process, killing it in the end.             *)
StopProcess(t) ==
  /\ \/ pc[t] = "stopping" /\ Goto(t, "cleanup")
     \/ pc[t] = "reaping" /\ Goto(t, "reporting")
  /\ proc' = [proc EXCEPT ![t] = "dead"]
  /\ UNCHANGED <<storeVars, schedVars, answer, registered, httpVars,
                 closeVars, lock>>

\* Mutant: a process already told to terminate is not waited for.
NeedsReapingIfLive(t) == proc[t] = "live"
NeedsReaping(t) == proc[t] = "signalled"

Unregister(t) ==
  /\ pc[t] = "cleanup"
  /\ LockFree
  /\ registered' = registered \ {t}
  /\ Goto(t, IF NeedsReaping(t) THEN "reaping" ELSE "reporting")
  /\ UNCHANGED <<storeVars, schedVars, answer, proc, httpVars, closeVars,
                 lock>>

Report(t) ==
  /\ pc[t] = "reporting"
  /\ FinishModel(t, answer[t]) \/ (~StillOpen(t) /\ Touch)
  /\ Goto(t, "returning")
  /\ UNCHANGED <<schedVars, answer, proc, registered, httpVars, closeVars,
                 lock>>

(* The executor marks the future finished, then runs its callback.         *)
Return(t) ==
  /\ pc[t] = "returning"
  /\ Goto(t, "finished")
  /\ UNCHANGED <<storeVars, schedVars, answer, proc, registered, httpVars,
                 closeVars, lock>>

Callback(t) ==
  /\ pc[t] = "finished"
  /\ LockFree
  /\ Goto(t, "done")
  /\ UNCHANGED pending
  /\ ForgetFinished(t[1], t)
  /\ UNCHANGED <<storeVars, fifo, answer, proc, registered, httpVars,
                 closeVars>>

-----------------------------------------------------------------------------
(* ModelScheduler.cancel, run by a handler for one job at a time           *)

(* store.cancel, outside the scheduler's lock.                             *)
StoreCancel(h, j) ==
  /\ handler[h].step = "idle"
  /\ j \in Kept
  /\ CancelJob(j) \/ (~CanCancel(j) /\ Touch)
  /\ handler' = [handler EXCEPT ![h] =
                    [step |-> "scheduler", job |-> j, procs |-> {}]]
  /\ UNCHANGED <<schedVars, workerVars, submitting, rejected, shutdown, lock>>

ClientCancel(h, j) ==
  /\ shutdown # "stopped"
  /\ StoreCancel(h, j)
  /\ UNCHANGED toCancel

(* A job waits at most once, so filtering it out removes one place.        *)
Without(queue, j) ==
  IF \E k \in 1..Len(queue) : queue[k] = j
    THEN LET at == CHOOSE k \in 1..Len(queue) : queue[k] = j
         IN [k \in 1..(Len(queue) - 1) |->
               IF k < at THEN queue[k] ELSE queue[k + 1]]
    ELSE queue

(* Futures still queued are cancelled, each running the callback in this   *)
(* thread; the processes registered by now are remembered.                 *)
CancelFutures(h) ==
  LET j == handler[h].job
      queued == {t \in TasksOf(j) : j \in futures /\ pc[t] = "queued"}
  IN /\ handler[h].step = "scheduler"
     /\ LockFree
     /\ pending' = Without(pending, j)
     /\ pc' = [t \in Tasks |-> IF t \in queued THEN "cancelled" ELSE pc[t]]
     /\ IF queued # {} THEN ForgetFinished(j, h)
        ELSE UNCHANGED <<futures, active, lock>>
     /\ handler' = [handler EXCEPT ![h] =
                       [step |-> "signal", job |-> j,
                        procs |-> {t \in registered : t[1] = j}]]
     /\ UNCHANGED <<storeVars, fifo, answer, proc, registered, submitting,
                    rejected, closeVars>>

(* poll and terminate, one process after the other, without the lock.      *)
SignalProcess(h, t) ==
  /\ handler[h].step = "signal"
  /\ lock # h
  /\ t \in handler[h].procs
  /\ handler' = [handler EXCEPT ![h].procs = @ \ {t}]
  /\ proc' = [proc EXCEPT ![t] = IF @ = "live" THEN "signalled" ELSE @]
  /\ UNCHANGED <<storeVars, schedVars, pc, answer, registered, submitting,
                 rejected, closeVars, lock>>

FinishCancel(h) ==
  /\ handler[h].step = "signal"
  /\ lock # h
  /\ handler[h].procs = {}
  /\ handler' = [handler EXCEPT ![h] = IdleHandler]
  /\ UNCHANGED <<storeVars, schedVars, workerVars, submitting, rejected,
                 closeVars, lock>>

-----------------------------------------------------------------------------
(* ModelScheduler.close, run once when the application shuts down          *)

Outstanding == futures \cup {pending[k] : k \in 1..Len(pending)}

BeginClose ==
  /\ LockFree
  /\ shutdown = "open"
  /\ shutdown' = "closing"
  /\ toCancel' = Outstanding
  /\ UNCHANGED <<storeVars, schedVars, workerVars, httpVars, lock>>

(* The next job of the list; one the store no longer has is passed over.   *)
CloseCancel(j) ==
  /\ shutdown = "closing"
  /\ handler[Closer].step = "idle"
  /\ j \in toCancel
  /\ toCancel' = toCancel \ {j}
  /\ \/ StoreCancel(Closer, j)
     \/ /\ j \notin Kept
        /\ Touch
        /\ UNCHANGED <<schedVars, workerVars, httpVars, shutdown, lock>>

(* executor.shutdown cancels what is still queued, callbacks included; with *)
(* the scheduler closed these dispatch nothing.                            *)
ShutdownExecutor ==
  LET queued == {t \in Tasks : pc[t] = "queued"}
  IN /\ shutdown = "closing"
     /\ toCancel = {}
     /\ handler[Closer].step = "idle"
     /\ LockFree
     /\ shutdown' = "joining"
     /\ fifo' = <<>>
     /\ pc' = [t \in Tasks |-> IF t \in queued THEN "cancelled" ELSE pc[t]]
     /\ LET over == {j \in futures : AllDone(j, pc') /\
                                     TasksOf(j) \cap queued # {}}
        IN /\ futures' = futures \ over
           /\ active' = active \ over
     /\ UNCHANGED <<storeVars, pending, answer, proc, registered, httpVars,
                    toCancel, lock>>

Join ==
  /\ shutdown = "joining"
  /\ \A t \in Tasks : ~Busy(t)
  /\ shutdown' = "stopped"
  /\ UNCHANGED <<storeVars, schedVars, workerVars, httpVars, toCancel, lock>>

-----------------------------------------------------------------------------
WorkerStep(t) ==
  \/ BeginModel(t) \/ Spawn(t) \/ Register(t) \/ Communicate(t)
  \/ Timeout(t) \/ StopProcess(t) \/ Unregister(t) \/ Report(t)
  \/ Return(t) \/ Callback(t)

SubmitStep(j) == SchedulerSubmit(j) \/ CancelRejected(j)

HandlerStep(h) ==
  CancelFutures(h) \/ FinishCancel(h) \/ \E t \in Tasks : SignalProcess(h, t)

CloseStep == (\E j \in Jobs : CloseCancel(j)) \/ ShutdownExecutor \/ Join

Next ==
  \/ \E j \in Jobs, n \in Models, sid \in SubmissionIds \cup {None},
        fp \in Fingerprints : Submit(j, n, sid, fp)
  \/ \E j \in Jobs : SubmitStep(j)
  \/ \E t \in Tasks : Pick(t) \/ WorkerStep(t)
  \/ Dispatch
  \/ \E h \in Clients, j \in Jobs : ClientCancel(h, j)
  \/ \E h \in Handlers : HandlerStep(h)
  \/ BeginClose
  \/ CloseStep
  \/ ClientRead
  \/ \E j \in Jobs : Elapse(j) /\ UNCHANGED serviceVars

Spec == Init /\ [][Next]_vars

(* Threads that have work keep running, and communicate is given a timeout *)
(* so a worker step out of "waiting" always comes.  Requests, cancellation,*)
(* expiry and shutdown are never forced to happen.                         *)
Fairness ==
  /\ \A t \in Tasks : WF_vars(Pick(t)) /\ WF_vars(WorkerStep(t))
  /\ WF_vars(Dispatch)
  /\ \A j \in Jobs : WF_vars(SubmitStep(j))
  /\ \A h \in Handlers : WF_vars(HandlerStep(h))
  /\ WF_vars(CloseStep)

FairSpec == Spec /\ Fairness

-----------------------------------------------------------------------------
(* No wake-up is lost: while jobs wait and the scheduler is open, every    *)
(* active slot is taken.  A slot that is freed by the last callback, by a  *)
(* cancellation of queued futures or by skipping a cancelled job must have *)
(* been offered to the waiting jobs before the lock is released.           *)
WorkConserving ==
  (LockFree /\ ~Closed /\ pending # <<>>) => Cardinality(active) >= MaxActive

(* max_active_jobs bounds the jobs in execution at all times.              *)
SlotsBounded == Cardinality(active) <= MaxActive

(* A job is in one place of the scheduler only: being submitted, waiting   *)
(* once, or active with its futures; a second start would run every model  *)
(* of it twice.                                                            *)
ScheduledOnce ==
  /\ active = futures
  /\ \A k, m \in 1..Len(pending) : pending[k] = pending[m] => k = m
  /\ \A k \in 1..Len(pending) :
       pending[k] \notin active \cup submitting
  /\ \A j \in submitting \cup rejected \cup {pending[k] : k \in 1..Len(pending)} :
       \A t \in TasksOf(j) : pc[t] = "none"

(* A cancellation misses no process: once a job is cancelled, each of its  *)
(* processes that runs unsignalled is either about to be checked by the    *)
(* thread that spawned it, or in reach of a handler still cancelling.      *)
CancelReachesProcesses ==
  \A t \in Tasks :
    (status[t[1]] = "cancelled" /\ proc[t] = "live") =>
      \/ pc[t] = "registering"
      \/ \E h \in Handlers :
           /\ handler[h].job = t[1]
           /\ handler[h].step = "scheduler" \/ t \in handler[h].procs

(* When close returns nothing runs and nothing is left undecided, except   *)
(* jobs whose submission is about to be refused and cancelled.             *)
StoppedClean ==
  shutdown = "stopped" =>
    /\ futures = {}
    /\ \A t \in Tasks : proc[t] \in {"none", "dead"}
    /\ \A j \in present : terminal[j] \/ j \in submitting \cup rejected

(* The scheduler calls the store only as its own specification allows.     *)
UsesStore == StoreSpec

(* Every accepted job ends, whatever waits before it and however its       *)
(* models fail.                                                            *)
EveryJobEnds == \A j \in Jobs : size[j] > 0 ~> terminal[j]

(* close returns.                                                          *)
CloseReturns == Closed ~> shutdown = "stopped"

=============================================================================
