# Value stream simulator: formal verification

The repository simulates software value streams. It contains a simulation
kernel on SimPy, a service that runs simulation jobs in worker processes behind
an HTTP interface, a client library, and a web application that compares
scenarios through that service. This directory holds TLA+ models of its
concurrent and stateful parts, their TLC configurations and TLAPS proofs.

Source paths below are relative to `src/src/value_stream/`.

## Inventory

| Component | State | Operations | Talks to |
|---|---|---|---|
| Job store, `service/job_store.py` | jobs with model states, status, outcome log, byte count, end time; submission identifiers | create, reserve, status, page, start_model, finish_model, cancel; each prunes expired jobs first | called by HTTP handlers and by the scheduler's threads, under its own lock |
| Scheduler, `service/scheduler.py` | active jobs, waiting jobs, futures, processes, closed flag | submit, cancel, close; per model `_run_model`; completion callback `_forget_finished` | job store, thread pool, worker processes, under a reentrant lock |
| Service HTTP interface, `service/app.py` | none | submit, status, outcomes, cancel, shutdown | store and scheduler, from a thread pool |
| Worker process, `service/worker.py`, `service/codec.py` | one request | decode, simulate, encode | standard input and output of its parent |
| Workspace store, `app/storage.py` | workspaces, runs, result cache with byte reservations | create, delete, save editor, preview, register, retain, finish, comparison, pruning | called by routes and coordinator |
| Run coordinator, `app/coordinator.py` | one asyncio task per running run | start_run, execute, cancel_run, resume, close | workspace store, gateway |
| Gateway, `app/gateway.py` | HTTP connection | ready, submit, status, outcomes, cancel | the service; errors become `AppError` codes |
| Generation, metrics, insights, exports, `app/` | none | pure functions | workspace store, routes |
| Client, `client/simulation_runner.py`, `client/web/` | local service of the process with its owner count and lock; per execution a cursor, results, errors, deadline | execute (submit, then poll until terminal), acquire, release, close, clean-up at exit | the service |
| Simulation driver, `simulation/` | one SimPy environment | execute: start the workflow and the support generator, run until the alarm | workflow, generator |
| Workflow, `workflow/` | task stores with an alarm, operators' queues and triggers, pools of resources with owners of tasks | put, get, monitor, timer, executor, request, release, start, stop | SimPy's event queue, resources |
| Tasks, `task/` | history, work done, rework mark | start, end, resume, terminate, do_work, route | stores and resources |
| Resources, `resources/` | the process of their work, stack of suspended work | operate, interrupt, pause | tasks, routers |
| Task generator, `factory/task_generator.py` | limit | puts support tasks at an interval | pending store |
| Browser interface, `app/frontend/` | per tab: workspace shown, editors, preview, interactive change pending or being sent | preview, run, cancel, comparison, reload, interactive changes; polls every second | the application's routes |

### What is hard in this code

* **Service.** HTTP threads, executor threads, completion callbacks and the
  closing thread share the scheduler and the store under two locks. Callbacks
  run in whichever thread completes or cancels a future, and dispatch waiting
  jobs from there. Processes exist before they are registered and outlive their
  cancellation. Jobs expire under everybody.
* **Application.** The coordinator is single threaded but suspends at every
  gateway call; requests that cancel, supersede, edit, compare and delete fall
  in between. Calls fail, are repeated and are answered late. A byte budget is
  shared by reservations of running runs and a cache that several runs
  reference.
* **Browser.** Nothing in a tab waits: requests of buttons, of the interactive
  mode and of the poll overlap, and each continues with what it finds when its
  answer arrives. Several tabs edit one workspace under one revision.
* **Client.** Runners in several threads share one service of the process,
  which is started under a lock and stopped outside it; finalizers and the exit
  of the process release it too. The outcomes and the status of a batch are read
  in separate requests.
* **Kernel.** About ten SimPy processes per simulation wait for each other's
  events, and at equal simulated times the order in which events were scheduled
  decides what a process sees. Support work interrupts and suspends other work
  on a stack; rework bypasses the pools; a store stops the simulation through
  an alarm.

### What makes each component correct

* Job store: one answer per model, status summarises the models, byte limits,
  a submission identifier names one job, terminal status only with a complete
  log.
* Scheduler: no idle slot while jobs wait, at most `max_active_jobs` active,
  every model started at most once, no process missed by a cancellation,
  nothing left at shutdown, every job ends.
* Workspace store: cache and reservations within the budget, results that a
  comparison shows are never evicted, baseline and latest comparison consistent.
* Coordinator: outcomes recorded once, at most one execution per run, a
  terminal run has all its outcomes, a run pauses or ends when the service fails.
* Client: the local service runs exactly while it has owners, what `execute`
  returns or raises is what became of the batch, and every execution ends.
* Browser: a manual run executes what was previewed, interactive changes run in
  the order in which they were made, none stays pending, no save replaces what
  its editors never showed.
* Kernel: a task is in one place, the one its history names; triggers are heard;
  a pool's resources are held once; suspended work is signalled; nothing raises;
  the run returns exactly when everything is delivered.

## Modules

| Module | Content |
|---|---|
| `JobContract` | what a client may rely on: acceptance, an append-only log, the announcement of the end, forgetting |
| `JobStore` | the store; implements `JobContract` |
| `JobService` | extends `JobStore` with HTTP handlers, scheduler, executor, processes and shutdown; implements `JobStore` |
| `JobService_proofs` | theorems: the store under any caller; the service uses it as specified, fills its slots, schedules jobs once, reaches what it cancels, stops clean |
| `WorkspaceStore` | workspaces, run records, result cache and byte budget of the application |
| `WorkspaceStore_proofs` | theorems about the workspace store |
| `RunCoordinator` | extends `WorkspaceStore` with routes, executions, gateway calls and their failures, close; its service is an instance of `JobContract`; implements `WorkspaceStore` |
| `RunCoordinator_proofs` | theorems about the coordinator, with the service and the store it uses |
| `SimEvents` | SimPy's event queue, as the kernel uses it (external) |
| `TaskStores` | extends `SimEvents` with the stores, the histories of tasks and the alarm |
| `Resources` | extends `TaskStores` with what a resource does: operate, interrupt, pause, resume |
| `TaskFlow` | what the workflow promises of each task and of the end of the run |
| `SdlcWorkflow` | extends `Resources` with the workflow, the generator, operators and pools: a whole simulation; implements `TaskFlow` |
| `SdlcKernel_proofs` | the invariant of a simulation, lemmas about the agenda, and the steps of workflow, operators, pools and resources that keep it |
| `SdlcWorkflow_proofs` | the remaining steps and the theorems about the kernel |
| `Studio` | the browser's tabs and the revision, digest and interactive guards of the application that decide about their requests |
| `ClientRunner` | runners, the gateway as another owner, the local service of a process, and executions over a `JobContract` |
| `Studio_proofs`, `ClientRunner_proofs` | theorems about the browser and about the client |
| `FiniteSums` | lemmas about sums over finite sets, for the proofs about bytes and work |
| `MCJobStore`, `MCJobService`, `MCWorkspaceStore`, `MCRunCoordinator`, `MCSdlcWorkflow`, `MCStudio`, `MCClientRunner` | instances for TLC |

The two halves meet in `JobContract`. `JobStore` implements it, `JobService`
implements `JobStore`, `RunCoordinator` implements `WorkspaceStore` (each is
checked and proved), and the service that `RunCoordinator` and `ClientRunner`
talk to takes only steps of the contract: a client needs to know no more about
the service than that.

### JobStore

Each method holds the store's lock from its first line to its last, so each is
one action. `Prune` is the `_prune` every method starts with: a job whose time
to live has elapsed (`overdue`, set by the clock action `Elapse`) is gone for
the operation that notices. `Touch` stands for every call that changes nothing
else: reads, refusals, calls on unknown jobs. `outcomes[j]` is the log; a cursor
is a position in it. Sizes of results are small numbers; an error has none.

### JobService

`pc[t]` is the place of one model's future: `none`, `queued` in the executor,
then the steps of `_run_model`, `finished` (the future is done, its callback is
not) and `done`; `cancelled` is a future that never ran.

* Critical sections of the scheduler's lock are single actions guarded by
  `LockFree`. The dispatch loop of `_forget_finished` reads the store once per
  waiting job, so each iteration is an action (`Dispatch`) and `lock` names the
  thread inside.
* `future.cancel()` runs the callback in the cancelling thread: `CancelFutures`
  and `ShutdownExecutor` contain `ForgetFinished`.
* `_start_job` submits its futures and then registers their callbacks while it
  holds the lock. A worker that is faster than this loop would have its
  callback run by the submitting thread; the model lets the callback wait for
  the lock instead, which gives the same state when the lock is released.
* `Register` is the section in which a process becomes visible and the job's
  status is read. The job may be cancelled (terminate, return) or expired
  (`JobNotFound`, handled like any exception).
* `Communicate` covers every end of the process: a result, an error, a bad exit
  code, invalid output. `Timeout` is the time limit, and any exception with the
  process still alive, which takes the same path.
* A handler (a client thread, or the closer) runs `cancel`: the store's part,
  the locked part, then signals for a snapshot of processes, one at a time.

### WorkspaceStore

The application runs on one event loop and the store never suspends, so every
method of `InMemoryWorkspaceStore` is one action: `Create`, `DeleteWorkspace`,
`SaveEditor`, `DeleteTaskSet`, `Register`, `Answer` (`retain_result` and the
verdict that goes with it), `Finish`, `Pin`, `Unpin`, `Baseline`, `Supersede`
and `DeleteComparison`. Any caller may take them in any order;
`RunCoordinator` restricts the order.

* A run has a number, in the order of registration. A scenario of a run is known
  by its cache key, a pair of a task set and a configuration: the key in the
  code is a digest of everything a result depends on. Two equal scenarios in one
  run are one key.
* `retained` are the results a run shows; `missing` those it had to ask the
  service for; `keys` minus `missing` were in the cache when it was registered
  and are collected when its execution begins. `reservation` is the memory kept
  for results still to come and shrinks as they do.
* `Register` prunes history and cache before it decides on admission, and what
  was pruned stays pruned if the run is refused. Which of the runs and results
  that may go does go is a choice: the code takes the oldest, which only narrows
  it.
* A request with an old editor revision, or a repetition of a request already
  served, changes nothing and has no action. What these guards are for, and
  whether they suffice, is the subject of `Studio`.

### RunCoordinator

`exec` says at which suspension point an execution of a run stands: one of the
gateway's calls, the pause between polls, the cancellation in the exception
handler, or the end before its callback. An action is what happens between two
suspensions. The loop over the outcomes of a page does not suspend but is
as long as the page, so `CompleteOne` takes one outcome and `batch` keeps the
event loop until `BatchDone`.

* An execution that paused may still await its callback when a resume launches
  the next one: a run has two slots. `tasks[r]` is `self.tasks`. That there is
  always a free slot is part of `CoordinatorTypeOK`: with none, `Launch` could
  not choose and `tasks` would keep the wrong value.
* A call of the gateway has its effect in the step that resumes the execution:
  answered, unreachable (with or without the request having arrived), refused,
  or the job unknown. Nothing the event loop does meanwhile touches the service,
  and the service's own steps fall before or after.
* The submission identifier is derived from the run, so the service has one job
  per run: a repeated submission finds it, unless it expired or the service
  restarted (`ServiceForgets`, `ServiceRestarts`). The service steps on behalf of
  a running run only: nobody asks for the others.
* `Unavailable` stands for the retry window. The window is measured in time; the
  model counts failures and lets the window be over at any failure but the first,
  and at `MaxFailures` at the latest.
* The semaphore that lets one request of the gateway through at a time only
  delays calls and is left out.
* `close` cancels known jobs for a limited time and then stops the executions
  wherever they are (`CloseCancel`, `FinishClose`).

### Studio

A tab is one thread that never waits. An action of the user sends a request
(`Act`, `Flush`) and `msgs[t]` are the requests under way. The application
serves one at a time and in any order (`Serve`); the step that serves one also
runs what the tab does with the answer, up to the `load` most handlers end with,
which is a request of its own (`Reloaded`). So the answers of two requests of a
tab arrive in the order in which they were served, and that they overtake each
other on the way back is left out. `Fail` is a connection that fails before the
request is served, or whose answer is lost after it took effect.

* `shown[t]` is `workspaceRef`, reduced to what a tab uses (`View`). Polls are
  atomic: that polls and loads may overtake each other is left out, so a tab
  shows an old workspace as long as it likes but never an older one than before.
* Only the buttons of preview and manual run are disabled while `busy`; the
  others may be pressed again, so several actions overlap and the first to end
  clears `busy`.
* The editors hold a task set and definitions of models (`Inputs`). The digest
  of a preview is the revision and the inputs it was made of. A comparison
  belongs to its task set: another one that is saved starts a new context, and
  choosing a baseline brings back its task set, not its definitions. The tab
  lists the comparisons of the task set it shows (`Listed`); a tab that shows an
  old workspace may still ask for one of another. The change that an interactive
  run makes to the definitions of its source is left out.
* `base[t]` is the revision that the editors come from. The code does not keep
  it; `StaleEditsRefused` needs it to say what stale means.
* Runs are reduced to what the guards see: running, cancelling or over, with
  results or without. `FinishRun` is the coordinator's and the service's work.
* `recent` is `min_interactive_seconds` since the last registration. The tab's
  own pause of a second between two sends only delays them.
* `pressed` numbers the commits of a tab in their order, which is the order that
  `ChangesInOrder` is about.
* An initial state is a new workspace or one whose first run is over and is the
  baseline, as a tab finds it that opens the workspace later.

### ClientRunner

`at[o]` is where an owner stands between its creation and its close, `call[r]`
where the execution of a runner stands in the loop of `execute`.

* `acquire_local_service` starts the service inside the lock (`AcquireStarts`
  to `StartReturns` or `AbandonReturns`, with `lock = o`). `release` decides
  inside the lock and stops outside (`Release`, `Stop`, `JoinReturns`), when
  another owner may already start the next service.
* The lock is reentrant and a finalizer may run in the thread that holds it.
  Then either there are no owners yet and it returns at once, or it runs before
  or after the assignment of the count, which it cannot split: the same as a
  release just before or after the section.
* `Close` is a call by any thread, also under a running execution, or the
  finalizer of a dropped runner. At exit finalizers and `_cleanup` run in either
  order.
* A page and the decision on it, a status and the decision on it, are one step
  each: what the service does meanwhile falls before or after.
* A batch is executed once per runner, and the service takes steps for it only
  while somebody waits: answers, a cancellation by somebody else, forgetting.
  A server that crashes while it is up is not modelled: nothing in the code
  looks for it, and an execution under it ends as in `RequestFails`.
* A configured address is an owner's own choice and needs no local service.

### SimEvents, TaskStores, Resources, SdlcWorkflow

The kernel is one thread; its concurrency is that of the processes SimPy
resumes, event after event. `agenda` is SimPy's queue of scheduled events, in
the order of their times and, at equal times, of their scheduling. An action is
the processing of one event: its callbacks and whatever the processes it
resumes do until they wait again. The first step of a process and an
interruption are urgent events, which come before all others; they belong to
the action that causes them. So the model has no interleaving beyond the real
one: what is nondeterministic are the parameters, the failures of tests and
deployments and the developer a support task is given to.

| Processes in the code | Events (`kind`) | Actions |
|---|---|---|
| `SDLCWorkflow.start` | `stored` by the workflow, `alarm` | `SeedNext`, `StartOperators`, `AlarmRings` |
| `TaskGenerator.start` | `arrival`, `stored` by the generator | `SupportArrives`, `GeneratorContinues` |
| `ResourceOperator._monitor` | `got` | `MonitorCollects`, `MonitorStopped` |
| `ResourceOperator._timer` | `timer` | `TimerTicks` |
| `ResourceOperator._executor` | `trigger` | `ExecutorStarts` |
| `ResourceOperator._execute` | `assigned`, `operated` | `ResourceAssigned`, `JobEnds` |
| the pool, a SimPy store | `returned` | `PoolServes` |
| `Resource.operate` | `worked`, `resumed`, `stored` by a job | `WorkEnds`, `InterruptedPauses`, `WorkResumes`, `RouteNext`, `OperateEnds` |
| `Resource._pause` | `wake` | `PauseEnds` |
| `do_work` | `finish` | `DoWorkEnds` |
| `env.run` | `over` | `RunEnds` |

* Times are relative: the head of the agenda says how long it is until it
  happens, and taking it moves the others closer. Absolute times, and with them
  the values of tasks, are left out.
* A history is known by its last entry, on which all checks of `TaskHistory`
  depend but the one on decreasing times. An operation that raises leaves
  `Invalid`; other exceptions are collected in `raised`. Nothing happens after
  one: an exception that no process handles ends `env.run`.
* A call of `operate` is a job, known by the first task of its batch. `at` is
  where it waits: for a resource, for its work, for a signal, for the end of its
  pause, for a put. `process[r]` is the process the resource has started last,
  `live` until its generator returns, `ended` until its event is processed.
  `_process.value` is read from there, so a job may read the result of another.
* `left` is the remaining work of a task (`remaining_work`); an interrupted
  developer has done what was not still to come.
* Failures of tests and deployments are choices, at most `MaxFailures` in a run
  and only in the stages of `setting.failing`. Support tasks are the finite
  sequence `Requests`, the generator's `limit`. A developer has efficiency 1.
  A pool without limit behaves like one as large as the number of tasks and has
  no constant of its own.

`TaskFlow` is the workflow without resources, operators and time: a task moves
along the states its history may legally name, leaves development with no work
left, passes its test with no work left, and the run returns in a step after
which every development task is delivered. In the refinement the state of a task
is the state of its last history entry.

## Runs

| Run | Instance | Question |
|---|---|---|
| `store` | 3 jobs of 1 to 2 models, any caller | Does the store keep its own promises and implement the contract? |
| `dispatch` | 2 jobs of 1 model, 1 slot, 1 worker, 1 client, close, expiry; fairness | Are slots, queue and processes consistent? Does the scheduler use the store as specified? Do jobs end and close return? |
| `cancel` | 1 job of 1 to 2 models, 2 workers, 2 clients, close, expiry | Does a cancellation reach every process? Is everything over when close returns? |
| `workspace` | 2 workspaces, 2 task sets in 2 configurations, 3 runs, 1 retained, 2 active, memory for 2 results and half a run | Does the memory stay in its budget, and no shown result or running run get lost? Do editor, comparisons and deletions leave no dangling reference? |
| `execution` | 1 run of 2 scenarios that together exceed a run's memory; failures, restart, expiry, close; fairness | Do executions never overlap? Does the final state tell what became of the scenarios? Does every run get over or pause? |
| `sequence` | 2 runs of 1 scenario, by hand or interactive; failures | Is every running run served, and every paused one? Do runs that are over stay as they are? Is the store used as checked? |
| `simulation` | 2 tasks, 3 support requests, 2 developers, 1 tester, 2 tools; tests fail, deployments fail in windows; fairness | Are tasks handed on without loss? Is every resource held by one job of its pool? When does a resource have two works, and when does a simulation raise? Does every other one return, exactly when all is delivered? |
| `runner` | a runner with a batch of 1 to 2 models and the gateway, 2 local services; fairness | Is an owner's service up and the current one? Is what `execute` tells true? Do executions and services end? |
| `studio` | 1 tab, 3 presses or commits, which overlap; fairness | Do manual runs execute what was previewed? Do interactive changes run in order, and none stay pending? |
| `overwrite` | 2 tabs, 2 presses | violated: see Findings |
| `pool` | 2 tasks, 1 of each resource, deployments fail | violated: see Findings |
| `raises` | 1 task, 3 support requests, 2 developers | violated: see Findings |

Bounds. In `store` the sizes 1 to 3 meet a model limit of 2, a job limit of 3
and a store limit of 4, so each limit refuses alone; two retained jobs are the
maximum, so a third needs an expiry. `dispatch` has one job in the slot and one
that waits, which may be cancelled or gone when its turn comes, for each
position of the closing thread; that the scheduler passes over several such jobs
in one callback needs three jobs and rests on the proof of `SlotsAreUsed`. Two
models on two workers are the smallest case in which one model of a cancelled
job is queued while the other is anywhere in `_run_model`; two handlers and the
closer may cancel the same job at once. `MayExpire` restricts which jobs expire.

In `workspace` the results have 2 and 3 bytes, the memory 6 and a run 5: the
reservation of a run of both is the run limit and that of a run of one is the
model limit; two runs fit only if they share; two workspaces are needed for a
result that one shows and another evicts, two task sets for a comparison that
leaves its context. One retained run means that the second registration already
makes room, where pinned runs, the baseline and the latest comparison must be
passed over; that several of them meet more room to make needs a fourth run and
rests on the proofs of `References` and `Eviction`. In `execution` the second result of a run is refused
in the middle of a page; `MaxFailures` is 2, so a failure may be retried, reset
by a complete page or exhaust the window. A second run adds the interactive
request that supersedes, cached results collected without the service, and a
record deleted while its last execution awaits its callback; it is checked with
one scenario, without restart, expiry (`MayForget`) and close, in `sequence`. Runs of the coordinator
do not check deadlock: a behaviour ends when the bounds on runs and restarts are
used up.

In the kernel's runs every combination of the parameters in `Settings` is an
initial state: story points 0 to 2, intervals 1 to 2, support that takes 0 or 2
are small so that events coincide, which is where the order of scheduling
matters. In `simulation` deployment is continuous and the tests fail, where
tests and deployments take 1 and 2 or neither takes time, or happens in windows
of 1, where tests and deployments take 1 and 2 and both fail. Three requests are
the smallest case in which a job overtakes one that waits to resume, so both
sides of the conditions in `OneWorkUnlessOvertaken` and `ReturnsUnlessOvertaken`
occur; two developers and two tools the smallest in which an owner is not the
next available one; one tester for two tasks makes a second batch wait.
`MaxFailures` 2 lets one task fail twice or two tasks once. `MaxBacklog` is
above the number of jobs, so that no run is aborted as a runaway. Continuous
deployment that fails is the subject of `pool`, where deployment takes 0 or 2,
and is not in `simulation`.

In `studio` three presses are a preview and two runs of it, a run with a
cancellation and a baseline beside it, or two commits and a cancellation between
them; commits are flushed, polls and edits are made without counting. Two
further runs fit beside the one that is over. `MaxRevision` 3 allows two saves or
baselines; beyond it both are refused, a baseline too although the code would
accept it. Two tabs are needed for `overwrite` only: with one tab baselines and
saves already overtake each other. The inputs are a task set and the definitions
beside it: `studio` has two task sets and one value of the definitions,
`overwrite` two of each, so that what a baseline leaves alone differs; the
proofs hold for any number of both.

In `runner` the gateway is an owner without executions, so the runner and the
gateway take each of the roles: the one that starts, the one that joins, the one
that stops while the other starts the second service. Three owners with an
execution beside them are too large. Two models are the smallest batch that is
part answered when it is cancelled or ends between page and status.

Symmetry is used in `store` and `workspace` only, over the jobs and over the
workspaces and task sets, where nothing depends on their identity and no
liveness is checked.

Fairness (`dispatch`). Threads are scheduled: weak fairness of each worker step,
of the executor, of the dispatch loop, of submissions under way, of handlers and
of close once it began. Communication with a process ends because of
`max_model_seconds`. No fairness for clients, expiry or the start of a shutdown.

Fairness (`execution`). The event loop resumes what is ready: weak fairness of
each execution and of each callback. Calls of the gateway have time limits, so
each ends in an answer or a failure. The service ends the jobs it accepted,
which is what `dispatch` shows of it (`EveryJobEnds`). No fairness for requests,
expiry, restarts or close. That calls fail for ever is allowed: then the run
pauses.

Fairness (`simulation`). `env.run` processes event after event without waiting,
so `Run` is weakly fair. With a window the timer's events go on for ever, so a
task that is stuck shows as a behaviour that never returns. A run without a
window that gets stuck runs out of events, which is a deadlock and found in the
same run.

Fairness (`studio`). Timers tick, connections deliver or fail, the application
serves: weak fairness of each tab's flush and of its interactive requests.
Runs get over: that is so while the simulation service answers, since a run that
is paused waits for its user. No fairness for the user, so `CommitsSettle` does
not need a second press.

Fairness (`runner`). Threads are scheduled; requests, the start of a server and
waiting for its end have time limits; a server that was asked to exit ends. No
fairness for the service's work, for clients or for closing.

## Proofs

Every theorem holds for every value of the constants that satisfies the named
assumptions of its module, so for any number of jobs, models, workers, runs,
scenarios, owners or tabs. Bounds that only make a run finite (`MaxFailures`,
`MaxPressed`, `MaxRevision`, `MaxServices`, ...) are constants like the others.
The assumptions say that limits are positive, that sets of owners and scenarios
are finite, that placeholders such as `Null` are no members of the sets they
stand beside, and of the kernel's parameters what is said below.

An invariant that a run checks is rarely inductive. Each module names the
invariant it proves instead; the strengthening is where the argument is.

### Service

The first part of `JobService_proofs`, about the store under any caller:

* `StoreTypes`, `StatusIsTruthful`. `StatusSummarises` compares a status with the
  set of its models' verdicts; `StoreInv` speaks of the models themselves
  (`Summary`), and needs to know that a model of a job that was never created is
  still queued, without which a new job might begin with an old verdict.
* `StoreHonoursContract`: each operation is a step of `JobContract` or a
  stutter. `LogInv` ties the log to the models: it answers each model that is not
  open, once; and a job that expires or is gone was over.
* `SubmissionsAreKept`, the action property: a registered identifier belongs to a
  job that was created, so it is not the one a new job takes.
* `BytesAreBounded`: `BytesInv` adds that the jobs held are finitely many and
  that one that was not created weighs nothing. Both limits are checked by
  `finish_model` against a sum over what pruning leaves.

Its second and third part, about the whole service:

* `ServiceTypes`, and `SlotsAreUsed`: `Spec => [](WorkConserving /\ SlotsBounded)`.
  `WorkConserving` is conditional on the lock being free, so the invariant adds
  what the holder of the lock knows (it holds the lock only while there is more
  to start) and that active jobs are finite.
* `ServiceUsesStore`: the service takes only steps of `JobStore`. It rests on a
  model being marked as started while a worker thread is at the steps that
  follow `start_model` (`PlacesInv`). `ServiceHonoursStore` then carries all
  theorems about the store over to the service.
* `JobsAreScheduledOnce`: `OnceInv` adds that a job outside the executor has no
  futures yet and one inside has one for each model, so none is started again.
* `CancellationReachesAll`: `ReachInv` adds that a process runs unsignalled only
  while its thread registers or waits, and that a waiting thread's process is
  registered; so the snapshot a handler takes under the lock contains it.
* `CloseLeavesNothing`: `OverInv` says of each job that is not over who still
  holds it, and of each future, running model and handler what it owes;
  `StopInv` says that a signalled process has a thread to reap it, that a job
  keeps its slot only while a future owes its callback, and what the executor
  no longer holds at each stage of its shutdown.

### Application

`WorkspaceStore_proofs`, about the store under any caller:

* `WorkspaceTypes` and `References` need each other. `Consistent` joins them
  with `RunsNumbered`, which says that no run has the number that will be given
  next; without it a registration might replace a record that a baseline
  refers to. That a reservation stays a natural number needs that it is
  charged the smaller of the result and what is left (`MinOfTwo`).
* `Results`: an eviction spares the results of the runs that remain
  (`EvictionKeeps`); the runs that go with it are over or were deleted
  (`RemovalKeeps`); and a registration finds in the cache, after pruning, what it
  leaves out of its request (`RegisterKeeps`). The lemma `RegisterPrunes` reduces
  the registration's two stages of pruning to one set of runs that are gone,
  none of them running or protected.
* `Eviction`: the action property `EvictionSpares`, from the same lemma.
* `Budget`: by `Budgeted`, which adds that the cache is finite. A registration
  adds a reservation the remaining memory was checked for; an answer moves bytes
  from a reservation to the cache; the rest only shrinks.
* `ReservationsSuffice`: not inductive, since it speaks of the next result only.
  `Backed` says that with what a run retains its reservation reaches the limit of
  a run, or covers a result of the maximal size for each scenario still open.

`RunCoordinator_proofs`, about the coordinator with store and service. Its
invariant comes in two layers.

* `Coordinated` is `Consistent`, `Control` and `Data`. `Control`: the execution
  that works on a run is the one `self.tasks` knows, a running run is worked on
  or paused, a run still to be registered has left no trace, and the batch has
  the event loop exactly while its execution is in it. `Data`: the service's log
  answers each model of a job once, a job has the size of what its run misses,
  and a batch holds only scenarios of its run. From it follow
  `CoordinatorTypes`, `OneWorker`, `RunsAreServed`, `FinalStays`, and
  `CoordinatorUsesWorkspace`, the refinement: a run is finished only when all its
  scenarios are answered, each at most once. `CoordinatorKeepsStore` carries the
  theorems about the store over.
* `Truthful` adds `ResultsKept` and `Truth`, which relates what a run has
  recorded to what the service said: `Agrees` (each recorded verdict is in the
  log, and the log is recorded up to the cursor, as long as the job is known),
  `PageAgrees` (a page under way continues that, and after a terminal status is
  the last), `Relies` (what an execution may assume where it stands, across its
  suspensions) and `SaysTruth` (a final state is justified by the verdicts). From
  it follow `FinalStatesTruthful` and `ReadsAgree`. A job that expires or is lost
  in a restart makes `Agrees` vacuous, and then the execution can only fail the
  run with an error.

### Kernel

`SdlcKernel_proofs` and `SdlcWorkflow_proofs`, for every backlog, team, stream of
support and set of parameters. `KernelInvariant` proves one invariant, `KInv`,
and all other theorems about the kernel follow from it. An exception ends
`env.run` in the middle of a step, and what that step leaves is not used again,
so `KInv` has three parts: what holds in every state (`TypeInv`, `PoolInv`) and
what holds while the simulation is live (`LiveInv`), that is, no exception has
been raised and the run has not returned.

The run's invariants are far from inductive. `InOnePlace` says that a task is in
one place; that a step keeps it depends on which events can be scheduled at the
same time, and in which order.

* `Orderly` is about the agenda: it is in the order of time; two events that
  belong to one process, timer or operator are never scheduled together
  (`Clash`); and four pairs that may be scheduled together have a fixed order
  (`TooLate`). Were a trigger to come, for instance, before the end of the job
  that has routed tasks of its batch, they would be worked on anew while their
  old job still goes on.
* `SpotsInv` is `InOnePlace` with places named, and with what the history says of
  each; `SeqsInv` that no store, queue or batch repeats a task.
* `JobsInv`, `EventsInv`, `WaitersInv`, `SignalsInv`: an event finds its job in
  the state that waits for it. A request that waits for a resource, and a signal
  that is not triggered, belong to a job with no event scheduled, so whoever
  serves the request or triggers the signal is the only one to wake the job.
* `ProcessInv`: a live process is one whose timeout is scheduled. Testers are
  taken from the pool, so the value that a tester's job reads is its own; of a
  developer this is false (finding `raises`), and not needed, since a developer's
  work does not fail.
* `PhaseInv`, `TimerInv`, `AlarmInv`: what is scheduled, listened to and awaited
  while the backlog is put into the first store, while it is worked off, and
  after the alarm. A deployment window that ends now finds no job between its
  work and its end: otherwise a task deployed in vain could be in the next batch
  and in its old job.
* `PoolInv`: per resource, in which of the pool, a scheduled assignment or a job
  it is; `PoolExclusive` counts these places.
* `FlowInv`: no work is left on a task behind development, and a timeout that
  ends a developer's work takes no longer than what is left. Without it a
  support task that interrupts could leave a task done with work on it.

Every lemma about an action shows `KInv'` and `Moves(t)` for every task: how the
step changes the last history entry and the remaining work. `KernelFlow`, the
refinement of `TaskFlow`, follows from `Moves`, and the end of the run from
`AlarmInv`. `KernelHistories` is part of `TypeInv`: no operation on a history
raises, whatever happens. `KernelDeliveries` says that no task is delivered after
the alarm, where `put` raises. These are the parts of `NeverRaises` that are
proved for every model.

`Schedule` is a fold over a step's events. The first section unfolds it once, by
induction over finite sets as in `FiniteSums`, into an insertion after all
events that are not later; the lemmas after it say what taking, inserting and
removing an event does to `Orderly`.

Assumptions, and where the code has them: sizes are not negative (`ge=0`,
`task/task.py:26`), the interval of support is positive
(`factory/task_generator.py:68`), a window is not negative
(`workflow/resource_operator.py:49`), and the cost of a failure is a share of a
task's size (`resources/qa_tester.py:17`), of which the model takes none or all.
Durations are not negative (`app/schemas.py:62`); SimPy raises for others. Tasks
and resources are objects of their own, so each is listed once and belongs to
one team; `"workflow"` and `"generator"`, which name processes, name no task.
Times are natural numbers in units of the model's choice.

Two definitions changed because of the proofs. The cases of `Remaining` overlapped,
so its value rested on the order in which TLC tries them; now the first one is
decided by itself. `Places` unites two unions, which readers of TLA+ group
differently; it says now which.

### Client and browser

`ClientRunner_proofs`: `OpenOwnersServed` by `ServedInv`, which adds that an owner
starts a service alone, under the lock and with no current one, and that an
owner about to stop a service stops another than the current or starting one.
`ResultsAreTruthful` by `ToldInv`, which adds that the log answers each model once
and that what was read is a prefix of it. `RunnerTypes` by both.

`Studio_proofs`: `PreviewedInputsRun`, `ChangesRunInOrder` and `StudioTypes` by
`StudioInv`: `ServerInv` (each run remembers the request that asked for it),
`TabInv` (views and messages refer to known runs) and `OrderInv` (a tab has one
interactive request under way; those that became runs, the one under way and the
change that waits were committed in this order, or are the same request again
after an answer was lost).

### Sums

Bytes are counted with `MapThenSumSet`, a fold over a set in an order given by
`CHOOSE`. `FiniteSums` derives what the proofs need (a sum over no elements, with
one element more, over a part, of a changed function) by induction over finite
sets. The library's induction rules take a predicate as a parameter; the
induction here is stated for a set of good subsets instead and rests on the
theorem that strict inclusion is well-founded.

### Only model-checked

* Liveness: `EveryJobEnds`, `CloseReturns`, `EveryRunSettles`, `EveryRunEnds`,
  `ReturnsUnlessOvertaken`, `RunnersEnd`, `CommitsSettle`. The prover has no rules for it under fairness.
* When a simulation raises and when a resource has two works. The program does
  not have the plain properties: `raises` violates `NeverRaises`, and the works
  of its counterexample overlap. `OneWorkUnlessOvertaken` and
  `ReturnsUnlessOvertaken` state the condition, and are checked for the
  simulations of the run `simulation`, in some of which jobs do overtake. Of
  `NeverRaises`, `KernelHistories` and `KernelDeliveries` are proved; whether
  rework always has an owner, and that signals are triggered once unless a job
  has overtaken another, is left to TLC. That no other way leads to a second work
  needs the order of the agenda: two pauses of a resource do not end at once,
  because the signal of the second is sent after the first job has resumed.

`SlotsBounded`, `StoreTypeOK` and `WorkspaceTypeOK` are proved and named in no run;
the runs of the modules that extend the stores check their types as part of
theirs.

## Findings

* `overwrite`: a save sends the revision of the workspace polled last, and the
  poll renews that revision without touching the editors. A tab that was opened
  before another tab saved is refused for a second at most; then its next
  preview replaces what the other saved, which the application's plan says is a
  conflict, "including edits from a second browser tab".
* `pool`: a failed deployment is rework, and rework goes to its owner past the
  pool. With one tool two deployments are in progress at once, although the pool
  size is the "number of deployments that can happen simultaneously".
* `raises`: when a pause is over, `operate` starts work in a later event without
  looking at the resource again. Support that arrives in between starts too, and
  the developer works on two tasks at once. Of these two works the one that ends
  first reads the value of the other's process, which has none yet: SimPy raises
  and the simulation has no result.

Further disagreements were met while modelling and have no run.

* Waiting jobs exceed `max_queued_jobs`: a cancelled job is terminal for
  admission at once, yet keeps its active slot until the running model's
  callback, so the job that is admitted in its place waits in a queue that may
  be full (`service/scheduler.py:50`; `.agent/SIMULATION_SERVICE_EXECPLAN.md:44`).
* `finish` makes a manual run the latest comparison whatever its task set. If the
  user saves another task set and chooses a baseline of it while the run is
  running, baseline and latest comparison belong to different task sets
  (`app/storage.py:531`; "Task-set revisions cannot be mixed inside a comparison
  context", `.agent/SIMULATION_APP_EXECPLAN.md:161`).
* An interactive run becomes the latest comparison when it is registered, and
  superseding it does not take that back, so between its end and the
  registration of its replacement the latest comparison is a superseded run,
  which the application's plan says it never is.
* The editors stay open while a preview is being saved, and its answer marks
  them as previewed whatever was typed meanwhile (`App.tsx:281`): the manual run
  that follows executes the preview that is shown, not what the editors show.
* When an interactive request fails for good, the pending change is dropped even
  if it is a newer one than the request (`App.tsx:329`), and as the value is still
  the one committed last, the same value is not sent again until another was.
* A cancellation empties what is pending, but a request that is on its way may
  still register a run after it (`App.tsx:360`).
* Suspended work is a stack whatever its type: rework queued behind support is
  resumed before support that was interrupted earlier, although support is said
  to have the higher priority.
* When work is interrupted, the start of the resource's idle time is not renewed
  (`resources/resource.py:90`), so what the tracker counts as idle before the next
  work includes time that was worked. The tracker is not modelled.

## Plan

1. (done) Job store, contract, scheduler, first theorems.
2. (done) Application: workspace store with its byte budget, coordinator with
   gateway failures, comparison context, theorems about the store.
3. (done) Kernel: stores with alarm and histories, operators, pools and
   resources on an event queue with equal times, one whole simulation.
4. (done) Client: the managed local service, its owners, the polling client over
   `JobContract`.
5. (done) Browser: tabs, previews, manual and interactive runs, with the guards
   of the application that decide about them.
6. (done) Proofs about the service, the application, the client and the browser:
   every safety invariant and action property of their runs but those listed
   under Proofs as left to TLC.
7. (done) Kernel proofs: types and histories, tasks in one place, exclusiveness of
   the pools, `TaskFlow`.
8. Pure algorithms against reference definitions: axis values, curve reduction,
   task priority, the cyclic assignment; the resource tracker's accounts.

## Not modelled

Charts, viewers and exports keep no protocol. Factories and probabilities are
draws, and a draw is a choice in the models. Digests, floating point statistics
and the conversion of models and results are data the properties do not tell
apart. The resource tracker's accounts are read by reports only. Of the browser,
pinning, deleting and resuming send no more than their request, whose effect is in
`WorkspaceStore` and `RunCoordinator`.
