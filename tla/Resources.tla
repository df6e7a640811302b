----------------------------- MODULE Resources ------------------------------
(* What a resource does (resources/resource.py and its subclasses): operate   *)
(* on a batch of tasks, interrupt the work in progress for support, pause     *)
(* work until what came in between is finished. A call of operate is a job,   *)
(* known by the first task of its batch. Every event a job waits for is an    *)
(* action; the actions say in which order they happen through the agenda.     *)
EXTENDS TaskStores

CONSTANTS Team,        \* work state -> the resources of its operator, in order
          None,        \* not a task or resource
          Settings,    \* the parameters of the simulations to consider
          MaxBacklog,  \* MAX_BACKLOG
          MaxFailures  \* bound: how often tests and deployments fail

ASSUME ResourcesAssumption ==
    /\ None \notin Tasks
    /\ \A s \in WorkStates : /\ Team[s] \in Seq(Range(Team[s]) \ {None})
                             /\ IsInjective(Team[s])
    /\ \A s, u \in WorkStates : s # u => Range(Team[s]) \cap Range(Team[u]) = {}
    /\ Settings \subseteq
           [points : [DevTasks -> Nat], support : Nat, interval : Nat \ {0},
            testing : Nat, failure_cost : 0..1, deployment : Nat, cadence : Nat,
            failing : SUBSET {"qa_testing", "deployment"}]
    /\ MaxBacklog \in Nat
    /\ MaxFailures \in Nat

Workers == UNION {Range(Team[s]) : s \in WorkStates}

VARIABLES setting,    \* the parameters of this simulation
          left,       \* task -> remaining work of a developer
          rework,     \* tasks marked as rework
          jobs,       \* task -> the job whose batch it leads
          process,    \* resource -> the work it started last, and its state
          suspended,  \* resource -> stack of signals that paused jobs wait for
          failures    \* how often tests and deployments have failed

resourceVars == <<setting, left, rework, jobs, process, suspended, failures>>

NoJob == [at |-> "none"]
Job(stage, batch, resource, pooled, at) ==
    [stage |-> stage, batch |-> batch, resource |-> resource, pooled |-> pooled,
     at |-> at, todo |-> batch, failed |-> FALSE]

Points(t) == IF IsSupport(t) THEN setting.support ELSE setting.points[t]

ResourcesInit ==
    /\ setting \in Settings
    /\ left = [t \in Tasks |-> Points(t)]
    /\ rework = {}
    /\ jobs = [t \in Tasks |-> NoJob]
    /\ process = [r \in Workers |-> [of |-> None, state |-> "none", failed |-> FALSE]]
    /\ suspended = [r \in Workers |-> <<>>]
    /\ failures = 0

\* Mutant: a job that wakes does not look at the resource.
TargetIsNoneAnyway(r) == TRUE

\* The SimPy process in _process: its target is None when its generator has
\* returned, it is processed when its event has happened, its value says
\* whether the work failed.
Busy(r) == process[r].state \in {"live", "ended"}
TargetIsNone(r) == process[r].state \in {"ended", "processed"}

Total(f, batch) == LET work == [i \in DOMAIN batch |-> f[batch[i]]]
                   IN MapThenSumSet(LAMBDA i : work[i], DOMAIN batch)

\* How long do_work takes: effort of a Developer, a QATester, a Toolchain.
WorkTime(stage, batch) ==
    CASE stage = "development" -> Total(left, batch)
      [] stage = "qa_testing" -> Total([t \in Tasks |-> Points(t) * setting.testing], batch)
      [] stage = "deployment" -> setting.deployment

Finish(x) == [kind |-> "finish", job |-> x]
Worked(x, how) == [kind |-> "worked", job |-> x, how |-> how]
Wake(x) == [kind |-> "wake", job |-> x]
Resumed(x) == [kind |-> "resumed", job |-> x]
Operated(x) == [kind |-> "operated", job |-> x]

StartWork(x, r) ==
    process' = [process EXCEPT ![r] = [of |-> x, state |-> "live", failed |-> FALSE]]
WorkEvents(x, stage, batch) == <<After(WorkTime(stage, batch), Finish(x))>>

Pause(x, r) == suspended' = [suspended EXCEPT ![r] = Append(@, [of |-> x, on |-> FALSE])]
PauseRaises(r) == IF Len(suspended[r]) >= MaxBacklog THEN {"runaway"} ELSE {}

BatchStarted(batch, stage) ==
    history' = [t \in Tasks |-> IF t \in Range(batch)
                                THEN Start(EndCurrent(history[t]), stage) ELSE history[t]]

(* The first steps of operate, on resource r, scheduled on queue, in the same *)
(* step as the end of what its tasks were waiting in.                         *)
OperateIdle(x, job, r, queue) ==
    /\ ~Busy(r)
    /\ StartWork(x, r)
    /\ jobs' = [jobs EXCEPT ![x] = [job EXCEPT !.resource = r, !.at = "working"]]
    /\ agenda' = Schedule(queue, WorkEvents(x, job.stage, job.batch))
    /\ raised' = {}
    /\ UNCHANGED <<left, suspended>>

\* Support takes the resource away from the job p it works for.
OperateInterrupts(x, job, r, queue) ==
    LET p == process[r].of IN
    /\ Busy(r) /\ IsSupport(x)
    /\ StartWork(x, r)
    /\ jobs' = [jobs EXCEPT ![x] = [job EXCEPT !.resource = r, !.at = "working"]]
    /\ IF process[r].state = "live"
       THEN /\ left' = [left EXCEPT ![p] = DueIn(queue, Finish(p))]
            /\ agenda' = Schedule(Without(queue, Finish(p)),
                   <<Now(Worked(p, "interrupted"))>> \o WorkEvents(x, job.stage, job.batch))
            /\ raised' = {}
       ELSE /\ raised' = {"interrupts terminated process"}
            /\ UNCHANGED <<left, agenda>>
    /\ UNCHANGED suspended

OperateWaits(x, job, r, queue) ==
    /\ Busy(r) /\ ~IsSupport(x)
    /\ Pause(x, r)
    /\ jobs' = [jobs EXCEPT ![x] = [job EXCEPT !.resource = r, !.at = "paused"]]
    /\ agenda' = queue
    /\ raised' = PauseRaises(r)
    /\ UNCHANGED <<left, process>>

Operate(x, job, r, queue) ==
    /\ \/ OperateIdle(x, job, r, queue)
       \/ OperateInterrupts(x, job, r, queue)
       \/ OperateWaits(x, job, r, queue)
    /\ BatchStarted(job.batch, job.stage)
    /\ UNCHANGED <<setting, rework, failures, items, alarm>>

\* Mutant: the cost of a failure is taken off the remaining work.
RemainingLess(job, failed) ==
    [t \in Tasks |-> IF failed /\ t \in Range(job.batch)
                     THEN left[t] - Points(t) * setting.failure_cost ELSE left[t]]

\* The developers' remaining work when a work has ended.
Remaining(job, failed) ==
    [t \in Tasks |->
        IF t \notin Range(job.batch) THEN left[t]
        ELSE CASE job.stage = "development" -> 0
               [] job.stage = "qa_testing" /\ failed ->
                      left[t] + Points(t) * setting.failure_cost
               [] OTHER -> left[t]]

(* The timeout of do_work. A developer is done with the task; tests and       *)
(* deployments fail or not, and a failed test gives work back.                *)
DoWorkEnds ==
    /\ Happens("finish")
    /\ LET x == Occurring.job
           job == jobs[x]
           r == job.resource
           mayFail == job.stage \in setting.failing /\ failures < MaxFailures
       IN \E failed \in IF mayFail THEN BOOLEAN ELSE {FALSE} :
            /\ failures' = IF failed THEN failures + 1 ELSE failures
            /\ left' = Remaining(job, failed)
            /\ process' = IF process[r].of = x
                          THEN [process EXCEPT ![r].state = "ended", ![r].failed = failed]
                          ELSE process
            /\ agenda' = Schedule(Rest, <<Now(Worked(x, "returned"))>>)
    /\ UNCHANGED <<raised, storeVars, setting, rework, jobs, suspended>>

\* operate learns of the interruption and waits until it is signalled.
InterruptedPauses ==
    /\ Happens("worked")
    /\ Occurring.how = "interrupted"
    /\ LET x == Occurring.job  r == jobs[Occurring.job].resource IN
          /\ Pause(x, r)
          /\ raised' = PauseRaises(r)
          /\ jobs' = [jobs EXCEPT ![x].at = "paused"]
    /\ agenda' = Rest
    /\ UNCHANGED <<storeVars, setting, left, rework, process, failures>>

(* A signal wakes its job. What the job takes from the stack is the last      *)
(* signal. If other work has been started meanwhile it waits again.           *)
PauseEnds ==
    /\ Happens("wake")
    /\ LET x == Occurring.job
           r == jobs[x].resource
           popped == Front(suspended[r])
       IN IF TargetIsNone(r)
          THEN /\ suspended' = [suspended EXCEPT ![r] = popped]
               /\ jobs' = [jobs EXCEPT ![x].at = "resuming"]
               /\ agenda' = Schedule(Rest, <<Now(Resumed(x))>>)
          ELSE /\ suspended' = [suspended EXCEPT ![r] =
                                    Append(popped, [of |-> x, on |-> FALSE])]
               /\ agenda' = Rest
               /\ UNCHANGED jobs
    /\ UNCHANGED <<raised, storeVars, setting, left, rework, process, failures>>

\* operate starts work again, without looking at the resource again.
WorkResumes ==
    /\ Happens("resumed")
    /\ LET x == Occurring.job  job == jobs[x] IN
          /\ StartWork(x, job.resource)
          /\ jobs' = [jobs EXCEPT ![x].at = "working"]
          /\ agenda' = Schedule(Rest, WorkEvents(x, job.stage, job.batch))
    /\ UNCHANGED <<raised, storeVars, setting, left, rework, suspended, failures>>

ResourcesTypeOK ==
    /\ setting \in Settings
    /\ left \in [Tasks -> Nat]
    /\ rework \in SUBSET Tasks
    /\ jobs \in [Tasks -> {NoJob} \cup
           [stage : WorkStates, batch : Seq(Tasks), resource : Workers \cup {None},
            pooled : BOOLEAN, todo : Seq(Tasks), failed : BOOLEAN,
            at : {"waiting", "working", "paused", "resuming", "routing", "done"}]]
    /\ process \in [Workers -> [of : Tasks \cup {None},
                                state : {"none", "live", "ended", "processed"},
                                failed : BOOLEAN]]
    /\ suspended \in [Workers -> Seq([of : Tasks, on : BOOLEAN])]
    /\ failures \in 0..MaxFailures
=============================================================================
