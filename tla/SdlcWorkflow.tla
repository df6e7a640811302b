---------------------------- MODULE SdlcWorkflow ----------------------------
(* A simulation run (simulation/simulation.py): the workflow that fills the   *)
(* pending store and waits for the alarm, the generator of support tasks, and *)
(* one operator per work state (workflow/resource_operator.py) with its pool  *)
(* (workflow/pool_manager.py). Each action is the processing of one event of  *)
(* the agenda: everything its callbacks and the processes it resumes do until *)
(* they wait again.                                                           *)
EXTENDS Resources

VARIABLES phase,      \* of the workflow: seeding, running, stopped, over
          arrivals,   \* how many support tasks have been generated
          queue,      \* work state -> tasks the operator has collected
          listening,  \* work states whose monitor waits for a task
          awaiting,   \* work states whose executor waits for the current trigger
          hired,      \* work state -> how many of the team the pool has taken on
          pool,       \* work state -> available resources
          waiters,    \* work state -> jobs that wait for a resource
          owners      \* work state -> task -> resource that served it last

operatorVars == <<queue, listening, awaiting>>
poolVars == <<hired, pool, waiters, owners>>
vars == <<simVars, storeVars, resourceVars, phase, arrivals, operatorVars, poolVars>>

Source(stage) == CASE stage = "development" -> "pending"
                   [] stage = "qa_testing"  -> "dev_complete"
                   [] stage = "deployment"  -> "qa_complete"

Cadence(stage) == IF stage = "deployment" THEN setting.cadence ELSE 0

Arrival == [kind |-> "arrival"]
Timer == [kind |-> "timer"]
Over == [kind |-> "over"]
Got(stage, t) == [kind |-> "got", stage |-> stage, task |-> t]
Trigger(stage) == [kind |-> "trigger", stage |-> stage, batch |-> queue[stage],
                   heard |-> stage \in awaiting]
Assigned(x, r) == [kind |-> "assigned", job |-> x, resource |-> r]
Returned(stage) == [kind |-> "returned", stage |-> stage]

Init ==
    /\ StoresInit(Backlog[1])
    /\ ResourcesInit
    /\ agenda = <<Now([kind |-> "stored", store |-> "pending",
                       task |-> Backlog[1], by |-> "workflow"])>>
                \o (IF Requests = <<>> THEN <<>> ELSE <<After(setting.interval, Arrival)>>)
    /\ raised = {}
    /\ phase = "seeding"
    /\ arrivals = 0
    /\ queue = [s \in WorkStates |-> <<>>]
    /\ listening = {}
    /\ awaiting = {}
    /\ hired = [s \in WorkStates |-> 0]
    /\ pool = [s \in WorkStates |-> <<>>]
    /\ waiters = [s \in WorkStates |-> <<>>]
    /\ owners = [s \in WorkStates |-> [t \in Tasks |-> None]]

(* Callbacks of a put: a monitor that waits at the store is given its first   *)
(* task, before the process that has put one goes on.                         *)
Served(store) == {s \in listening : Source(s) = store /\ items[store] # <<>>}
ItemsLeft(store) ==
    IF Served(store) = {} THEN items ELSE [items EXCEPT ![store] = Tail(@)]
GotEvents(store) == SetToSeq({Now(Got(s, Head(items[store]))) : s \in Served(store)})

Serve(store) == listening' = listening \ Served(store)

\* The workflow puts the next task of the backlog.
SeedNext ==
    /\ Happens("stored")
    /\ Occurring.by = "workflow"
    /\ Len(items["pending"]) < Len(Backlog)
    /\ LET t == Backlog[Len(items["pending"]) + 1] IN
          /\ Put(items, "pending", t, history[t])
          /\ agenda' = Schedule(Rest, PutEvents(items, "pending", t, "workflow"))
    /\ UNCHANGED <<raised, resourceVars, phase, arrivals, operatorVars, poolVars>>

\* All are put: it arms the alarm and starts the operators.
StartOperators ==
    /\ Happens("stored")
    /\ Occurring.by = "workflow"
    /\ Len(items["pending"]) = Len(Backlog)
    /\ SetAlarm
    /\ phase' = "running"
    /\ listening' = WorkStates \ {"development"}
    /\ awaiting' = WorkStates
    /\ items' = [items EXCEPT !["pending"] = Tail(@)]
    /\ agenda' = Schedule(Rest, <<Now(Got("development", Head(items["pending"])))>>
           \o (IF setting.cadence > 0 THEN <<After(setting.cadence, Timer)>> ELSE <<>>))
    /\ UNCHANGED <<raised, history, resourceVars, arrivals, queue, poolVars>>

\* The generator's interval is over: it puts a support task.
SupportArrives ==
    /\ Happens("arrival")
    /\ arrivals' = arrivals + 1
    /\ LET t == Requests[arrivals'] IN
          /\ Put(items, "pending", t, history[t])
          /\ agenda' = Schedule(Rest, PutEvents(items, "pending", t, "generator"))
    /\ UNCHANGED <<raised, resourceVars, phase, operatorVars, poolVars>>

GeneratorContinues ==
    /\ Happens("stored")
    /\ Occurring.by = "generator"
    /\ Serve("pending")
    /\ items' = ItemsLeft("pending")
    /\ agenda' = Schedule(Rest, GotEvents("pending")
           \o (IF arrivals < Len(Requests) THEN <<After(setting.interval, Arrival)>> ELSE <<>>))
    /\ UNCHANGED <<raised, history, alarm, resourceVars, phase, arrivals,
                   queue, awaiting, poolVars>>

\* Where the router of a work state sends a task.
Destination(stage, t, failed) ==
    CASE stage = "development" -> IF IsSupport(t) THEN "support_complete" ELSE "dev_complete"
      [] stage = "qa_testing"  -> IF failed THEN "pending" ELSE "qa_complete"
      [] stage = "deployment"  -> IF failed THEN "qa_complete" ELSE "delivery"

\* operate ends the next task of the batch and routes it.
Route(its, queued, x, job, failed) ==
    LET t == Head(job.todo)
        store == Destination(job.stage, t, failed)
    IN /\ Put(its, store, t, End(history[t], job.stage))
       /\ agenda' = Schedule(queued, PutEvents(its, store, t, x))
       /\ raised' = PutRaises(store)
       /\ rework' = IF failed THEN rework \cup {t} ELSE rework \ {t}
       /\ jobs' = [jobs EXCEPT ![x] = [job EXCEPT !.at = "routing", !.todo = Tail(@),
                                                   !.failed = failed]]

(* The work of a job has ended. Its result is read from the process the       *)
(* resource has started last, which is another one if both were in progress.  *)
WorkEnds ==
    /\ Happens("worked")
    /\ Occurring.how = "returned"
    /\ LET x == Occurring.job  r == jobs[Occurring.job].resource IN
          IF process[r].of # x /\ process[r].state = "live"
          THEN /\ raised' = {"value is not available"}
               /\ UNCHANGED <<agenda, storeVars, rework, jobs, process>>
          ELSE /\ Route(items, Rest, x, jobs[x], process[r].failed)
               /\ process' = IF process[r].of = x
                             THEN [process EXCEPT ![r].state = "processed"] ELSE process
    /\ UNCHANGED <<setting, left, suspended, failures, phase, arrivals, operatorVars, poolVars>>

RouteNext ==
    /\ Happens("stored")
    /\ Occurring.by \in Tasks
    /\ LET x == Occurring.by  store == Occurring.store IN
          /\ jobs[x].todo # <<>>
          /\ Serve(store)
          /\ Route(ItemsLeft(store), Schedule(Rest, GotEvents(store)), x, jobs[x], jobs[x].failed)
    /\ UNCHANGED <<setting, left, process, suspended, failures, phase, arrivals,
                   queue, awaiting, poolVars>>

(* The batch is routed: operate signals the work suspended last and returns.  *)
OperateEnds ==
    /\ Happens("stored")
    /\ Occurring.by \in Tasks
    /\ LET x == Occurring.by
           store == Occurring.store
           r == jobs[x].resource
           n == Len(suspended[r])
       IN /\ jobs[x].todo = <<>>
          /\ Serve(store)
          /\ items' = ItemsLeft(store)
          /\ jobs' = [jobs EXCEPT ![x].at = "done"]
          /\ suspended' = IF n = 0 THEN suspended ELSE [suspended EXCEPT ![r][n].on = TRUE]
          /\ raised' = IF n > 0 /\ suspended[r][n].on THEN {"signal triggered twice"} ELSE {}
          /\ agenda' = Schedule(Rest, GotEvents(store)
                 \o (IF n = 0 THEN <<>> ELSE <<Now(Wake(suspended[r][n].of))>>)
                 \o <<Now(Operated(x))>>)
    /\ UNCHANGED <<history, alarm, setting, left, rework, process, failures,
                   phase, arrivals, queue, awaiting, poolVars>>

(* The monitor has got a task: the wait in its store goes on in the queue of  *)
(* the operator. Without a cadence every task triggers the executor.          *)
MonitorCollects ==
    /\ Happens("got")
    /\ phase = "running"
    /\ LET stage == Occurring.stage
           t == Occurring.task
           store == Source(stage)
           collected == Append(queue[stage], t)
           triggers == Cadence(stage) = 0
           again == items[store] # <<>>
       IN /\ history' = [history EXCEPT ![t] = Resume(End(@, store), store)]
          /\ queue' = [queue EXCEPT ![stage] = IF triggers THEN <<>> ELSE collected]
          /\ awaiting' = IF triggers THEN awaiting \ {stage} ELSE awaiting
          /\ listening' = IF again THEN listening ELSE listening \cup {stage}
          /\ items' = IF again THEN [items EXCEPT ![store] = Tail(@)] ELSE items
          /\ agenda' = Schedule(Rest,
                 (IF triggers THEN <<Now([Trigger(stage) EXCEPT !.batch = collected])>> ELSE <<>>)
                 \o (IF again THEN <<Now(Got(stage, Head(items[store])))>> ELSE <<>>))
    /\ UNCHANGED <<raised, alarm, resourceVars, phase, arrivals, poolVars>>

\* The task was handed over before the monitor was stopped.
MonitorStopped ==
    /\ Happens("got")
    /\ phase = "stopped"
    /\ history' = [history EXCEPT ![Occurring.task] = End(@, Source(Occurring.stage))]
    /\ agenda' = Rest
    /\ UNCHANGED <<raised, items, alarm, resourceVars, phase, arrivals, operatorVars, poolVars>>

TimerTicks ==
    /\ Happens("timer")
    /\ phase = "running"
    /\ LET stage == "deployment"  empty == queue["deployment"] = <<>> IN
          /\ agenda' = Schedule(Rest,
                 (IF empty THEN <<>> ELSE <<Now(Trigger(stage))>>)
                 \o <<After(setting.cadence, Timer)>>)
          /\ queue' = [queue EXCEPT ![stage] = <<>>]
          /\ awaiting' = IF empty THEN awaiting ELSE awaiting \ {stage}
    /\ UNCHANGED <<raised, storeVars, resourceVars, phase, arrivals, listening, poolVars>>

Strategy(batch) ==
    LET t == Head(batch) IN
    IF IsSupport(t) THEN "random" ELSE IF t \in rework THEN "owner" ELSE "next_available"

\* The rework of a task goes to the resource that has done it, busy or not.
AssignOwner(stage, batch) ==
    LET x == Head(batch)  r == owners[stage][x] IN
    /\ Strategy(batch) = "owner"
    /\ IF r = None
       THEN /\ raised' = {"unknown owner"}
            /\ UNCHANGED <<storeVars, resourceVars, agenda>>
       ELSE Operate(x, Job(stage, batch, r, FALSE, "working"), r, Rest)
    /\ UNCHANGED poolVars

\* Support goes to anybody; to choose, the rest of the team is counted as hired.
AssignRandom(stage, batch) ==
    /\ Strategy(batch) = "random"
    /\ hired' = [hired EXCEPT ![stage] = Len(Team[stage])]
    /\ \E r \in Range(Team[stage]) :
          Operate(Head(batch), Job(stage, batch, r, FALSE, "working"), r, Rest)
    /\ UNCHANGED <<pool, waiters, owners>>

(* Otherwise the next available resource; the pool takes on another one of    *)
(* the team when none is there. Waiting requests are served in their order.   *)
AssignNext(stage, batch) ==
    LET x == Head(batch)
        hires == pool[stage] = <<>> /\ hired[stage] < Len(Team[stage])
        available == IF hires THEN <<Team[stage][hired[stage] + 1]>> ELSE pool[stage]
        waiting == Append(waiters[stage], x)
        served == available # <<>>
    IN /\ Strategy(batch) = "next_available"
       /\ jobs' = [jobs EXCEPT ![x] = Job(stage, batch, None, TRUE, "waiting")]
       /\ hired' = IF hires THEN [hired EXCEPT ![stage] = @ + 1] ELSE hired
       /\ pool' = [pool EXCEPT ![stage] = IF served THEN Tail(available) ELSE <<>>]
       /\ waiters' = [waiters EXCEPT ![stage] = IF served THEN Tail(waiting) ELSE waiting]
       /\ agenda' = Schedule(Rest,
              (IF hires THEN <<Now(Returned(stage))>> ELSE <<>>)
              \o (IF served THEN <<Now(Assigned(Head(waiting), Head(available)))>> ELSE <<>>))
       /\ UNCHANGED <<raised, storeVars, setting, left, rework, process, suspended,
                      failures, owners>>

\* Mutant: the executor stays with the trigger it has heard.
AwaitsOld(stage) == awaiting

Awaits(stage) == awaiting \cup {stage}

(* The executor hears the trigger, starts a job for the batch and waits for   *)
(* the current trigger.                                                       *)
ExecutorStarts ==
    /\ Happens("trigger")
    /\ phase = "running" /\ Occurring.heard
    /\ awaiting' = Awaits(Occurring.stage)
    /\ \/ AssignOwner(Occurring.stage, Occurring.batch)
       \/ AssignRandom(Occurring.stage, Occurring.batch)
       \/ AssignNext(Occurring.stage, Occurring.batch)
    /\ UNCHANGED <<phase, arrivals, queue, listening>>

ResourceAssigned ==
    /\ Happens("assigned")
    /\ LET x == Occurring.job  r == Occurring.resource  job == jobs[Occurring.job] IN
          /\ Operate(x, job, r, Rest)
          /\ owners' = [owners EXCEPT ![job.stage] =
                 [t \in Tasks |-> IF t \in Range(job.batch) THEN r ELSE @[t]]]
    /\ UNCHANGED <<phase, arrivals, operatorVars, hired, pool, waiters>>

\* Mutant: a resource used without the pool goes to the pool.
ReleasedAlways(job) == [pool EXCEPT ![job.stage] = Append(@, job.resource)]

Released(job) ==
    IF job.pooled THEN [pool EXCEPT ![job.stage] = Append(@, job.resource)] ELSE pool

ReleaseEvents(job) == IF job.pooled THEN <<Now(Returned(job.stage))>> ELSE <<>>

\* operate has returned; a resource from the pool goes back.
JobEnds ==
    /\ Happens("operated")
    /\ LET x == Occurring.job  job == jobs[Occurring.job] IN
          /\ jobs' = [jobs EXCEPT ![x] = NoJob]
          /\ pool' = Released(job)
          /\ agenda' = Schedule(Rest, ReleaseEvents(job))
    /\ UNCHANGED <<raised, storeVars, setting, left, rework, process, suspended, failures,
                   phase, arrivals, operatorVars, hired, waiters, owners>>

PoolServes ==
    /\ Happens("returned")
    /\ LET s == Occurring.stage IN
          IF pool[s] # <<>> /\ waiters[s] # <<>>
          THEN /\ agenda' = Schedule(Rest, <<Now(Assigned(Head(waiters[s]), Head(pool[s])))>>)
               /\ pool' = [pool EXCEPT ![s] = Tail(@)]
               /\ waiters' = [waiters EXCEPT ![s] = Tail(@)]
          ELSE /\ agenda' = Rest
               /\ UNCHANGED <<pool, waiters>>
    /\ UNCHANGED <<raised, storeVars, resourceVars, phase, arrivals, operatorVars, hired, owners>>

(* Everything is delivered: the end of the run is scheduled and the workflow  *)
(* stops the operators. What they still receive is ignored.                   *)
AlarmRings ==
    /\ Happens("alarm")
    /\ alarm' = [alarm EXCEPT !.signal = "processed"]
    /\ phase' = "stopped"
    /\ listening' = {}
    /\ awaiting' = {}
    /\ agenda' = Schedule(Rest, <<Now(Over)>>)
    /\ UNCHANGED <<raised, items, history, resourceVars, arrivals, queue, poolVars>>

Ignored ==
    /\ \/ Happens("timer") /\ phase = "stopped"
       \/ Happens("trigger") /\ ~(phase = "running" /\ Occurring.heard)
    /\ agenda' = Rest
    /\ UNCHANGED <<raised, storeVars, resourceVars, phase, arrivals, operatorVars, poolVars>>

RunEnds ==
    /\ Happens("over")
    /\ phase' = "over"
    /\ agenda' = <<>>
    /\ UNCHANGED <<raised, storeVars, resourceVars, arrivals, operatorVars, poolVars>>

ResourceSteps ==
    /\ DoWorkEnds \/ InterruptedPauses \/ PauseEnds \/ WorkResumes
    /\ UNCHANGED <<phase, arrivals, operatorVars, poolVars>>

Run == \/ SeedNext \/ StartOperators \/ SupportArrives \/ GeneratorContinues
       \/ WorkEnds \/ RouteNext \/ OperateEnds
       \/ MonitorCollects \/ MonitorStopped \/ TimerTicks \/ ExecutorStarts
       \/ ResourceAssigned \/ JobEnds \/ PoolServes
       \/ AlarmRings \/ Ignored \/ RunEnds
       \/ ResourceSteps

Raised == raised # {} \/ \E t \in Tasks : history[t] = Invalid

\* The run has returned or raised.
Ended == (phase = "over" \/ Raised) /\ UNCHANGED vars

Next == Run \/ Ended

Spec == Init /\ [][Next]_vars

\* The library processes event after event without waiting.
FairSpec == Spec /\ WF_vars(Run)

-----------------------------------------------------------------------------
\* Every variable has its type, and the agenda is in the order of time.
WorkflowTypeOK ==
    /\ StoresTypeOK
    /\ ResourcesTypeOK
    /\ Sorted
    /\ raised \subseteq {"put after alarm", "interrupts terminated process", "runaway",
                         "signal triggered twice", "value is not available", "unknown owner"}
    /\ phase \in {"seeding", "running", "stopped", "over"}
    /\ arrivals \in 0..Len(Requests)
    /\ queue \in [WorkStates -> Seq(Tasks)]
    /\ listening \subseteq WorkStates
    /\ awaiting \subseteq WorkStates
    /\ hired \in [WorkStates -> Nat]
    /\ pool \in [WorkStates -> Seq(Workers)]
    /\ waiters \in [WorkStates -> Seq(Tasks)]
    /\ owners \in [WorkStates -> [Tasks -> Workers \cup {None}]]

\* No simulation raises: histories alternate, rework has an owner, no signal is
\* triggered twice, no finished process is interrupted, and the value of a work
\* is there when its job reads it. The claim of simulation.py:35, which the code
\* breaks where a job overtakes one that resumes (ReturnsUnlessOvertaken).
NeverRaises == ~Raised

\* The tasks a job still holds.
Holds(x) == IF jobs[x].at = "none" THEN {}
            ELSE Range(IF jobs[x].at = "routing" \/ jobs[x].at = "done" THEN jobs[x].todo
                       ELSE jobs[x].batch)

At(x) == IF jobs[x].at = "waiting" THEN Source(jobs[x].stage) ELSE jobs[x].stage

Positions(seq, t) == {i \in DOMAIN seq : seq[i] = t}

Places(t) ==
    (UNION {{<<s, "in store", i>> : i \in Positions(items[s], t)} : s \in Stores})
    \cup (UNION {{<<Source(s), "in queue", i>> : i \in Positions(queue[s], t)} : s \in WorkStates})
    \cup {<<Source(agenda[i].ev.stage), "handed over", i>> : i \in {i \in DOMAIN agenda :
             \/ agenda[i].ev.kind = "got" /\ agenda[i].ev.task = t
             \/ agenda[i].ev.kind = "trigger" /\ t \in Range(agenda[i].ev.batch)}}
    \cup {<<At(x), "in job", x>> : x \in {x \in Tasks : t \in Holds(x)}}

\* Every task that has entered is in one place, the one its history tells:
\* handing it from store to queue to batch to resource neither loses nor
\* doubles it.
InOnePlace ==
    phase \in {"seeding", "running"} /\ ~Raised =>
        \A t \in Tasks : IF history[t] = NoEntry THEN Places(t) = {}
                         ELSE \E where \in Places(t) : /\ Places(t) = {where}
                                                       /\ where[1] = history[t].state

JobsOn(r) == {x \in Tasks : jobs[x].at # "none" /\ jobs[x].resource = r}

\* Each resource a pool has taken on is available, or on its way to the one job
\* that got it, or held by one job of the pool.
PoolExclusive ==
    \A s \in WorkStates : \A n \in 1..Len(Team[s]) :
        LET r == Team[s][n]
            places == {<<"pool", i>> : i \in Positions(pool[s], r)}
                \cup {<<"agenda", i>> : i \in {i \in DOMAIN agenda :
                        agenda[i].ev.kind = "assigned" /\ agenda[i].ev.resource = r}}
                \cup {<<"job", x>> : x \in {x \in JobsOn(r) : jobs[x].pooled}}
        IN Cardinality(places) <= IF n <= hired[s] THEN 1 ELSE 0

Resuming(r) == {x \in JobsOn(r) : jobs[x].at = "resuming"}
WorkInProgress(r) == {x \in JobsOn(r) : Scheduled(Finish(x))}

\* One batch at most is worked on or about to be, and _process is its work.
OneWork(r) ==
    /\ Cardinality(WorkInProgress(r) \cup Resuming(r)) <= 1
    /\ \A x \in WorkInProgress(r) : process[r].of = x /\ process[r].state = "live"

\* A job works on the resource while another is about to resume there.
Overtaken(r) == process[r].state = "live" /\ Resuming(r) # {}

\* A resource works on one batch at a time, with one exception: between the end
\* of a pause and the resumption of its job (resource.py:106-110) the resource
\* looks idle, and a job that begins in that gap overtakes the one that resumes.
\* No pause, interruption, rework past the pool or release leads to a second
\* work, and no pause ends while the resource is at work.
OneWorkUnlessOvertaken ==
    [][\A r \in Workers :
          ~OneWork(r)' => ~OneWork(r) \/ (Resuming(r) # {} /\ Overtaken(r)')]_vars

\* No more deployments at a time than tools.
DeploymentsWithinPool ==
    Cardinality({x \in Tasks : Scheduled(Finish(x)) /\ jobs[x].stage = "deployment"})
        <= Len(Team["deployment"])

\* The workflow implements TaskFlow: what histories tell is a legal way through
\* the workflow, and the run returns when all is delivered.
Flow == INSTANCE TaskFlow WITH SupportTasks <- Range(Requests),
            place <- [t \in Tasks |-> history[t].state],
            points <- [t \in Tasks |-> Points(t)], over <- phase = "over"
ImplementsFlow == Flow!Spec

\* Every simulation returns, with everything delivered, unless in it a job
\* overtakes one that resumes. So without that none raises: histories alternate,
\* rework has an owner, no signal is triggered twice.
ReturnsUnlessOvertaken == <>(phase = "over" \/ \E r \in Workers : Overtaken(r))

\* Overtaken or not, no simulation waits forever: it returns or raises.
EveryRunEnds == <>(phase = "over" \/ Raised)
=============================================================================
