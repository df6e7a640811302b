-------------------------- MODULE SdlcKernel_proofs -------------------------
(* The invariant of the simulation kernel, and that steps of the workflow, *)
(* of its stores and operators, of the pools and of the resources keep it. *)
(* The steps that route tasks and those that start jobs, and the theorems, *)
(* are in SdlcWorkflow_proofs. Every lemma about an action states,         *)
(* besides, that tasks move as TaskFlow allows.                            *)
EXTENDS SdlcWorkflow, FiniteSums, SequenceTheorems

-----------------------------------------------------------------------------
(* The invariant, part by part. Live states are those in which no          *)
(* exception has been raised and the run has not returned: an exception    *)
(* ends the run in the middle of a step, and what it leaves is not used.   *)

Actors == Tasks \cup {"workflow", "generator"}

(* Every event the agenda may hold, and the agenda's entries.              *)
Events ==
    [kind : {"arrival", "timer", "alarm", "over"}]
    \cup [kind : {"got"}, stage : WorkStates, task : Tasks]
    \cup [kind : {"trigger"}, stage : WorkStates, batch : Seq(Tasks), heard : BOOLEAN]
    \cup [kind : {"assigned"}, job : Tasks, resource : Workers]
    \cup [kind : {"returned"}, stage : WorkStates]
    \cup [kind : {"stored"}, store : Stores, task : Tasks, by : Actors]
    \cup [kind : {"finish", "wake", "resumed", "operated"}, job : Tasks]
    \cup [kind : {"worked"}, job : Tasks, how : {"returned", "interrupted"}]

Dated == [due : Nat, ev : Events]

(* The kinds that are scheduled with a delay; all others happen at once.   *)
Delayed == {"finish", "arrival", "timer"}

(* The kinds that some job waits for, other than its own puts.             *)
JobKinds == {"finish", "worked", "wake", "resumed", "operated", "assigned"}

(* The events of a queue, and that one entry of it comes before another.   *)
Evs(q) == {q[i].ev : i \in DOMAIN q}

Precedes(q, x, y) == \E i, j \in DOMAIN q : i < j /\ q[i] = x /\ q[j] = y

(* The process an event lets go on: a job, the generator, the workflow.    *)
Concerns(e, t) == \/ e.kind \in JobKinds /\ e.job = t
                  \/ e.kind = "stored" /\ e.by = t
OfGenerator(e) == \/ e.kind = "arrival"
                  \/ e.kind = "stored" /\ e.by = "generator"

OfWorkflow(e) == e.kind = "stored" /\ e.by = "workflow"

(* Two events that are never scheduled together: a process waits for one   *)
(* event at a time, there is one timer and one alarm, and an operator has  *)
(* one task handed over and one trigger.                                   *)
Clash(e, f) ==
    \/ OfWorkflow(e) /\ OfWorkflow(f)
    \/ \E t \in Tasks : Concerns(e, t) /\ Concerns(f, t)
    \/ OfGenerator(e) /\ OfGenerator(f)
    \/ e.kind = f.kind /\ e.kind \in {"timer", "alarm"}
    \/ e.kind = f.kind /\ e.kind \in {"got", "trigger"} /\ e.stage = f.stage

(* The operator collects tasks until its timer is due (c is the cadence).  *)
Windowed(c, s) == s = "deployment" /\ c > 0

(* The event f may not be scheduled behind e: while a task is handed over, *)
(* or the timer is due, no trigger is scheduled, a task that is handed     *)
(* over is not being put, and a job does not end while its tasks are in a  *)
(* later batch.                                                            *)
TooLate(c, e, f) ==
    \/ e.kind = "got" /\ f.kind = "trigger" /\ e.stage = f.stage /\ ~Windowed(c, f.stage)
    \/ e.kind = "timer" /\ f.kind = "trigger" /\ Windowed(c, f.stage)
    \/ e.kind = "got" /\ f.kind = "stored" /\ e.task = f.task
    \/ e.kind = "trigger" /\ f.kind = "operated" /\ f.job \in Range(e.batch)

(* An event that is not delayed is due at once.                            *)
Sane(x) == /\ x.ev.kind \notin Delayed => x.due = 0

(* The agenda is in the order of time, without clashes, and a timer that   *)
(* is due now has nothing but delayed events before it.                    *)
Orderly(c, q) ==
    /\ \A x \in Range(q) : Sane(x)
    /\ \A x, y \in Range(q) : Precedes(q, x, y) =>
          /\ x.due <= y.due
          /\ ~Clash(x.ev, y.ev)
          /\ ~TooLate(c, x.ev, y.ev)
          /\ y.ev.kind = "timer" /\ y.due = 0 => x.ev.kind \in Delayed

(* What is going to happen.                                                *)
Upcoming == Evs(agenda)

(* The kinds of places of a task, and what a place may belong to.          *)
Spots == {"store", "queue", "got", "trigger", "job"}
Wheres == Stores \cup WorkStates \cup Tasks

(* Task t is in the place p of kind k.                                     *)
In(k, p, t) ==
    \/ k = "store" /\ p \in Stores /\ t \in Range(items[p])
    \/ k = "queue" /\ p \in WorkStates /\ t \in Range(queue[p])
    \/ k = "got" /\ p \in WorkStates
         /\ \E e \in Upcoming : e.kind = "got" /\ e.stage = p /\ e.task = t
    \/ k = "trigger" /\ p \in WorkStates
         /\ \E e \in Upcoming : e.kind = "trigger" /\ e.stage = p /\ t \in Range(e.batch)
    \/ k = "job" /\ p \in Tasks /\ t \in Holds(p)

(* The last entry of the history of a task that is in a place.             *)
Written(k, p) ==
    CASE k = "store" -> Entry(IF p \in Terminal THEN "terminal" ELSE "start", p)
      [] k = "job" -> Entry("start", At(p))
      [] OTHER -> Entry("start", Source(p))

InTrigger(t) == \E s \in WorkStates : In("trigger", s, t)

(* A task that has entered is in exactly one place, which its history      *)
(* names.                                                                  *)
SpotsInv ==
    /\ \A t \in Tasks : \A k \in Spots, p \in Wheres : In(k, p, t) =>
          /\ history[t] = Written(k, p)
          /\ \A l \in Spots, r \in Wheres : In(l, r, t) => l = k /\ r = p
    /\ phase # "stopped" =>
          \A t \in Tasks : history[t] # NoEntry => \E k \in Spots, p \in Wheres : In(k, p, t)

(* Stores, queues and batches hold no task twice; only the operator with a *)
(* window collects, and the others' batches are single tasks.              *)
SeqsInv ==
    /\ \A s \in Stores : IsInjective(items[s])
    /\ \A s \in WorkStates : IsInjective(queue[s]) /\ (~Windowed(setting.cadence, s) => queue[s] = <<>>)
    /\ \A e \in Upcoming : e.kind = "trigger" =>
          /\ IsInjective(e.batch) /\ e.batch # <<>>
          /\ ~Windowed(setting.cadence, e.stage) => Len(e.batch) = 1

(* Where a job is when an event about it is scheduled.                     *)
StateOf(e) ==
  CASE e.kind = "assigned" -> "waiting" [] e.kind \in {"finish", "worked"} -> "working"
    [] e.kind = "wake" -> "paused" [] e.kind = "resumed" -> "resuming"
    [] e.kind = "stored" -> "routing" [] e.kind = "operated" -> "done"

Engaged(x) == \E e \in Upcoming : Concerns(e, x)

(* What a job is like in each of its states: whom its batch belongs to,    *)
(* what of it is still to be routed, and when it has a resource.           *)
JobOK(x) ==
    LET job == jobs[x] IN
    job.at # "none" =>
      /\ job.batch # <<>> /\ Head(job.batch) = x
      /\ IsInjective(job.batch) /\ IsInjective(job.todo)
      /\ job.at \notin {"routing", "done"} => job.todo = job.batch
      /\ job.at = "done" => job.todo = <<>>
      /\ ~Windowed(setting.cadence, job.stage) =>
           /\ Len(job.batch) = 1
           /\ job.at = "routing" => job.todo = <<>>
      /\ job.at = "waiting" <=> job.resource = None
      /\ job.at = "waiting" => job.pooled
      /\ job.at # "waiting" => job.resource \in Range(Team[job.stage])
      /\ IsSupport(x) => ~job.pooled /\ job.stage = "development"
      /\ job.at \in {"routing", "done"} => Engaged(x)
      /\ job.at = "routing" =>
           /\ ~InTrigger(x)
           /\ \A y \in Tasks : x \notin Holds(y)
           /\ job.stage = "deployment" => history[x].state \in {"qa_complete", "delivery"}

JobsInv == \A x \in Tasks : JobOK(x)

(* An event finds its job in the state that waits for it.                  *)
EventsInv ==
    \A e \in Upcoming :
        /\ \A x \in Tasks : Concerns(e, x) => jobs[x].at = StateOf(e)
        /\ e.kind = "assigned" => e.resource \in Range(Team[jobs[e.job].stage])
        /\ e.kind = "stored" /\ e.by \in Tasks
             /\ ~Windowed(setting.cadence, jobs[e.by].stage) => e.task = e.by

(* The requests that wait for a resource are those of waiting jobs, each   *)
(* once.                                                                   *)
WaitersInv ==
    \A s \in WorkStates :
        /\ IsInjective(waiters[s])
        /\ \A x \in Range(waiters[s]) :
              jobs[x].at = "waiting" /\ jobs[x].stage = s /\ ~Engaged(x)

(* A signal that is not yet triggered belongs to one paused job, whose     *)
(* resource the stack is of and that has no event scheduled: so its        *)
(* trigger finds it.                                                       *)
SignalsInv ==
    \A r \in Workers : \A i \in DOMAIN suspended[r] :
        LET y == suspended[r][i].of IN
        ~suspended[r][i].on =>
          /\ jobs[y].at = "paused" /\ jobs[y].resource = r /\ ~Engaged(y)
          /\ \A j \in DOMAIN suspended[r] :
                suspended[r][j].of = y /\ ~suspended[r][j].on => i = j

(* A live process is one whose timeout is scheduled; a developer's work    *)
(* never fails; testers, who are always taken from the pool, work for one  *)
(* job at a time and are never paused.                                     *)
ProcessInv ==
    /\ \A r \in Workers : process[r].state = "live" =>
          /\ process[r].of # None
          /\ Finish(process[r].of) \in Upcoming /\ jobs[process[r].of].resource = r
    /\ \A r \in Range(Team["development"]) : ~process[r].failed
    /\ \A r \in Range(Team["qa_testing"]) : Busy(r) =>
          /\ process[r].of # None
          /\ jobs[process[r].of].at = "working" /\ jobs[process[r].of].resource = r
    /\ \A x \in Tasks : jobs[x].at # "none" /\ jobs[x].stage = "qa_testing" =>
          /\ jobs[x].pooled /\ jobs[x].at \in {"waiting", "working", "routing", "done"}
          /\ jobs[x].at = "working" =>
               process[jobs[x].resource].of = x /\ Busy(jobs[x].resource)

(* While the backlog is put into the first store, nothing but that is      *)
(* going on.                                                               *)
Seeding ==
    /\ arrivals = 0 /\ alarm.signal = "off"
    /\ \E e \in Upcoming : OfWorkflow(e)
    /\ \A x \in Range(agenda) : OfWorkflow(x.ev) \/ (x.ev.kind = "arrival" /\ x.due > 0)
    /\ LET k == Len(items["pending"]) IN
         /\ k \in 1..Len(Backlog) /\ \A i \in 1..k : items["pending"][i] = Backlog[i]
         /\ \A t \in Tasks : history[t] # NoEntry => t \in Range(items["pending"])

(* The workflow's phases: what is scheduled, listened to and awaited in    *)
(* each, and which support tasks are still to come.                        *)
PhaseInv ==
    /\ phase = "seeding" => Seeding
    /\ phase # "seeding" => \A e \in Upcoming : ~OfWorkflow(e)
    /\ phase = "running" => alarm.signal \in {"armed", "triggered"} /\ alarm.limit = Len(Backlog)
    /\ phase = "stopped" => alarm.signal = "processed"
    /\ \A e \in Upcoming : /\ e.kind = "alarm" => alarm.signal = "triggered"
                           /\ e.kind = "over" => phase = "stopped"
                           /\ e.kind \in {"got", "trigger", "timer"} => phase # "seeding"
                           /\ e.kind = "timer" => setting.cadence > 0
                           /\ e.kind = "trigger" /\ phase = "running" => e.heard
                           /\ e.kind = "arrival" => arrivals < Len(Requests)
    /\ phase # "running" => listening = {} /\ awaiting = {}
    /\ \A e \in Upcoming : e.kind = "got" => e.stage \notin listening
    /\ phase = "running" =>
         \A s \in WorkStates : s \in awaiting <=> ~\E e \in Upcoming : e.kind = "trigger" /\ e.stage = s
    /\ \A i \in 1..Len(Requests) : i > arrivals => history[Requests[i]] = NoEntry

(* A timer that is due now finds no job between the end of its work and    *)
(* its end, so no deployed task can be in its batch and in a job at once.  *)
TimerInv ==
    \A x \in Range(agenda) : x.ev.kind = "timer" /\ x.due = 0 =>
        \A y \in Tasks : jobs[y].at \notin {"routing", "done"}

(* The alarm is set once the backlog is seeded, rings with the last        *)
(* delivery, and then everything of the backlog is delivered for good.     *)
AlarmInv ==
    /\ alarm.signal = "off" => items["delivery"] = <<>>
    /\ alarm.signal = "armed" => Len(items["delivery"]) < alarm.limit
    /\ alarm.signal \in {"triggered", "processed"} =>
         \A t \in DevTasks : history[t] = Entry("terminal", "delivery")
    /\ \A t \in Tasks : IsSupport(t) =>
         history[t].state \in {"none", "pending", "development", "support_complete"}

(* A resource that is assigned or used, as the pool sees it.               *)
AssignedTo(x, r) == \E e \in Upcoming : e.kind = "assigned" /\ e.job = x /\ e.resource = r
HoldsPooled(x, r) == jobs[x].at # "none" /\ jobs[x].resource = r /\ jobs[x].pooled

(* A resource of a pool is in one place: available, assigned to one        *)
(* waiting job, or used by one job that has it from the pool; one that is  *)
(* not yet hired is in none of them.                                       *)
PoolUse(s, n, r) ==
    /\ n > hired[s] => /\ r \notin Range(pool[s])
                       /\ \A x \in Tasks : ~AssignedTo(x, r) /\ ~HoldsPooled(x, r)
    /\ \A x \in Tasks : AssignedTo(x, r) => ~HoldsPooled(x, r) /\ r \notin Range(pool[s])
    /\ \A x \in Tasks : HoldsPooled(x, r) => r \notin Range(pool[s])
    /\ \A x, y \in Tasks : /\ AssignedTo(x, r) /\ AssignedTo(y, r) => x = y
                           /\ HoldsPooled(x, r) /\ HoldsPooled(y, r) => x = y
                           /\ AssignedTo(x, r) => ~HoldsPooled(y, r)

(* The pool takes on its team in order and gives every resource away once. *)
PoolInv ==
    /\ \A s \in WorkStates : /\ IsInjective(pool[s]) /\ Range(pool[s]) \subseteq Range(Team[s])
                             /\ hired[s] <= Len(Team[s])
    /\ \A s \in WorkStates : \A n \in 1..Len(Team[s]) : PoolUse(s, n, Team[s][n])
    /\ \A x, y \in Range(agenda) : Precedes(agenda, x, y) =>
         ~(x.ev.kind = "assigned" /\ x.ev = y.ev)

(* The developers' remaining work agrees with where a task is: none is     *)
(* left behind development, and what a timeout will end is what is left.   *)
FlowInv ==
    /\ \A t \in Tasks : history[t].state = "dev_complete" => left[t] = 0
    /\ \A t \in Tasks : history[t].state \in {"dev_complete", "qa_testing"} => t \notin rework
    /\ \A a \in Range(agenda) : a.ev.kind = "finish" =>
         /\ jobs[a.ev.job].stage = "development" => a.due <= left[a.ev.job]
         /\ jobs[a.ev.job].stage = "qa_testing" => left[a.ev.job] = 0
    /\ \A e \in Upcoming : e.kind = "worked" =>
         /\ jobs[e.job].stage = "development" /\ e.how = "returned" => left[e.job] = 0
         /\ jobs[e.job].stage = "qa_testing" =>
               process[jobs[e.job].resource].failed \/ left[e.job] = 0
         /\ jobs[e.job].stage # "development" => e.how = "returned"

(* The owner of a task is a resource of the work state's team.             *)
OwnersInv == \A s \in WorkStates, t \in Tasks : owners[s][t] \in Range(Team[s]) \cup {None}

(* Types, and what holds after an exception too: no history operation has  *)
(* raised.                                                                 *)
TypeInv ==
    /\ WorkflowTypeOK
    /\ agenda \in Seq(Dated)
    /\ \A t \in Tasks : history[t] # Invalid
    /\ phase = "over" => agenda = <<>>
    /\ OwnersInv

(* What one step may do to one task: the moves between work states and     *)
(* stores, and what they do to the remaining work.                         *)
Moves(t) ==
    LET goes(from, to) == history[t].state = from /\ history'[t].state = to
        same == left'[t] = left[t]
    IN \/ history'[t].state = history[t].state /\ same
       \/ goes("none", "pending") /\ same
       \/ \E s \in WorkStates : goes(Source(s), s) /\ same
       \/ goes("development", "development") /\ left'[t] <= left[t]
       \/ /\ goes("development", IF t \in DevTasks THEN "dev_complete" ELSE "support_complete")
          /\ left[t] = 0 /\ same
       \/ goes("qa_testing", "qa_testing") /\ left'[t] <= left[t] + Points(t)
       \/ goes("qa_testing", "pending") /\ same
       \/ goes("qa_testing", "qa_complete") /\ left[t] = 0 /\ same
       \/ goes("deployment", "delivery") /\ same
       \/ goes("deployment", "qa_complete") /\ same

(* No exception has ended the run, and it has not returned.                *)
Live == raised = {} /\ phase # "over"

-----------------------------------------------------------------------------
(* Schedule is a fold of Insert over the events of a step: by position, in *)
(* their order. Its recursion is unfolded here, once.                      *)

(* Numbers up to a bound have a greatest one.                              *)
LEMMA GreatestExists ==
  ASSUME NEW T, IsFiniteSet(T), T \subseteq Nat, T # {}
  PROVE  Max(T) \in T /\ \A y \in T : y <= Max(T)
<1> DEFINE Good == {U \in SUBSET T : U = {} \/ \E m \in U : \A y \in U : y <= m}
<1>1. ASSUME NEW U \in SUBSET T,
             \A W \in SUBSET U : W # U => W \in Good
      PROVE  U \in Good
  <2> SUFFICES ASSUME U # {}  PROVE \E m \in U : \A y \in U : y <= m
    OBVIOUS
  <2>1. PICK x \in U : TRUE
    OBVIOUS
  <2>2. U \ {x} \in Good
    BY <1>1, <2>1
  <2>3. CASE U \ {x} = {}
    BY <2>1, <2>3
  <2>4. CASE U \ {x} # {}
    <3>1. PICK m \in U \ {x} : \A y \in U \ {x} : y <= m
      BY <2>2, <2>4
    <3>2. m \in Nat /\ x \in Nat /\ \A y \in U : y \in Nat
      BY <2>1
    <3>3. CASE x <= m
      BY <3>1, <3>3
    <3>4. CASE m <= x
      <4>1. \A y \in U : y <= x
        BY <3>1, <3>2, <3>4
      <4>2. QED
        BY <4>1
    <3>5. QED
      BY <3>2, <3>3, <3>4
  <2>5. QED
    BY <2>3, <2>4
<1> HIDE DEF Good
<1>2. T \in Good
  BY <1>1, SubsetInduction
<1>3. \E m \in T : \A y \in T : m >= y
  BY <1>2 DEF Good
<1>4. QED
  BY <1>3 DEF Max

(* What the function that Schedule computes satisfies.                     *)
IsAgenda(g, base, events, D) ==
  g = [T \in SUBSET D |->
         IF T = {} THEN base ELSE Insert(g[T \ {Max(T)}], events[Max(T)])]

Positional(T) == IsFiniteSet(T) /\ T \subseteq Nat

(* Two functions of that form agree wherever their events do.              *)
LEMMA AgendaUnique ==
  ASSUME NEW base, NEW D, NEW V, NEW es, NEW fs, NEW g, NEW h,
         IsAgenda(g, base, es, D), IsAgenda(h, base, fs, V),
         NEW T, Positional(T), T \subseteq D, T \subseteq V,
         \A i \in T : es[i] = fs[i]
  PROVE  g[T] = h[T]
<1> DEFINE Good == {U \in SUBSET T : g[U] = h[U]}
<1>1. ASSUME NEW U \in SUBSET T,
             \A W \in SUBSET U : W # U => W \in Good
      PROVE  U \in Good
  <2>1. /\ g[U] = IF U = {} THEN base ELSE Insert(g[U \ {Max(U)}], es[Max(U)])
        /\ h[U] = IF U = {} THEN base ELSE Insert(h[U \ {Max(U)}], fs[Max(U)])
    BY DEF IsAgenda
  <2>2. CASE U = {}
    BY <2>1, <2>2
  <2>3. CASE U # {}
    <3>1. IsFiniteSet(U) /\ U \subseteq Nat
      BY FS_Subset DEF Positional
    <3>2. Max(U) \in U
      BY <2>3, <3>1, GreatestExists
    <3> DEFINE m == Max(U)
    <3> HIDE DEF m
    <3>3. m \in U
      BY <3>2 DEF m
    <3>4. U \ {m} \in Good
      BY <1>1, <3>3
    <3>5. es[m] = fs[m]
      BY <3>3
    <3>6. g[U] = Insert(g[U \ {m}], es[m]) /\ h[U] = Insert(h[U \ {m}], fs[m])
      BY <2>1, <2>3 DEF m
    <3>7. QED
      BY <3>4, <3>5, <3>6
  <2>4. QED
    BY <2>2, <2>3
<1> HIDE DEF Good
<1>2. T \in Good
  BY <1>1, SubsetInduction DEF Positional
<1>3. QED
  BY <1>2 DEF Good

(* There is such a function for every finite set of positions.             *)
LEMMA AgendaExists ==
  ASSUME NEW base, NEW es, NEW D, Positional(D)
  PROVE  \E g : IsAgenda(g, base, es, D)
<1> DEFINE Good == {T \in SUBSET D : \E g : IsAgenda(g, base, es, T)}
<1>1. ASSUME NEW T \in SUBSET D,
             \A U \in SUBSET T : U # T => U \in Good
      PROVE  T \in Good
  <2> DEFINE Value(U) == (CHOOSE g : IsAgenda(g, base, es, U))[U]
             g == [U \in SUBSET T |->
                     IF U = {} THEN base
                     ELSE Insert(Value(U \ {Max(U)}), es[Max(U)])]
  <2>1. ASSUME NEW U \in SUBSET T, U # T
        PROVE  Value(U) = g[U]
    <3> DEFINE own == CHOOSE k : IsAgenda(k, base, es, U)
    <3>1. IsAgenda(own, base, es, U)
      BY <1>1, <2>1
    <3> HIDE DEF own
    <3>2. own[U] = IF U = {} THEN base ELSE Insert(own[U \ {Max(U)}], es[Max(U)])
      BY <3>1 DEF IsAgenda
    <3>3. CASE U = {}
      BY <3>2, <3>3 DEF own
    <3>4. CASE U # {}
      <4> DEFINE V == U \ {Max(U)}
                 less == CHOOSE k : IsAgenda(k, base, es, V)
      <4>1. IsFiniteSet(U) /\ IsFiniteSet(V) /\ U \subseteq Nat
        BY FS_Subset DEF Positional
      <4>2. Max(U) \in U
        BY <3>4, <4>1, GreatestExists
      <4>3. V \subseteq U /\ V \in SUBSET T /\ V # T
        BY <4>2
      <4>4. IsAgenda(less, base, es, V)
        BY <1>1, <4>3
      <4> HIDE DEF less, V
      <4>5. own[V] = less[V]
        <5>1. Positional(V)
          BY <4>1, <4>3 DEF Positional
        <5>2. V \subseteq U /\ V \subseteq V
          BY <4>3
        <5>3. QED
          BY <3>1, <4>4, <5>1, <5>2, AgendaUnique
      <4>6. g[U] = Insert(less[V], es[Max(U)])
        BY <3>4 DEF less, V
      <4>7. own[U] = Insert(own[V], es[Max(U)])
        BY <3>2, <3>4 DEF V
      <4>8. Value(U) = own[U]
        BY DEF own
      <4> HIDE DEF g, Value
      <4>9. QED
        BY <4>5, <4>6, <4>7, <4>8
    <3>5. QED
      BY <3>3, <3>4
  <2>2. ASSUME NEW U \in SUBSET T, U # {}
        PROVE  Value(U \ {Max(U)}) = g[U \ {Max(U)}]
    <3>1. IsFiniteSet(U) /\ U \subseteq Nat
      BY FS_Subset DEF Positional
    <3>2. Max(U) \in U
      BY <2>2, <3>1, GreatestExists
    <3> DEFINE V == U \ {Max(U)}
    <3>3. V \in SUBSET T /\ V # T
      BY <3>2
    <3> HIDE DEF V, Value, g
    <3>4. Value(V) = g[V]
      BY <2>1, <3>3
    <3>5. QED
      BY <3>4 DEF V
  <2>3. IsAgenda(g, base, es, T)
    <3> HIDE DEF Value
    <3>1. QED
      BY <2>2 DEF IsAgenda
  <2>4. QED
    BY <2>3
<1> HIDE DEF Good
<1>2. D \in Good
  BY <1>1, SubsetInduction DEF Positional
<1>3. QED
  BY <1>2 DEF Good

(* Schedule is its value for all positions.                                *)
LEMMA ScheduleIsFold ==
  ASSUME NEW base, NEW S, NEW es \in Seq(S)
  PROVE  \E g : IsAgenda(g, base, es, DOMAIN es) /\ Schedule(base, es) = g[DOMAIN es]
<1> DEFINE g == CHOOSE h : IsAgenda(h, base, es, DOMAIN es)
<1>1. Schedule(base, es) = g[DOMAIN es]
  BY DEF Schedule, FoldLeft, MapThenFoldSet, IsAgenda
<1>2. DOMAIN es = 1..Len(es) /\ Len(es) \in Nat
  BY LenProperties
<1>3. Positional(DOMAIN es)
  BY <1>2, FS_Interval DEF Positional
<1>4. IsAgenda(g, base, es, DOMAIN es)
  BY <1>3, AgendaExists
<1>5. QED
  BY <1>1, <1>4

(* Nothing is scheduled, and the agenda stays.                             *)
LEMMA ScheduleNone ==
  ASSUME NEW base
  PROVE  Schedule(base, <<>>) = base
<1>1. PICK g : IsAgenda(g, base, <<>>, DOMAIN <<>>) /\ Schedule(base, <<>>) = g[DOMAIN <<>>]
  <2>1. <<>> \in Seq({})
    OBVIOUS
  <2>2. QED
    BY <2>1, ScheduleIsFold
<1>2. DOMAIN <<>> = {}
  OBVIOUS
<1>3. g[{}] = base
  BY <1>1, <1>2 DEF IsAgenda
<1>4. QED
  BY <1>1, <1>2, <1>3

(* The last of the events is inserted last.                                *)
LEMMA ScheduleLast ==
  ASSUME NEW base, NEW S, NEW es \in Seq(S), NEW e \in S
  PROVE  Schedule(base, es \o <<e>>) = Insert(Schedule(base, es), e)
<1> DEFINE fs == es \o <<e>>
           n == Len(es)
<1>1. n \in Nat /\ DOMAIN es = 1..n
  BY LenProperties
<1>2. /\ fs \in Seq(S) /\ DOMAIN fs = 1..(n + 1)
      /\ \A i \in 1..n : fs[i] = es[i]
      /\ fs[n + 1] = e
  <2>1. <<e>> \in Seq(S) /\ Len(<<e>>) = 1 /\ <<e>>[1] = e
    OBVIOUS
  <2>2. /\ fs \in Seq(S) /\ Len(fs) = n + 1
        /\ \A i \in 1..n + 1 : fs[i] = IF i <= n THEN es[i] ELSE <<e>>[i - n]
    BY <2>1, ConcatProperties
  <2>3. DOMAIN fs = 1..(n + 1)
    BY <2>2, LenProperties
  <2> HIDE DEF fs, n
  <2>4. QED
    BY <1>1, <2>1, <2>2, <2>3
<1>3. PICK g : IsAgenda(g, base, es, 1..n) /\ Schedule(base, es) = g[1..n]
  BY <1>1, ScheduleIsFold
<1>4. PICK h : IsAgenda(h, base, fs, 1..(n + 1)) /\ Schedule(base, fs) = h[1..(n + 1)]
  BY <1>2, ScheduleIsFold
<1> HIDE DEF fs, n
<1>5. Max(1..(n + 1)) = n + 1 /\ 1..(n + 1) # {}
  <2>1. IsFiniteSet(1..(n + 1)) /\ 1..(n + 1) \subseteq Nat /\ n + 1 \in 1..(n + 1)
    BY <1>1, FS_Interval
  <2>2. Max(1..(n + 1)) \in 1..(n + 1) /\ n + 1 <= Max(1..(n + 1))
    BY <2>1, GreatestExists
  <2>3. QED
    BY <1>1, <2>1, <2>2
<1>6. 1..(n + 1) \ {n + 1} = 1..n
  BY <1>1
<1>7. h[1..(n + 1)] = Insert(h[1..n], e)
  BY <1>2, <1>4, <1>5, <1>6 DEF IsAgenda
<1>8. g[1..n] = h[1..n]
  <2>1. IsFiniteSet(1..n) /\ 1..n \subseteq Nat /\ 1..n \subseteq 1..(n + 1)
    BY <1>1, FS_Interval
  <2>2. \A i \in 1..n : es[i] = fs[i]
    BY <1>2
  <2> DEFINE D == 1..n
             V == 1..(n + 1)
  <2>3. IsAgenda(g, base, es, D) /\ IsAgenda(h, base, fs, V)
    BY <1>3, <1>4
  <2>4. Positional(D) /\ D \subseteq V /\ D \subseteq D
        /\ \A i \in D : es[i] = fs[i]
    BY <2>1, <2>2 DEF Positional
  <2> HIDE DEF D, V
  <2>5. g[D] = h[D]
    BY <2>3, <2>4, AgendaUnique
  <2>6. QED
    BY <2>5 DEF D
<1>9. QED
  BY <1>3, <1>4, <1>7, <1>8 DEF fs

-----------------------------------------------------------------------------
(* The event queue: what insertion, removal and taking the head do to the  *)
(* order of the events. It stands for SimPy's heap of (time, insertion)    *)
(* pairs.                                                                  *)

(* The set of the first positions, counted.                                *)
LEMMA InitialSegment ==
  ASSUME NEW n \in Nat, NEW I \in SUBSET (1..n),
         \A i, j \in 1..n : i < j /\ j \in I => i \in I
  PROVE  Cardinality(I) \in 0..n /\ I = 1..Cardinality(I)
<1>1. IsFiniteSet(I)
  <2>1. IsFiniteSet(1..n)
    BY FS_Interval
  <2>2. QED
    BY <2>1, FS_Subset
<1>2. CASE I = {}
  <2>1. Cardinality(I) = 0
    BY <1>2, FS_EmptySet
  <2>2. 1..0 = {}
    OBVIOUS
  <2>3. QED
    BY <1>2, <2>1, <2>2
<1>3. CASE I # {}
  <2>0. I \subseteq Nat
    OBVIOUS
  <2>1. Max(I) \in I /\ \A y \in I : y <= Max(I)
    BY <1>1, <1>3, <2>0, GreatestExists
  <2> DEFINE m == Max(I)
  <2>2. m \in I /\ m \in 1..n /\ \A y \in I : y <= m
    BY <2>1
  <2> HIDE DEF m
  <2>3. I = 1..m
    <3>1. ASSUME NEW i \in 1..m  PROVE i \in I
      <4>1. i \in 1..n /\ (i < m \/ i = m)
        BY <2>2
      <4>2. QED
        BY <2>2, <4>1
    <3>2. ASSUME NEW i \in I  PROVE i \in 1..m
      BY <2>2, <3>2
    <3>3. QED
      BY <3>1, <3>2
  <2>4. Cardinality(1..m) = m
    BY <2>2, FS_Interval
  <2>5. QED
    BY <2>2, <2>3, <2>4
<1>4. QED
  BY <1>2, <1>3

(* What is behind a position of a sequence.                                *)
LEMMA SuffixFacts ==
  ASSUME NEW S, NEW q \in Seq(S), NEW k \in 0..Len(q), NEW n, n = Len(q),
         NEW c, c = SubSeq(q, k + 1, n)
  PROVE  c \in Seq(S) /\ Len(c) = n - k /\ \A i \in 1..n - k : c[i] = q[k + i]
<1> DEFINE m == k + 1
<1>1. n \in Nat /\ k \in Nat /\ k <= n /\ \A i \in 1..n : q[i] \in S
  BY ElementOfSeq, LenProperties
<1>2. m \in Int /\ \A i \in m..n : q[i] \in S
  BY <1>1
<1> HIDE DEF m
<1>3. /\ SubSeq(q, m, n) \in Seq(S)
      /\ Len(SubSeq(q, m, n)) = IF m <= n THEN n - m + 1 ELSE 0
      /\ \A i \in 1..n - m + 1 : SubSeq(q, m, n)[i] = q[m + i - 1]
  BY <1>1, <1>2, SubSeqProperties
<1>4. /\ c \in Seq(S)
      /\ Len(c) = IF k + 1 <= n THEN n - (k + 1) + 1 ELSE 0
      /\ \A i \in 1..n - (k + 1) + 1 : c[i] = q[(k + 1) + i - 1]
  BY <1>3 DEF m
<1>5. QED
  BY <1>1, <1>4

(* Insertion at a position moves what is behind it.                        *)
LEMMA InsertAtPosition ==
  ASSUME NEW S, NEW q \in Seq(S), NEW e \in S, NEW k \in 0..Len(q)
  PROVE  /\ InsertAt(q, k + 1, e) \in Seq(S)
         /\ Len(InsertAt(q, k + 1, e)) = Len(q) + 1
         /\ \A j \in 1..Len(q) + 1 : InsertAt(q, k + 1, e)[j] =
              IF j <= k THEN q[j] ELSE IF j = k + 1 THEN e ELSE q[j - 1]
<1> DEFINE n == Len(q)
           a == SubSeq(q, 1, k)
           b == <<e>>
           c == SubSeq(q, k + 1, n)
<1>1. n \in Nat /\ \A i \in 1..n : q[i] \in S
  BY ElementOfSeq, LenProperties
<1>2. a \in Seq(S) /\ Len(a) = k /\ \A i \in 1..k : a[i] = q[i]
  <2>1. \A i \in 1..k : q[i] \in S
    BY <1>1
  <2>2. QED
    BY <1>1, <2>1, SubSeqProperties, Z3
<1>3. c \in Seq(S) /\ Len(c) = n - k /\ \A i \in 1..n - k : c[i] = q[k + i]
  BY SuffixFacts
<1>4. b \in Seq(S) /\ Len(b) = 1 /\ b[1] = e
  OBVIOUS
<1> HIDE DEF a, b, c, n
<1>5. /\ a \o b \in Seq(S) /\ Len(a \o b) = k + 1
      /\ \A i \in 1..k + 1 : (a \o b)[i] = IF i <= k THEN q[i] ELSE e
  <2>0. k \in Nat
    BY <1>1 DEF n
  <2>1. /\ a \o b \in Seq(S) /\ Len(a \o b) = Len(a) + Len(b)
        /\ \A i \in 1..Len(a) + Len(b) :
             (a \o b)[i] = IF i <= Len(a) THEN a[i] ELSE b[i - Len(a)]
    BY <1>2, <1>4, ConcatProperties
  <2>2. QED
    BY <2>0, <1>2, <1>4, <2>1
<1> DEFINE d == a \o b
<1> HIDE DEF d
<1>6. /\ d \o c \in Seq(S) /\ Len(d \o c) = n + 1
      /\ \A i \in 1..n + 1 : (d \o c)[i] = IF i <= k + 1 THEN d[i] ELSE c[i - (k + 1)]
  <2>1. d \in Seq(S) /\ Len(d) = k + 1
    BY <1>5 DEF d
  <2>2. /\ d \o c \in Seq(S) /\ Len(d \o c) = Len(d) + Len(c)
        /\ \A i \in 1..Len(d) + Len(c) : (d \o c)[i] = IF i <= Len(d) THEN d[i] ELSE c[i - Len(d)]
    BY <1>3, <2>1, ConcatProperties
  <2>3. Len(d) + Len(c) = n + 1
    BY <1>1, <1>3, <2>1 DEF n
  <2>4. QED
    BY <2>1, <2>2, <2>3
<1>7. InsertAt(q, k + 1, e) = d \o c
  <2> DEFINE p == k + 1
  <2>1. p - 1 = k
    BY <1>1 DEF n
  <2>2. SubSeq(q, p, Len(q)) = c
    BY DEF c, n
  <2> HIDE DEF p
  <2>3. InsertAt(q, p, e) = SubSeq(q, 1, p - 1) \o <<e>> \o SubSeq(q, p, Len(q))
    BY DEF InsertAt
  <2>4. InsertAt(q, p, e) = d \o c
    BY <2>1, <2>2, <2>3 DEF a, b, d
  <2>5. QED
    BY <2>4 DEF p
<1>8. \A i \in 1..n + 1 : (d \o c)[i] =
        IF i <= k THEN q[i] ELSE IF i = k + 1 THEN e ELSE q[i - 1]
  <2> TAKE i \in 1..n + 1
  <2>0. k \in Nat /\ i \in Nat /\ n \in Nat /\ k <= n
    BY <1>1 DEF n
  <2>1. CASE i <= k + 1
    <3>1. (d \o c)[i] = d[i]
      BY <1>6, <2>1
    <3>2. i \in 1..k + 1
      BY <2>0, <2>1
    <3>3. d[i] = IF i <= k THEN q[i] ELSE e
      BY <1>5, <3>2 DEF d
    <3>4. ~(i <= k) => i = k + 1
      BY <2>0, <2>1
    <3>5. QED
      BY <3>1, <3>3, <3>4
  <2>2. CASE i > k + 1
    <3>1. i - (k + 1) \in 1..n - k /\ k + (i - (k + 1)) = i - 1
      BY <1>1, <2>2 DEF n
    <3>2. c[i - (k + 1)] = q[i - 1]
      BY <1>3, <3>1
    <3>3. ~(i <= k + 1) /\ ~(i <= k) /\ i # k + 1
      BY <2>0, <2>2
    <3>4. QED
      BY <1>6, <3>2, <3>3
  <2>3. i <= k + 1 \/ i > k + 1
    BY <2>0
  <2>4. QED
    BY <2>1, <2>2, <2>3
<1>9. QED
  <2> DEFINE r == d \o c
  <2>1. /\ r \in Seq(S) /\ Len(r) = n + 1
        /\ \A i \in 1..n + 1 : r[i] =
             IF i <= k THEN q[i] ELSE IF i = k + 1 THEN e ELSE q[i - 1]
    BY <1>6, <1>8
  <2>2. InsertAt(q, k + 1, e) = r
    BY <1>7
  <2> HIDE DEF r
  <2>3. QED
    BY <2>1, <2>2 DEF n

(* An event is scheduled behind those that are due no later.               *)
LEMMA InsertKeepsOrder ==
  ASSUME NEW S, \A x \in S : x.due \in Nat,
         NEW q \in Seq(S), NEW e \in S,
         \A i, j \in DOMAIN q : i < j => q[i].due <= q[j].due
  PROVE  /\ Insert(q, e) \in Seq(S)
         /\ Range(Insert(q, e)) = Range(q) \cup {e}
         /\ \A x, y : Precedes(Insert(q, e), x, y) =>
              \/ Precedes(q, x, y)
              \/ x \in Range(q) /\ y = e /\ x.due <= e.due
              \/ x = e /\ y \in Range(q) /\ y.due > e.due
<1> DEFINE n == Len(q)
           I == {i \in DOMAIN q : q[i].due <= e.due}
           k == Cardinality(I)
           r == Insert(q, e)
<1>1. n \in Nat /\ DOMAIN q = 1..n /\ \A i \in 1..n : q[i] \in S
  BY ElementOfSeq, LenProperties
<1>2. k \in 0..n /\ I = 1..k
  <2>1. I \in SUBSET (1..n)
    BY <1>1
  <2>2. \A i, j \in 1..n : i < j /\ j \in I => i \in I
    <3> TAKE i, j \in 1..n
    <3> HAVE i < j /\ j \in I
    <3>1. q[i].due <= q[j].due /\ q[j].due <= e.due
      BY <1>1
    <3>2. q[i].due \in Nat /\ q[j].due \in Nat /\ e.due \in Nat
      BY <1>1
    <3>3. q[i].due <= e.due
      BY <3>1, <3>2
    <3>4. QED
      BY <1>1, <3>3
  <2> HIDE DEF I
  <2>3. QED
    BY <1>1, <2>1, <2>2, InitialSegment
<1> HIDE DEF k
<1>3. r = InsertAt(q, k + 1, e)
  BY <1>2 DEF Insert, k
<1>4. \A i \in 1..n : i <= k <=> q[i].due <= e.due
  BY <1>1, <1>2
<1> HIDE DEF I, r, n
<1>5. /\ r \in Seq(S) /\ Len(r) = n + 1
      /\ \A j \in 1..n + 1 : r[j] = IF j <= k THEN q[j] ELSE IF j = k + 1 THEN e ELSE q[j - 1]
  <2> DEFINE p == InsertAt(q, k + 1, e)
  <2>1. k \in 0..Len(q)
    BY <1>2 DEF n
  <2>2. /\ p \in Seq(S) /\ Len(p) = Len(q) + 1
        /\ \A j \in 1..Len(q) + 1 : p[j] =
             IF j <= k THEN q[j] ELSE IF j = k + 1 THEN e ELSE q[j - 1]
    BY <2>1, InsertAtPosition
  <2>3. r = p
    BY <1>3
  <2> HIDE DEF p
  <2>4. QED
    BY <2>2, <2>3 DEF n
<1>6. DOMAIN r = 1..n + 1
  BY <1>5, LenProperties
<1>7. Range(r) = Range(q) \cup {e}
  <2>1. \A j \in 1..n + 1 : r[j] \in Range(q) \cup {e}
    <3> TAKE j \in 1..n + 1
    <3>1. CASE j <= k
      BY <1>1, <1>2, <1>5, <3>1 DEF Range
    <3>2. CASE j = k + 1
      BY <1>1, <1>2, <1>5, <3>2
    <3>3. CASE j > k + 1
      <4>1. j - 1 \in 1..n /\ r[j] = q[j - 1]
        BY <1>1, <1>2, <1>5, <3>3
      <4>2. QED
        BY <1>1, <4>1 DEF Range
    <3>4. QED
      BY <1>1, <1>2, <3>1, <3>2, <3>3
  <2>2. e \in Range(r)
    <3>1. k + 1 \in 1..n + 1 /\ r[k + 1] = e
      BY <1>1, <1>2, <1>5
    <3>2. QED
      BY <1>6, <3>1 DEF Range
  <2>3. \A i \in 1..n : q[i] \in Range(r)
    <3> TAKE i \in 1..n
    <3>1. CASE i <= k
      BY <1>1, <1>5, <1>6, <3>1 DEF Range
    <3>2. CASE i > k
      <4>1. i + 1 \in 1..n + 1 /\ r[i + 1] = q[i]
        BY <1>1, <1>2, <1>5, <3>2
      <4>2. QED
        BY <1>6, <4>1 DEF Range
    <3>3. QED
      BY <1>1, <1>2, <3>1, <3>2
  <2>4. QED
    BY <1>1, <1>6, <2>1, <2>2, <2>3 DEF Range
<1>8. ASSUME NEW x, NEW y, Precedes(r, x, y)
      PROVE  \/ Precedes(q, x, y)
             \/ x \in Range(q) /\ y = e /\ x.due <= e.due
             \/ x = e /\ y \in Range(q) /\ y.due > e.due
  <2>1. PICK i \in 1..n + 1, j \in 1..n + 1 : i < j /\ r[i] = x /\ r[j] = y
    BY <1>6, <1>8 DEF Precedes
  <2>2. CASE i = k + 1
    <3>1. x = e /\ j - 1 \in 1..n /\ y = q[j - 1] /\ ~(j - 1 <= k)
      BY <1>1, <1>2, <1>5, <2>1, <2>2
    <3>2. y \in Range(q) /\ ~(q[j - 1].due <= e.due)
      BY <1>1, <1>4, <3>1 DEF Range
    <3>3. q[j - 1].due \in Nat /\ e.due \in Nat
      BY <1>1, <3>1
    <3>4. QED
      BY <3>1, <3>2, <3>3
  <2>3. CASE j = k + 1
    <3>1. y = e /\ i \in 1..n /\ x = q[i] /\ i <= k
      BY <1>1, <1>2, <1>5, <2>1, <2>3
    <3>2. QED
      BY <1>1, <1>4, <3>1 DEF Range
  <2>4. CASE i # k + 1 /\ j # k + 1
    <3> DEFINE a == IF i <= k THEN i ELSE i - 1
               b == IF j <= k THEN j ELSE j - 1
    <3>1. a \in 1..n /\ b \in 1..n /\ a < b
      BY <1>1, <1>2, <2>1, <2>4
    <3>2. x = q[a] /\ y = q[b]
      BY <1>1, <1>2, <1>5, <2>1, <2>4
    <3> HIDE DEF a, b
    <3>3. QED
      BY <1>1, <3>1, <3>2 DEF Precedes
  <2>5. QED
    BY <2>2, <2>3, <2>4
<1>9. QED
  BY <1>5, <1>7, <1>8 DEF r

(* What stores, queues and stacks do: Append, Head and Tail.               *)
LEMMA AppendFacts ==
  ASSUME NEW S, NEW q \in Seq(S), NEW e \in S
  PROVE  /\ Append(q, e) \in Seq(S) /\ Len(Append(q, e)) = Len(q) + 1
         /\ Range(Append(q, e)) = Range(q) \cup {e}
         /\ IsInjective(q) /\ e \notin Range(q) => IsInjective(Append(q, e))
         /\ Append(q, e) # <<>>
         /\ Head(Append(q, e)) = IF q = <<>> THEN e ELSE Head(q)
<1> DEFINE n == Len(q)
           a == Append(q, e)
<1>1. n \in Nat /\ DOMAIN q = 1..n /\ \A i \in 1..n : q[i] \in S
  BY ElementOfSeq, LenProperties
<1>2. /\ a \in Seq(S) /\ Len(a) = n + 1 /\ a[n + 1] = e
      /\ \A i \in 1..n : a[i] = q[i]
  BY AppendProperties
<1>3. DOMAIN a = 1..n + 1
  BY <1>2, LenProperties
<1> HIDE DEF n, a
<1>4. Range(a) = Range(q) \cup {e}
  <2>1. Range(q) = {q[i] : i \in 1..n} /\ Range(a) = {a[i] : i \in 1..n + 1}
    BY <1>1, <1>3 DEF Range
  <2>2. \A i \in 1..n + 1 : i \in 1..n \/ i = n + 1
    BY <1>1
  <2>3. \A i \in 1..n : i \in 1..n + 1
    BY <1>1
  <2>4. n + 1 \in 1..n + 1
    BY <1>1
  <2>5. QED
    BY <1>2, <2>1, <2>2, <2>3, <2>4
<1>5. ASSUME IsInjective(q), e \notin Range(q)  PROVE IsInjective(a)
  <2>1. \A i, j \in 1..n : q[i] = q[j] => i = j
    BY <1>1, <1>5 DEF IsInjective
  <2>2. \A i \in 1..n : q[i] # e
    BY <1>1, <1>5 DEF Range
  <2>3. \A i, j \in 1..n + 1 : a[i] = a[j] => i = j
    BY <1>1, <1>2, <2>1, <2>2
  <2>4. QED
    BY <1>3, <2>3 DEF IsInjective
<1>6. a # <<>>
  BY <1>1, <1>2
<1>7. Head(a) = IF q = <<>> THEN e ELSE Head(q)
  <2>1. Head(a) = a[1]
    BY <1>2, <1>6, HeadTailProperties
  <2>2. CASE q = <<>>
    <3>1. n = 0
      BY <2>2 DEF n
    <3>2. QED
      BY <1>2, <2>1, <2>2, <3>1
  <2>3. CASE q # <<>>
    <3>1. Head(q) = q[1] /\ 1 \in 1..n
      BY <1>1, <2>3, HeadTailProperties, EmptySeq DEF n
    <3>2. QED
      BY <1>2, <2>1, <2>3, <3>1
  <2>4. QED
    BY <2>2, <2>3
<1>8. QED
  BY <1>2, <1>4, <1>5, <1>6, <1>7 DEF a, n

(* The head is taken from a sequence that is not empty.                    *)
LEMMA TailFacts ==
  ASSUME NEW S, NEW q \in Seq(S), q # <<>>
  PROVE  /\ Head(q) \in S /\ Tail(q) \in Seq(S) /\ Len(q) = Len(Tail(q)) + 1
         /\ Range(q) = {Head(q)} \cup Range(Tail(q))
         /\ IsInjective(q) => IsInjective(Tail(q)) /\ Head(q) \notin Range(Tail(q))
<1> DEFINE n == Len(q)
           b == Tail(q)
<1>1. n \in Nat \ {0} /\ DOMAIN q = 1..n /\ \A i \in 1..n : q[i] \in S
  BY ElementOfSeq, LenProperties, EmptySeq
<1>2. /\ Head(q) = q[1] /\ b \in Seq(S) /\ Len(b) = n - 1
      /\ \A i \in 1..n - 1 : b[i] = q[i + 1]
  BY <1>1, HeadTailProperties
<1>3. DOMAIN b = 1..n - 1
  BY <1>2, LenProperties
<1> HIDE DEF n, b
<1>4. Range(q) = {Head(q)} \cup Range(b)
  <2>1. Range(q) = {q[i] : i \in 1..n} /\ Range(b) = {b[i] : i \in 1..n - 1}
    BY <1>1, <1>3 DEF Range
  <2>2. \A i \in 1..n : i = 1 \/ (i - 1 \in 1..n - 1 /\ i - 1 + 1 = i)
    BY <1>1
  <2>3. \A i \in 1..n - 1 : i + 1 \in 1..n
    BY <1>1
  <2>4. 1 \in 1..n
    BY <1>1
  <2>5. \A i \in 1..n : q[i] = Head(q) \/ q[i] \in Range(b)
    <3> TAKE i \in 1..n
    <3>1. CASE i = 1
      BY <1>2, <3>1
    <3>2. CASE i - 1 \in 1..n - 1 /\ i - 1 + 1 = i
      <4>1. b[i - 1] = q[i]
        BY <1>2, <3>2
      <4>2. QED
        BY <2>1, <3>2, <4>1
    <3>3. QED
      BY <2>2, <3>1, <3>2
  <2>6. QED
    BY <1>2, <2>1, <2>3, <2>4, <2>5
<1>5. ASSUME IsInjective(q)  PROVE IsInjective(b) /\ Head(q) \notin Range(b)
  <2>1. \A i, j \in 1..n : q[i] = q[j] => i = j
    BY <1>1, <1>5 DEF IsInjective
  <2>2. \A i, j \in 1..n - 1 : b[i] = b[j] => i = j
    BY <1>1, <1>2, <2>1
  <2>3. \A i \in 1..n - 1 : b[i] # q[1]
    BY <1>1, <1>2, <2>1
  <2>4. QED
    BY <1>2, <1>3, <2>2, <2>3 DEF IsInjective, Range
<1>6. QED
  BY <1>1, <1>2, <1>4, <1>5 DEF b, n

(* The empty sequence.                                                     *)
LEMMA EmptyFacts ==
  /\ Range(<<>>) = {} /\ IsInjective(<<>>)
  /\ \A S : <<>> \in Seq(S) /\ Len(<<>>) = 0
  BY DEF Range, IsInjective

(* A sequence of one element.                                              *)
LEMMA SingleFacts ==
  ASSUME NEW e
  PROVE  /\ Range(<<e>>) = {e} /\ IsInjective(<<e>>) /\ <<e>> # <<>>
         /\ Len(<<e>>) = 1 /\ Head(<<e>>) = e /\ Tail(<<e>>) = <<>>
         /\ \A S : e \in S => <<e>> \in Seq(S)
  BY DEF Range, IsInjective

(* A sequence of length one has its head only.                             *)
LEMMA SingleSeq ==
  ASSUME NEW S, NEW q \in Seq(S), Len(q) = 1
  PROVE  /\ q # <<>> /\ Range(q) = {Head(q)} /\ Tail(q) = <<>> /\ Head(q) \in S
         /\ DOMAIN q = {1} /\ q[1] = Head(q)
<1>1. q # <<>>
  OBVIOUS
<1>2. DOMAIN q = 1..1 /\ Head(q) = q[1]
  BY <1>1, HeadTailProperties, LenProperties
<1>3. 1..1 = {1}
  OBVIOUS
<1>4. Tail(q) \in Seq(S) /\ Len(Tail(q)) = 0
  BY <1>1, HeadTailProperties
<1>5. Tail(q) = <<>>
  BY <1>4, EmptySeq
<1>6. Head(q) \in S
  BY <1>1, TailFacts
<1>7. QED
  BY <1>1, <1>2, <1>3, <1>5, <1>6 DEF Range

(* An event that will not happen is taken out of the queue.                *)
LEMMA WithoutEvent ==
  ASSUME NEW S, NEW q \in Seq(S), NEW v, \E i \in DOMAIN q : q[i].ev = v
  PROVE  /\ Without(q, v) \in Seq(S)
         /\ \A x, y : Precedes(Without(q, v), x, y) => Precedes(q, x, y)
         /\ Range(Without(q, v)) \subseteq Range(q)
         /\ \A x \in Range(q) : x.ev # v => x \in Range(Without(q, v))
         /\ (\A i, j \in DOMAIN q : q[i].ev = v /\ q[j].ev = v => i = j) =>
              \A x \in Range(Without(q, v)) : x.ev # v
<1> DEFINE n == Len(q)
           k == CHOOSE i \in DOMAIN q : q[i].ev = v
           a == SubSeq(q, 1, k - 1)
           c == SubSeq(q, k + 1, n)
           r == Without(q, v)
<1>1. n \in Nat /\ DOMAIN q = 1..n /\ \A i \in 1..n : q[i] \in S
  BY ElementOfSeq, LenProperties
<1>2. k \in 1..n /\ q[k].ev = v
  BY <1>1
<1>3. r = RemoveAt(q, k)
  BY DEF Without
<1> HIDE DEF k
<1>4. a \in Seq(S) /\ Len(a) = k - 1 /\ \A i \in 1..k - 1 : a[i] = q[i]
  <2>1. \A i \in 1..k - 1 : q[i] \in S
    BY <1>1, <1>2
  <2>2. QED
    BY <1>1, <1>2, <2>1, SubSeqProperties, Z3
<1>5. c \in Seq(S) /\ Len(c) = n - k /\ \A i \in 1..n - k : c[i] = q[k + i]
  <2>1. k \in 0..Len(q) /\ n = Len(q) /\ c = SubSeq(q, k + 1, n)
    BY <1>1, <1>2
  <2> HIDE DEF c, n, k
  <2>2. QED
    BY <2>1, SuffixFacts
<1>6. r = a \o c
  BY <1>3 DEF RemoveAt
<1> HIDE DEF a, c, r, n
<1>7. /\ r \in Seq(S) /\ Len(r) = n - 1
      /\ \A j \in 1..n - 1 : r[j] = IF j < k THEN q[j] ELSE q[j + 1]
  <2>1. /\ a \o c \in Seq(S) /\ Len(a \o c) = Len(a) + Len(c)
        /\ \A i \in 1..Len(a) + Len(c) :
             (a \o c)[i] = IF i <= Len(a) THEN a[i] ELSE c[i - Len(a)]
    BY <1>4, <1>5, ConcatProperties
  <2>2. Len(a) + Len(c) = n - 1
    BY <1>1, <1>2, <1>4, <1>5
  <2>3. ASSUME NEW j \in 1..n - 1  PROVE r[j] = IF j < k THEN q[j] ELSE q[j + 1]
    <3>1. CASE j < k
      <4>1. j <= Len(a) /\ j \in 1..k - 1
        BY <1>1, <1>2, <1>4, <3>1
      <4>2. QED
        BY <1>4, <1>6, <2>1, <2>2, <3>1, <4>1
    <3>2. CASE ~(j < k)
      <4>1. ~(j <= Len(a)) /\ j - Len(a) \in 1..n - k /\ k + (j - Len(a)) = j + 1
        BY <1>1, <1>2, <1>4, <3>2
      <4>2. c[j - Len(a)] = q[j + 1]
        BY <1>5, <4>1
      <4>3. QED
        BY <1>6, <2>1, <2>2, <3>2, <4>1, <4>2
    <3>3. QED
      BY <3>1, <3>2
  <2>4. QED
    BY <1>6, <2>1, <2>2, <2>3
<1>8. DOMAIN r = 1..n - 1
  BY <1>7, LenProperties
<1>9. ASSUME NEW j \in 1..n - 1
      PROVE  \E i \in 1..n : i # k /\ r[j] = q[i] /\ i = IF j < k THEN j ELSE j + 1
  BY <1>1, <1>2, <1>7
<1>10. ASSUME NEW x, NEW y, Precedes(r, x, y)  PROVE Precedes(q, x, y)
  <2>1. PICK i \in 1..n - 1, j \in 1..n - 1 : i < j /\ r[i] = x /\ r[j] = y
    BY <1>8, <1>10 DEF Precedes
  <2>2. PICK i1 \in 1..n : r[i] = q[i1] /\ i1 = IF i < k THEN i ELSE i + 1
    BY <1>9
  <2>3. PICK j1 \in 1..n : r[j] = q[j1] /\ j1 = IF j < k THEN j ELSE j + 1
    BY <1>9
  <2>4. i1 < j1
    BY <1>1, <1>2, <2>1, <2>2, <2>3
  <2>5. QED
    BY <1>1, <2>1, <2>2, <2>3, <2>4 DEF Precedes
<1>11. Range(r) \subseteq Range(q)
  BY <1>1, <1>8, <1>9 DEF Range
<1>12. ASSUME NEW x \in Range(q), x.ev # v  PROVE x \in Range(r)
  <2>1. PICK i \in 1..n : q[i] = x
    BY <1>1 DEF Range
  <2>2. i # k
    BY <1>2, <1>12, <2>1
  <2>3. CASE i < k
    <3>1. i \in 1..n - 1
      BY <1>1, <1>2, <2>3
    <3>2. r[i] = x
      BY <1>7, <2>1, <2>3, <3>1
    <3>3. QED
      BY <1>8, <3>1, <3>2 DEF Range
  <2>4. CASE i > k
    <3>1. i - 1 \in 1..n - 1 /\ ~(i - 1 < k) /\ i - 1 + 1 = i
      BY <1>1, <1>2, <2>4
    <3>2. r[i - 1] = x
      BY <1>7, <2>1, <3>1
    <3>3. QED
      BY <1>8, <3>1, <3>2 DEF Range
  <2>5. QED
    BY <1>1, <1>2, <2>2, <2>3, <2>4
<1>13. ASSUME \A i, j \in DOMAIN q : q[i].ev = v /\ q[j].ev = v => i = j, NEW x \in Range(r)
       PROVE  x.ev # v
  <2>1. PICK j \in 1..n - 1 : x = r[j]
    BY <1>8 DEF Range
  <2>2. PICK i \in 1..n : i # k /\ r[j] = q[i]
    BY <1>9
  <2>3. QED
    BY <1>1, <1>2, <1>13, <2>1, <2>2
<1>14. QED
  BY <1>7, <1>10, <1>11, <1>12, <1>13 DEF r

(* The time DueIn returns is that of an entry with the event.              *)
LEMMA DueInEvent ==
  ASSUME NEW q, NEW v, NEW x \in Range(q), x.ev = v
  PROVE  \E y \in Range(q) : y.ev = v /\ DueIn(q, v) = y.due
  BY DEF DueIn

(* Once the head is taken, the others follow in their order, due earlier.  *)
LEMMA RestFacts ==
  ASSUME agenda \in Seq(Dated), agenda # <<>>, Head(agenda) \in Dated,
         \A i, j \in DOMAIN agenda : i < j => agenda[i].due <= agenda[j].due
  PROVE  /\ Rest \in Seq(Dated)
         /\ Head(agenda) \in Range(agenda)
         /\ Upcoming = {Occurring} \cup Evs(Rest)
         /\ \A y \in Range(Rest) : \E x \in Range(agenda) :
              /\ x.ev = y.ev /\ x.due = y.due + Head(agenda).due
              /\ Precedes(agenda, Head(agenda), x)
         /\ \A x, y : Precedes(Rest, x, y) => \E u, w \in Range(agenda) :
              /\ Precedes(agenda, u, w) /\ u.ev = x.ev /\ w.ev = y.ev
              /\ u.due = x.due + Head(agenda).due /\ w.due = y.due + Head(agenda).due
<1> DEFINE n == Len(agenda)
           d == Head(agenda).due
           r == Rest
           f == [i \in 1..n - 1 |-> [agenda[i + 1] EXCEPT !.due = @ - d]]
<1>1. n \in Nat \ {0} /\ DOMAIN agenda = 1..n /\ \A i \in 1..n : agenda[i] \in Dated
  BY ElementOfSeq, LenProperties, EmptySeq
<1>2. Head(agenda) = agenda[1] /\ d \in Nat
  BY HeadTailProperties DEF Dated
<1>3. \A i \in 1..n : agenda[i].due \in Nat /\ agenda[i].ev \in Events
  BY <1>1 DEF Dated
<1>4. \A i \in 1..n : d <= agenda[i].due
  <2> TAKE i \in 1..n
  <2>1. 1 \in 1..n /\ (i = 1 \/ 1 < i)
    BY <1>1
  <2>2. QED
    BY <1>1, <1>2, <1>3, <2>1
<1>5. \A i \in 1..n - 1 : /\ i + 1 \in 1..n
                          /\ f[i].due = agenda[i + 1].due - d /\ f[i].ev = agenda[i + 1].ev
                          /\ f[i] \in Dated
  <2> TAKE i \in 1..n - 1
  <2>1. i + 1 \in 1..n
    BY <1>1
  <2>2. agenda[i + 1] \in Dated /\ agenda[i + 1].due - d \in Nat
    BY <1>1, <1>2, <1>3, <1>4, <2>1
  <2>3. f[i] = [agenda[i + 1] EXCEPT !.due = @ - d]
    OBVIOUS
  <2> HIDE DEF f
  <2>4. QED
    BY <2>1, <2>2, <2>3 DEF Dated
<1>6. r = f
  BY DEF Rest
<1> HIDE DEF r, f, d
<1>7. r \in Seq(Dated) /\ Len(r) = n - 1 /\ DOMAIN r = 1..n - 1
  <2>1. DOMAIN r = 1..n - 1
    BY <1>6 DEF f
  <2>2. r \in [1..n - 1 -> Dated]
    BY <1>5, <1>6, <2>1 DEF f
  <2>3. n - 1 \in Nat
    BY <1>1
  <2> HIDE DEF n
  <2>4. r \in Seq(Dated)
    BY <2>2, <2>3, SeqDef
  <2>5. QED
    BY <2>1, <2>3, <2>4, LenProperties
<1>8. Head(agenda) \in Range(agenda)
  BY <1>1, <1>2 DEF Range
<1>9. ASSUME NEW y \in Range(r)
      PROVE  \E x \in Range(agenda) : /\ x.ev = y.ev /\ x.due = y.due + d
                                     /\ Precedes(agenda, Head(agenda), x)
  <2>1. PICK i \in 1..n - 1 : y = r[i]
    BY <1>7 DEF Range
  <2>2. agenda[i + 1].ev = y.ev /\ i + 1 \in 1..n /\ y.due = agenda[i + 1].due - d
    BY <1>5, <1>6, <2>1
  <2>3. agenda[i + 1].due = y.due + d
    BY <1>2, <1>3, <2>2 DEF d
  <2>4. Precedes(agenda, Head(agenda), agenda[i + 1])
    BY <1>1, <1>2, <2>2 DEF Precedes
  <2>5. agenda[i + 1] \in Range(agenda)
    BY <1>1, <2>2 DEF Range
  <2>6. QED
    BY <2>2, <2>3, <2>4, <2>5
<1>10. ASSUME NEW x, NEW y, Precedes(r, x, y)
       PROVE  \E u, w \in Range(agenda) :
                /\ Precedes(agenda, u, w) /\ u.ev = x.ev /\ w.ev = y.ev
                /\ u.due = x.due + d /\ w.due = y.due + d
  <2>1. PICK i \in 1..n - 1, j \in 1..n - 1 : i < j /\ r[i] = x /\ r[j] = y
    BY <1>7, <1>10 DEF Precedes
  <2>2. /\ agenda[i + 1].ev = x.ev /\ i + 1 \in 1..n /\ x.due = agenda[i + 1].due - d
        /\ agenda[j + 1].ev = y.ev /\ j + 1 \in 1..n /\ y.due = agenda[j + 1].due - d
        /\ i + 1 < j + 1
    BY <1>1, <1>5, <1>6, <2>1
  <2>3. agenda[i + 1].due = x.due + d /\ agenda[j + 1].due = y.due + d
    BY <1>2, <1>3, <2>2 DEF d
  <2>4. Precedes(agenda, agenda[i + 1], agenda[j + 1])
    BY <1>1, <2>2 DEF Precedes
  <2>5. agenda[i + 1] \in Range(agenda) /\ agenda[j + 1] \in Range(agenda)
    BY <1>1, <2>2 DEF Range
  <2>6. QED
    BY <2>2, <2>3, <2>4, <2>5
<1>11. Upcoming = {Occurring} \cup Evs(r)
  <2>1. Upcoming = {agenda[i].ev : i \in 1..n} /\ Evs(r) = {r[i].ev : i \in 1..n - 1}
    BY <1>1, <1>7 DEF Upcoming, Evs
  <2>2. \A i \in 1..n - 1 : r[i].ev = agenda[i + 1].ev /\ i + 1 \in 1..n
    BY <1>5, <1>6
  <2>3. Occurring = agenda[1].ev /\ 1 \in 1..n
    BY <1>1, <1>2 DEF Occurring
  <2>4. \A i \in 1..n : i = 1 \/ (i - 1 \in 1..n - 1 /\ i - 1 + 1 = i)
    BY <1>1
  <2> HIDE DEF n
  <2>5. ASSUME NEW i \in 1..n  PROVE agenda[i].ev \in {Occurring} \cup Evs(r)
    <3>1. CASE i = 1
      BY <2>3, <3>1
    <3>2. CASE i - 1 \in 1..n - 1 /\ i - 1 + 1 = i
      <4>1. r[i - 1].ev = agenda[i].ev
        BY <2>2, <3>2
      <4>2. QED
        BY <2>1, <3>2, <4>1
    <3>3. QED
      BY <2>4, <3>1, <3>2
  <2>6. QED
    BY <2>1, <2>2, <2>3, <2>5
<1>12. QED
  BY <1>7, <1>8, <1>9, <1>10, <1>11 DEF r, d

-----------------------------------------------------------------------------
(* Events, and the agenda as a step finds and leaves it.                   *)

(* The fields an event has, by its kind.                                   *)
LEMMA EventFields ==
  ASSUME NEW e \in Events
  PROVE  /\ e.kind \in {"arrival", "timer", "alarm", "over", "got", "trigger", "assigned",
                        "returned", "stored", "finish", "wake", "resumed", "operated", "worked"}
         /\ e.kind = "got" => e.stage \in WorkStates /\ e.task \in Tasks
         /\ e.kind = "trigger" => e.stage \in WorkStates /\ e.batch \in Seq(Tasks)
                                  /\ e.heard \in BOOLEAN
         /\ e.kind = "assigned" => e.job \in Tasks /\ e.resource \in Workers
         /\ e.kind = "returned" => e.stage \in WorkStates
         /\ e.kind = "stored" => e.store \in Stores /\ e.task \in Tasks /\ e.by \in Actors
         /\ e.kind \in {"finish", "wake", "resumed", "operated", "worked"} => e.job \in Tasks
         /\ e.kind = "worked" => e.how \in {"returned", "interrupted"}
         /\ e.kind = "finish" => e = Finish(e.job)
<1>1. CASE e \in [kind : {"arrival", "timer", "alarm", "over"}]
  BY <1>1
<1>2. CASE e \in [kind : {"got"}, stage : WorkStates, task : Tasks]
  BY <1>2
<1>3. CASE e \in [kind : {"trigger"}, stage : WorkStates, batch : Seq(Tasks), heard : BOOLEAN]
  BY <1>3
<1>4. CASE e \in [kind : {"assigned"}, job : Tasks, resource : Workers]
  BY <1>4
<1>5. CASE e \in [kind : {"returned"}, stage : WorkStates]
  BY <1>5
<1>6. CASE e \in [kind : {"stored"}, store : Stores, task : Tasks, by : Actors]
  BY <1>6
<1>7. CASE e \in [kind : {"finish", "wake", "resumed", "operated"}, job : Tasks]
  BY <1>7 DEF Finish
<1>8. CASE e \in [kind : {"worked"}, job : Tasks, how : {"returned", "interrupted"}]
  BY <1>8
<1>9. QED
  BY <1>1, <1>2, <1>3, <1>4, <1>5, <1>6, <1>7, <1>8 DEF Events

(* The events that the actions build are events.                           *)
LEMMA EventTypes ==
  /\ Arrival \in Events /\ Timer \in Events /\ Over \in Events /\ [kind |-> "alarm"] \in Events
  /\ \A s \in WorkStates, t \in Tasks : Got(s, t) \in Events
  /\ \A s \in WorkStates : Returned(s) \in Events
  /\ \A x \in Tasks : /\ Finish(x) \in Events /\ Wake(x) \in Events /\ Resumed(x) \in Events
                      /\ Operated(x) \in Events
                      /\ \A how \in {"returned", "interrupted"} : Worked(x, how) \in Events
                      /\ \A r \in Workers : Assigned(x, r) \in Events
  /\ \A s \in Stores, t \in Tasks, a \in Actors :
       [kind |-> "stored", store |-> s, task |-> t, by |-> a] \in Events
  /\ \A s \in WorkStates, b \in Seq(Tasks), h \in BOOLEAN :
       [kind |-> "trigger", stage |-> s, batch |-> b, heard |-> h] \in Events
<1>1. Arrival \in Events /\ Timer \in Events /\ Over \in Events /\ [kind |-> "alarm"] \in Events
  BY DEF Arrival, Timer, Over, Events
<1>2. \A s \in WorkStates, t \in Tasks : Got(s, t) \in Events
  BY DEF Got, Events
<1>3. \A s \in WorkStates : Returned(s) \in Events
  BY DEF Returned, Events
<1>4. ASSUME NEW x \in Tasks
      PROVE  /\ Finish(x) \in Events /\ Wake(x) \in Events /\ Resumed(x) \in Events
             /\ Operated(x) \in Events
  BY DEF Finish, Wake, Resumed, Operated, Events
<1>5. ASSUME NEW x \in Tasks, NEW how \in {"returned", "interrupted"}
      PROVE  Worked(x, how) \in Events
  BY DEF Worked, Events
<1>6. ASSUME NEW x \in Tasks, NEW r \in Workers  PROVE Assigned(x, r) \in Events
  BY DEF Assigned, Events
<1>7. ASSUME NEW s \in Stores, NEW t \in Tasks, NEW a \in Actors
      PROVE  [kind |-> "stored", store |-> s, task |-> t, by |-> a] \in Events
  BY DEF Events
<1>8. ASSUME NEW s \in WorkStates, NEW b \in Seq(Tasks), NEW h \in BOOLEAN
      PROVE  [kind |-> "trigger", stage |-> s, batch |-> b, heard |-> h] \in Events
  BY DEF Events
<1>9. QED
  BY <1>1, <1>2, <1>3, <1>4, <1>5, <1>6, <1>7, <1>8

(* Events and entries of a queue.                                          *)
LEMMA EvsRange ==
  ASSUME NEW q
  PROVE  /\ \A x \in Range(q) : x.ev \in Evs(q)
         /\ \A e \in Evs(q) : \E x \in Range(q) : x.ev = e
  BY DEF Evs, Range

(* A clash does not depend on the order.                                   *)
LEMMA ClashSymmetric ==
  ASSUME NEW e, NEW f, Clash(e, f)  PROVE Clash(f, e)
  BY DEF Clash

(* The entries are in the order of time.                                   *)
Ascending(q) == \A i, j \in DOMAIN q : i < j => q[i].due <= q[j].due

(* An orderly agenda is in the order of time.                              *)
LEMMA OrderlyAscends ==
  ASSUME NEW c, NEW q, Orderly(c, q)  PROVE Ascending(q)
<1> SUFFICES ASSUME NEW i \in DOMAIN q, NEW j \in DOMAIN q, i < j  PROVE q[i].due <= q[j].due
  BY DEF Ascending
<1>1. Precedes(q, q[i], q[j]) /\ q[i] \in Range(q) /\ q[j] \in Range(q)
  BY DEF Precedes, Range
<1>2. QED
  BY <1>1 DEF Orderly

(* The order that WorkflowTypeOK states follows.                           *)
LEMMA SortedAscends ==
  ASSUME agenda \in Seq(Dated), Ascending(agenda)  PROVE Sorted
<1>1. DOMAIN agenda = 1..Len(agenda) /\ Len(agenda) \in Nat
  BY LenProperties
<1>2. ASSUME NEW i \in 2..Len(agenda)  PROVE agenda[i - 1].due <= agenda[i].due
  <2>1. i - 1 \in DOMAIN agenda /\ i \in DOMAIN agenda /\ i - 1 < i
    BY <1>1
  <2>2. QED
    BY <2>1 DEF Ascending
<1>3. QED
  BY <1>2 DEF Sorted

(* The event that happens, and what is left of the agenda.                 *)
LEMMA HeadFacts ==
  ASSUME agenda \in Seq(Dated), agenda # <<>>, NEW c, Orderly(c, agenda)
  PROVE  /\ Rest \in Seq(Dated) /\ Orderly(c, Rest)
         /\ Head(agenda) \in Dated /\ Head(agenda) \in Range(agenda)
         /\ Occurring \in Events /\ Head(agenda).due \in Nat
         /\ Upcoming = {Occurring} \cup Evs(Rest) /\ Evs(Rest) \subseteq Events
         /\ \A e \in Evs(Rest) : ~Clash(Occurring, e) /\ ~TooLate(c, Occurring, e)
         /\ Occurring.kind \notin Delayed =>
              /\ Head(agenda).due = 0
              /\ \A y \in Range(Rest) : y.ev.kind = "timer" => y.due > 0
         /\ \A y \in Range(Rest) : /\ y \in Dated
                                   /\ \E x \in Range(agenda) :
                                        x.ev = y.ev /\ x.due = y.due + Head(agenda).due
         /\ Head(agenda).due > 0 => \A e \in Upcoming : e.kind \in Delayed
<1> DEFINE h == Head(agenda)
           d == h.due
<1>1. h \in Dated
  BY TailFacts
<1>2. d \in Nat /\ Occurring \in Events
  BY <1>1 DEF Dated, Occurring
<1>3. \A i, j \in DOMAIN agenda : i < j => agenda[i].due <= agenda[j].due
  BY OrderlyAscends DEF Ascending
<1>4. /\ Rest \in Seq(Dated)
      /\ h \in Range(agenda)
      /\ Upcoming = {Occurring} \cup Evs(Rest)
      /\ \A y \in Range(Rest) : \E x \in Range(agenda) :
            x.ev = y.ev /\ x.due = y.due + d /\ Precedes(agenda, h, x)
      /\ \A x, y : Precedes(Rest, x, y) => \E u, w \in Range(agenda) :
              /\ Precedes(agenda, u, w) /\ u.ev = x.ev /\ w.ev = y.ev
              /\ u.due = x.due + d /\ w.due = y.due + d
  BY <1>1, <1>3, RestFacts
<1>5. /\ \A y \in Range(Rest) : y \in Dated
      /\ \A y \in Range(agenda) : y \in Dated
  BY <1>4, RangeOfSeq
<1>6. /\ \A y \in Range(Rest) : y.due \in Nat /\ y.ev \in Events
      /\ \A y \in Range(agenda) : y.due \in Nat /\ y.ev \in Events
  BY <1>5 DEF Dated
<1> HIDE DEF d, h
<1>7. ASSUME NEW y \in Range(Rest)
      PROVE  /\ ~Clash(Occurring, y.ev) /\ ~TooLate(c, Occurring, y.ev)
             /\ y.ev.kind = "timer" /\ Occurring.kind \notin Delayed => y.due > 0
             /\ Occurring.kind \notin Delayed => d = 0
  <2>1. PICK x \in Range(agenda) : x.ev = y.ev /\ x.due = y.due + d /\ Precedes(agenda, h, x)
    BY <1>4
  <2>2. /\ ~Clash(h.ev, x.ev) /\ ~TooLate(c, h.ev, x.ev)
        /\ x.ev.kind = "timer" /\ x.due = 0 => h.ev.kind \in Delayed
        /\ h.ev.kind \notin Delayed => h.due = 0
    BY <1>4, <2>1 DEF Orderly, Sane
  <2>3. x.due = 0 <=> (y.due = 0 /\ d = 0)
    BY <1>2, <1>6, <2>1
  <2>4. y.due > 0 <=> y.due # 0
    BY <1>6
  <2>5. QED
    BY <2>1, <2>2, <2>3, <2>4 DEF Occurring, h, d
<1>8. Occurring.kind \notin Delayed => d = 0
  BY <1>4 DEF Orderly, Sane, Occurring, h, d
<1>9. ASSUME NEW e \in Upcoming, d > 0  PROVE e.kind \in Delayed
  <2>1. CASE e = Occurring
    BY <1>8, <1>9, <2>1
  <2>2. CASE e \in Evs(Rest)
    <3>1. PICK y \in Range(Rest) : y.ev = e
      BY <2>2, EvsRange
    <3>2. PICK x \in Range(agenda) : x.ev = y.ev /\ x.due = y.due + d
      BY <1>4
    <3>3. x.due # 0
      BY <1>2, <1>6, <1>9, <3>2
    <3>4. Sane(x)
      BY DEF Orderly
    <3>5. QED
      BY <3>1, <3>2, <3>3, <3>4 DEF Sane
  <2>3. QED
    BY <1>4, <2>1, <2>2
<1>10. ASSUME NEW x \in Range(Rest)  PROVE Sane(x)
  <2>1. PICK u \in Range(agenda) : u.ev = x.ev /\ u.due = x.due + d
    BY <1>4
  <2>2. u.ev.kind \notin Delayed => u.due = 0
    BY DEF Orderly, Sane
  <2>3. u.due = 0 => x.due = 0
    BY <1>2, <1>6, <2>1
  <2>4. QED
    BY <2>1, <2>2, <2>3 DEF Sane
<1>11. ASSUME NEW x \in Range(Rest), NEW y \in Range(Rest), Precedes(Rest, x, y)
       PROVE  /\ x.due <= y.due /\ ~Clash(x.ev, y.ev) /\ ~TooLate(c, x.ev, y.ev)
              /\ y.ev.kind = "timer" /\ y.due = 0 => x.ev.kind \in Delayed
  <2>1. PICK u \in Range(agenda), w \in Range(agenda) :
          /\ Precedes(agenda, u, w) /\ u.ev = x.ev /\ w.ev = y.ev
          /\ u.due = x.due + d /\ w.due = y.due + d
    BY <1>4, <1>11
  <2>2. /\ u.due <= w.due /\ ~Clash(u.ev, w.ev) /\ ~TooLate(c, u.ev, w.ev)
        /\ w.ev.kind = "timer" /\ w.due = 0 => u.ev.kind \in Delayed
        /\ u.ev.kind \notin Delayed => u.due = 0
    BY <2>1 DEF Orderly, Sane
  <2>3. x.due <= y.due
    BY <1>2, <1>6, <2>1, <2>2
  <2>4. y.due = 0 /\ w.due # 0 => u.due # 0
    BY <1>2, <1>6, <2>1
  <2>5. QED
    BY <2>1, <2>2, <2>3, <2>4
<1>12. Orderly(c, Rest)
  BY <1>10, <1>11 DEF Orderly
<1>13. \A e \in Evs(Rest) : /\ ~Clash(Occurring, e) /\ ~TooLate(c, Occurring, e)
                           /\ e \in Events
  BY <1>6, <1>7, EvsRange
<1>14. QED
  BY <1>1, <1>2, <1>4, <1>5, <1>7, <1>8, <1>9, <1>12, <1>13 DEF d, h

-----------------------------------------------------------------------------
(* What is scheduled.                                                      *)

Fits(c, E, e) ==
    /\ Sane(e)
    /\ e.ev.kind = "timer" => e.due > 0
    /\ \A f \in E : ~Clash(f, e.ev) /\ ~TooLate(c, f, e.ev)

(* An event that fits is inserted without disorder.                        *)
LEMMA InsertOrderly ==
  ASSUME NEW c, NEW q \in Seq(Dated), Orderly(c, q), NEW e \in Dated, Fits(c, Evs(q), e)
  PROVE  Orderly(c, Insert(q, e))
<1> DEFINE r == Insert(q, e)
<1>1. \A x \in Dated : x.due \in Nat /\ x.ev \in Events
  BY DEF Dated
<1>2. \A i, j \in DOMAIN q : i < j => q[i].due <= q[j].due
  BY OrderlyAscends DEF Ascending
<1>3. /\ Range(r) = Range(q) \cup {e}
      /\ \A x, y : Precedes(r, x, y) =>
              \/ Precedes(q, x, y)
              \/ x \in Range(q) /\ y = e /\ x.due <= e.due
              \/ x = e /\ y \in Range(q) /\ y.due > e.due
  BY <1>1, <1>2, InsertKeepsOrder
<1>4. \A x \in Range(q) : x \in Dated /\ x.ev \in Evs(q)
  BY RangeOfSeq, EvsRange
<1>5. \A x \in Range(r) : Sane(x)
  BY <1>3 DEF Orderly, Fits
<1> HIDE DEF r
<1>6. ASSUME NEW x \in Range(r), NEW y \in Range(r), Precedes(r, x, y)
      PROVE  /\ x.due <= y.due /\ ~Clash(x.ev, y.ev) /\ ~TooLate(c, x.ev, y.ev)
             /\ y.ev.kind = "timer" /\ y.due = 0 => x.ev.kind \in Delayed
  <2>1. CASE Precedes(q, x, y)
    <3>1. x \in Range(q) /\ y \in Range(q)
      BY <2>1 DEF Precedes, Range
    <3>2. QED
      BY <2>1, <3>1 DEF Orderly
  <2>2. CASE x \in Range(q) /\ y = e /\ x.due <= e.due
    <3>1. ~Clash(x.ev, e.ev) /\ ~TooLate(c, x.ev, e.ev)
      BY <1>4, <2>2 DEF Fits
    <3>2. e.ev.kind = "timer" => e.due # 0
      BY <1>1 DEF Fits
    <3>3. QED
      BY <2>2, <3>1, <3>2
  <2>3. CASE x = e /\ y \in Range(q) /\ y.due > e.due
    <3>1. ~Clash(y.ev, e.ev)
      BY <1>4, <2>3 DEF Fits
    <3>2. ~Clash(e.ev, y.ev)
      BY <3>1, ClashSymmetric
    <3>3. y.due \in Nat /\ e.due \in Nat
      BY <1>1, <1>4, <2>3
    <3>4. y.due # 0 /\ e.due <= y.due
      BY <2>3, <3>3
    <3>5. y.ev.kind \in Delayed
      BY <2>3, <3>4 DEF Orderly, Sane
    <3>6. ~TooLate(c, e.ev, y.ev)
      BY <3>5 DEF TooLate, Delayed
    <3>7. QED
      BY <2>3, <3>2, <3>4, <3>6
  <2>4. QED
    BY <1>3, <1>6, <2>1, <2>2, <2>3
<1>7. QED
  BY <1>5, <1>6 DEF Orderly, r

(* Scheduling nothing or one event.                                        *)
LEMMA ScheduleOne ==
  ASSUME NEW q \in Seq(Dated), Ascending(q), NEW fs \in Seq(Dated),
         fs = <<>> \/ \E e \in Dated : fs = <<e>>
  PROVE  /\ Schedule(q, fs) \in Seq(Dated) /\ Ascending(Schedule(q, fs))
         /\ Range(Schedule(q, fs)) = Range(q) \cup Range(fs)
         /\ Evs(Schedule(q, fs)) = Evs(q) \cup Evs(fs)
         /\ \A x, y : Precedes(Schedule(q, fs), x, y) =>
              \/ Precedes(q, x, y)
              \/ x \in Range(fs) \/ y \in Range(fs)
         /\ \A c : /\ Orderly(c, q)
                   /\ \A e \in Range(fs) : Fits(c, Evs(q), e)
                   => Orderly(c, Schedule(q, fs))
<1> DEFINE r == Schedule(q, fs)
<1>1. CASE fs = <<>>
  <2>1. r = q
    BY <1>1, ScheduleNone
  <2>2. Range(fs) = {} /\ Evs(fs) = {}
    BY <1>1 DEF Range, Evs
  <2>3. QED
    BY <2>1, <2>2
<1>2. ASSUME NEW e \in Dated, fs = <<e>>
      PROVE  /\ r \in Seq(Dated) /\ Ascending(r)
             /\ Range(r) = Range(q) \cup Range(fs) /\ Evs(r) = Evs(q) \cup Evs(fs)
             /\ \A x, y : Precedes(r, x, y) =>
                   Precedes(q, x, y) \/ x \in Range(fs) \/ y \in Range(fs)
             /\ \A c : Orderly(c, q) /\ (\A a \in Range(fs) : Fits(c, Evs(q), a))
                         => Orderly(c, r)
  <2>1. r = Insert(q, e)
    <3>1. <<>> \in Seq(Dated) /\ <<>> \o <<e>> = fs
      BY <1>2
    <3>2. Schedule(q, <<>> \o <<e>>) = Insert(Schedule(q, <<>>), e)
      BY <3>1, ScheduleLast
    <3>3. QED
      BY <3>1, <3>2, ScheduleNone
  <2>2. Range(fs) = {e} /\ Evs(fs) = {e.ev}
    BY <1>2 DEF Range, Evs
  <2>3. \A x \in Dated : x.due \in Nat
    BY DEF Dated
  <2>4. \A i, j \in DOMAIN q : i < j => q[i].due <= q[j].due
    BY DEF Ascending
  <2>5. /\ r \in Seq(Dated)
        /\ Range(r) = Range(q) \cup {e}
        /\ \A x, y : Precedes(r, x, y) =>
              \/ Precedes(q, x, y)
              \/ x \in Range(q) /\ y = e /\ x.due <= e.due
              \/ x = e /\ y \in Range(q) /\ y.due > e.due
    BY <2>1, <2>3, <2>4, InsertKeepsOrder
  <2> HIDE DEF r
  <2>6. Ascending(r)
    <3> SUFFICES ASSUME NEW i \in DOMAIN r, NEW j \in DOMAIN r, i < j
                 PROVE  r[i].due <= r[j].due
      BY DEF Ascending
    <3>1. Precedes(r, r[i], r[j])
      BY DEF Precedes
    <3>2. CASE Precedes(q, r[i], r[j])
      BY <2>4, <3>2 DEF Precedes
    <3>3. CASE r[i] \in Range(q) /\ r[j] = e /\ r[i].due <= e.due
      BY <3>3
    <3>4. CASE r[i] = e /\ r[j] \in Range(q) /\ r[j].due > e.due
      <4>1. r[j].due \in Nat /\ e.due \in Nat
        BY <2>3, <3>4, RangeOfSeq
      <4>2. QED
        BY <3>4, <4>1
    <3>5. QED
      BY <2>5, <3>1, <3>2, <3>3, <3>4
  <2>7. Evs(r) = Evs(q) \cup {e.ev}
    <3>1. \A g \in Evs(r) : g \in Evs(q) \cup {e.ev}
      BY <2>5, EvsRange
    <3>2. \A g \in Evs(q) : g \in Evs(r)
      BY <2>5, EvsRange
    <3>3. e.ev \in Evs(r)
      BY <2>5, EvsRange
    <3>4. QED
      BY <3>1, <3>2, <3>3
  <2>8. ASSUME NEW c, Orderly(c, q), Fits(c, Evs(q), e)  PROVE Orderly(c, r)
    BY <2>1, <2>8, InsertOrderly
  <2>9. QED
    BY <2>2, <2>5, <2>6, <2>7, <2>8
<1>3. QED
  BY <1>1, <1>2

(* Events can be scheduled in two parts.                                   *)
LEMMA ScheduleMore ==
  ASSUME NEW q, NEW es \in Seq(Dated), NEW fs \in Seq(Dated),
         fs = <<>> \/ \E e \in Dated : fs = <<e>>
  PROVE  Schedule(q, es \o fs) = Schedule(Schedule(q, es), fs)
<1>1. CASE fs = <<>>
  <2>1. es \o fs = es
    BY <1>1
  <2>2. QED
    BY <1>1, <2>1, ScheduleNone
<1>2. ASSUME NEW e \in Dated, fs = <<e>>
      PROVE  Schedule(q, es \o fs) = Schedule(Schedule(q, es), fs)
  <2>1. Schedule(q, es \o <<e>>) = Insert(Schedule(q, es), e)
    BY ScheduleLast
  <2>2. <<>> \in Seq(Dated) /\ <<>> \o <<e>> = fs
    BY <1>2
  <2> DEFINE p == Schedule(q, es)
  <2> HIDE DEF p
  <2>3. Schedule(p, <<>> \o <<e>>) = Insert(Schedule(p, <<>>), e)
    BY <2>2, ScheduleLast
  <2>4. Schedule(p, fs) = Insert(p, e)
    BY <2>2, <2>3, ScheduleNone
  <2>5. QED
    BY <1>2, <2>1, <2>4 DEF p
<1>3. QED
  BY <1>1, <1>2

-----------------------------------------------------------------------------
(* The invariant, and what a step may use of it.                           *)

(* What holds in live states, and the invariant of the kernel.             *)
LiveInv ==
    /\ Orderly(setting.cadence, agenda)
    /\ SpotsInv /\ SeqsInv /\ JobsInv /\ EventsInv /\ WaitersInv /\ SignalsInv
    /\ ProcessInv /\ PhaseInv /\ TimerInv /\ AlarmInv /\ FlowInv

KInv == TypeInv /\ PoolInv /\ (Live => LiveInv)

(* The work states and stores are different strings, and every work state  *)
(* has a store of its own.                                                 *)
LEMMA Strings ==
  /\ {"pending", "dev_complete", "qa_complete"} \subseteq Stores
  /\ {"delivery", "support_complete"} \subseteq Stores
  /\ {"development", "qa_testing", "deployment"} \subseteq WorkStates
  /\ Stores \cap WorkStates = {}
  /\ \A s \in WorkStates : Source(s) \in Open /\ Source(s) \in Stores
  /\ Source("development") = "pending" /\ Source("qa_testing") = "dev_complete"
  /\ Source("deployment") = "qa_complete"
  /\ \A s, u \in WorkStates : Source(s) = Source(u) => s = u
  BY DEF Stores, Open, Terminal, WorkStates, Source

(* A sequence over a set is one over a larger set.                         *)
LEMMA SeqWidens ==
  ASSUME NEW S, NEW q \in Seq(S), NEW T, S \subseteq T  PROVE q \in Seq(T)
  OBVIOUS

(* The backlog is not empty; backlog and requests are sequences of tasks.  *)
LEMMA BacklogFacts ==
  /\ Backlog \in Seq(Tasks) /\ Requests \in Seq(Tasks) /\ Len(Backlog) \in Nat
  /\ Len(Requests) \in Nat /\ Len(Backlog) > 0
<1>1. DevTasks \subseteq Tasks /\ Range(Requests) \subseteq Tasks
  BY DEF Tasks
<1>2. Backlog \in Seq(DevTasks) /\ Requests \in Seq(Range(Requests)) /\ Len(Backlog) > 0
  BY StoresAssumption DEF DevTasks
<1>3. Backlog \in Seq(Tasks) /\ Requests \in Seq(Tasks)
  BY <1>1, <1>2, SeqWidens
<1>4. QED
  BY <1>2, <1>3, LenProperties

(* Tasks, workers, and the constants that are neither.                     *)
LEMMA TaskFacts ==
  /\ DevTasks \subseteq Tasks
  /\ Range(Requests) \subseteq Tasks
  /\ "workflow" \notin Tasks /\ "generator" \notin Tasks
  /\ None \notin Tasks /\ None \notin Workers
  /\ \A s \in WorkStates : Range(Team[s]) \subseteq Workers
  /\ \A t \in Tasks : IsSupport(t) => t \in Range(Requests)
<1>1. Range(Backlog \o Requests) = Range(Backlog) \cup Range(Requests)
  BY BacklogFacts, RangeConcatenation
<1>2. "workflow" \notin Tasks /\ "generator" \notin Tasks
  BY <1>1, StoresAssumption DEF Tasks, DevTasks
<1>3. None \notin Workers
  <2>1. ASSUME NEW s \in WorkStates  PROVE None \notin Range(Team[s])
    <3>1. Team[s] \in Seq(Range(Team[s]) \ {None})
      BY ResourcesAssumption
    <3> DEFINE S == Range(Team[s]) \ {None}
               T == Team[s]
    <3>2. T \in Seq(S)
      BY <3>1
    <3>3. None \notin S
      OBVIOUS
    <3> HIDE DEF S
    <3>4. Range(T) \subseteq S
      BY <3>2, RangeOfSeq
    <3>5. QED
      BY <3>3, <3>4
  <2>2. QED
    BY <2>1 DEF Workers
<1>4. QED
  BY <1>2, <1>3, ResourcesAssumption DEF Tasks, DevTasks, IsSupport, Workers

(* The parameters of a run are numbers.                                    *)
LEMMA SettingFacts ==
  ASSUME setting \in Settings
  PROVE  /\ setting.cadence \in Nat /\ setting.interval \in Nat /\ setting.interval > 0
         /\ setting.points \in [DevTasks -> Nat] /\ setting.support \in Nat
         /\ setting.testing \in Nat /\ setting.failure_cost \in 0..1
         /\ setting.deployment \in Nat
         /\ \A t \in Tasks : Points(t) \in Nat
<1>1. /\ setting.cadence \in Nat /\ setting.interval \in Nat /\ setting.interval > 0
      /\ setting.points \in [DevTasks -> Nat] /\ setting.support \in Nat
      /\ setting.testing \in Nat /\ setting.failure_cost \in 0..1
      /\ setting.deployment \in Nat
  BY ResourcesAssumption
<1>2. QED
  BY <1>1 DEF Points, IsSupport

(* The fields of a job that there is.                                      *)
LEMMA JobFields ==
  ASSUME ResourcesTypeOK, NEW x \in Tasks
  PROVE  /\ jobs[x].at = "none" <=> jobs[x] = NoJob
         /\ jobs[x].at \in {"none", "waiting", "working", "paused", "resuming", "routing", "done"}
         /\ jobs[x].at # "none" =>
              /\ jobs[x].stage \in WorkStates /\ jobs[x].batch \in Seq(Tasks)
              /\ jobs[x].resource \in Workers \cup {None} /\ jobs[x].pooled \in BOOLEAN
              /\ jobs[x].todo \in Seq(Tasks) /\ jobs[x].failed \in BOOLEAN
  BY DEF ResourcesTypeOK, NoJob

(* What holds when an event happens: the state is live.                    *)
LEMMA Begin ==
  ASSUME KInv, NEW kind, Happens(kind)
  PROVE  /\ Live /\ LiveInv /\ raised = {} /\ phase # "over"
         /\ WorkflowTypeOK /\ StoresTypeOK /\ ResourcesTypeOK /\ OwnersInv /\ PoolInv
         /\ agenda # <<>> /\ Occurring.kind = kind /\ setting \in Settings
         /\ \A t \in Tasks : history[t] # Invalid
<1>1. raised = {} /\ agenda # <<>> /\ Occurring.kind = kind
  BY DEF Happens, Occurs, Occurring
<1>2. TypeInv
  BY DEF KInv
<1>3. phase # "over"
  BY <1>1, <1>2 DEF TypeInv
<1>4. Live /\ LiveInv
  BY <1>1, <1>3 DEF Live, KInv
<1>5. QED
  BY <1>1, <1>2, <1>3, <1>4 DEF KInv, TypeInv, WorkflowTypeOK, ResourcesTypeOK

(* What the agenda holds besides the event that happens.                   *)
LEMMA BeginAgenda ==
  ASSUME KInv, NEW kind, Happens(kind)
  PROVE  /\ Rest \in Seq(Dated) /\ Orderly(setting.cadence, Rest) /\ Ascending(Rest)
         /\ Occurring \in Events /\ Occurring \in Upcoming /\ Head(agenda).due \in Nat
         /\ Upcoming = {Occurring} \cup Evs(Rest) /\ Upcoming \subseteq Events
         /\ \A e \in Evs(Rest) : ~Clash(Occurring, e) /\ ~TooLate(setting.cadence, Occurring, e)
         /\ Head(agenda) \in Range(agenda) /\ Head(agenda).ev = Occurring
         /\ kind \notin Delayed =>
              /\ Head(agenda).due = 0
              /\ \A y \in Range(Rest) : y.ev.kind = "timer" => y.due > 0
         /\ \A y \in Range(Rest) : /\ y \in Dated
                                   /\ y.ev \in Evs(Rest) /\ y.due \in Nat
                                   /\ \E x \in Range(agenda) :
                                        x.ev = y.ev /\ x.due = y.due + Head(agenda).due
         /\ Head(agenda).due > 0 => \A e \in Upcoming : e.kind \in Delayed
<1>1. LiveInv /\ agenda # <<>> /\ Occurring.kind = kind
  BY Begin
<1>2. agenda \in Seq(Dated)
  BY DEF KInv, TypeInv
<1>3. Orderly(setting.cadence, agenda)
  BY <1>1 DEF LiveInv
<1>4. /\ Rest \in Seq(Dated) /\ Orderly(setting.cadence, Rest)
      /\ Head(agenda) \in Dated /\ Head(agenda) \in Range(agenda)
      /\ Occurring \in Events /\ Head(agenda).due \in Nat
      /\ Upcoming = {Occurring} \cup Evs(Rest) /\ Evs(Rest) \subseteq Events
      /\ \A e \in Evs(Rest) : ~Clash(Occurring, e) /\ ~TooLate(setting.cadence, Occurring, e)
      /\ Occurring.kind \notin Delayed =>
           /\ Head(agenda).due = 0
           /\ \A y \in Range(Rest) : y.ev.kind = "timer" => y.due > 0
      /\ \A y \in Range(Rest) : /\ y \in Dated
                                /\ \E x \in Range(agenda) :
                                        x.ev = y.ev /\ x.due = y.due + Head(agenda).due
      /\ Head(agenda).due > 0 => \A e \in Upcoming : e.kind \in Delayed
  BY <1>1, <1>2, <1>3, HeadFacts
<1>5. Ascending(Rest)
  BY <1>4, OrderlyAscends
<1>6. \A y \in Range(Rest) : y.ev \in Evs(Rest) /\ y.due \in Nat
  <2> TAKE y \in Range(Rest)
  <2>1. y \in Dated
    BY <1>4
  <2>2. QED
    BY <2>1, EvsRange DEF Dated
<1>7. Head(agenda).ev = Occurring /\ Occurring \in Upcoming /\ Upcoming \subseteq Events
  BY <1>4 DEF Occurring
<1>8. \A y \in Range(Rest) : /\ y \in Dated
                            /\ y.ev \in Evs(Rest) /\ y.due \in Nat
                            /\ \E x \in Range(agenda) :
                                 x.ev = y.ev /\ x.due = y.due + Head(agenda).due
  BY <1>4, <1>6
<1>9. kind \notin Delayed =>
              /\ Head(agenda).due = 0
              /\ \A y \in Range(Rest) : y.ev.kind = "timer" => y.due > 0
  BY <1>1, <1>4
<1>10. Head(agenda).due > 0 => \A e \in Upcoming : e.kind \in Delayed
  BY <1>4
<1>11. \A e \in Evs(Rest) : ~Clash(Occurring, e) /\ ~TooLate(setting.cadence, Occurring, e)
  BY <1>4
<1>12. Rest \in Seq(Dated) /\ Orderly(setting.cadence, Rest) /\ Ascending(Rest)
  BY <1>4, <1>5
<1>13. Occurring \in Events /\ Head(agenda).due \in Nat /\ Upcoming = {Occurring} \cup Evs(Rest)
       /\ Head(agenda) \in Range(agenda)
  BY <1>4
<1>14. QED
  BY <1>7, <1>8, <1>9, <1>10, <1>11, <1>12, <1>13

(* A step that leaves every task where it is, moves it to one new place,   *)
(* or drops it when the workflow has stopped, keeps tasks in one place     *)
(* each.                                                                   *)
LEMMA SpotsMove ==
  ASSUME SpotsInv, phase = "stopped" => phase' = "stopped",
         \A t \in Tasks :
           \/ /\ history'[t] = history[t]
              /\ \A k \in Spots, p \in Wheres : In(k, p, t)' <=> In(k, p, t)
              /\ \A p \in Tasks : t \in Holds(p) => At(p)' = At(p)
           \/ \E k1 \in Spots, p1 \in Wheres :
                 /\ history'[t] = Written(k1, p1)'
                 /\ \A k \in Spots, p \in Wheres : In(k, p, t)' <=> k = k1 /\ p = p1
           \/ /\ phase' = "stopped"
              /\ \A k \in Spots, p \in Wheres : ~In(k, p, t)'
  PROVE  SpotsInv'
<1>1. ASSUME NEW t \in Tasks
      PROVE  /\ \A k \in Spots, p \in Wheres : In(k, p, t)' =>
                  /\ history'[t] = Written(k, p)'
                  /\ \A l \in Spots, r \in Wheres : In(l, r, t)' => l = k /\ r = p
             /\ phase' # "stopped" /\ history'[t] # NoEntry =>
                  \E k \in Spots, p \in Wheres : In(k, p, t)'
  <2>1. CASE /\ history'[t] = history[t]
             /\ \A k \in Spots, p \in Wheres : In(k, p, t)' <=> In(k, p, t)
             /\ \A p \in Tasks : t \in Holds(p) => At(p)' = At(p)
    <3>1. ASSUME NEW k \in Spots, NEW p \in Wheres, In(k, p, t)
          PROVE  Written(k, p)' = Written(k, p)
      <4>1. CASE k = "job"
        <5>1. p \in Tasks /\ t \in Holds(p)
          BY <3>1, <4>1 DEF In
        <5>2. QED
          BY <2>1, <4>1, <5>1 DEF Written
      <4>2. CASE k # "job"
        BY <4>2 DEF Written
      <4>3. QED
        BY <4>1, <4>2
    <3>2. /\ \A k \in Spots, p \in Wheres : In(k, p, t) =>
                  /\ history[t] = Written(k, p)
                  /\ \A l \in Spots, r \in Wheres : In(l, r, t) => l = k /\ r = p
          /\ phase # "stopped" /\ history[t] # NoEntry =>
                  \E k \in Spots, p \in Wheres : In(k, p, t)
      BY DEF SpotsInv
    <3>3. QED
      BY <2>1, <3>1, <3>2
  <2>2. ASSUME NEW k1 \in Spots, NEW p1 \in Wheres, history'[t] = Written(k1, p1)',
               \A k \in Spots, p \in Wheres : In(k, p, t)' <=> k = k1 /\ p = p1
        PROVE  /\ \A k \in Spots, p \in Wheres : In(k, p, t)' =>
                    /\ history'[t] = Written(k, p)'
                    /\ \A l \in Spots, r \in Wheres : In(l, r, t)' => l = k /\ r = p
               /\ \E k \in Spots, p \in Wheres : In(k, p, t)'
    BY <2>2
  <2>3. CASE /\ phase' = "stopped"
             /\ \A k \in Spots, p \in Wheres : ~In(k, p, t)'
    BY <2>3
  <2>4. QED
    BY <2>1, <2>2, <2>3
<1>2. QED
  BY <1>1 DEF SpotsInv

-----------------------------------------------------------------------------
(* What a step leaves alone.                                               *)

(* The put that a process waits for.                                       *)
Stored(store, t, by) == [kind |-> "stored", store |-> store, task |-> t, by |-> by]

(* The history's entries: start follows an end, an end its start.          *)
LEMMA EntryFacts ==
  /\ \A k \in {"queue", "got", "trigger"}, s \in WorkStates : Written(k, s) = Entry("start", Source(s))
  /\ \A s \in Open : Written("store", s) = Entry("start", s) /\ Written("store", s) \in Entries
  /\ \A s \in Terminal : Written("store", s) = Entry("terminal", s) /\ Written("store", s) \in Entries
  /\ \A s \in Stores : Written("store", s) # Invalid /\ Written("store", s) # NoEntry
  /\ \A s \in Open \cup WorkStates : /\ Entry("start", s) \in Entries /\ Entry("end", s) \in Entries
                                     /\ Entry("start", s) # Invalid /\ Entry("end", s) # Invalid
                                     /\ Entry("start", s) # NoEntry /\ Entry("end", s) # NoEntry
                                     /\ End(Entry("start", s), s) = Entry("end", s)
                                     /\ EndCurrent(Entry("start", s)) = Entry("end", s)
                                     /\ Resume(Entry("end", s), s) = Entry("start", s)
  /\ \A h, s : h.type \in {"none", "end"} => Start(h, s) = Entry("start", s)
  /\ \A h, s : h.type \in {"none", "end"} /\ s \in Stores => Enter(h, s) = Written("store", s)
  /\ \A a, s : Entry(a, s).type = a /\ Entry(a, s).state = s
  /\ NoEntry.type = "none" /\ NoEntry.state = "none" /\ NoEntry \in Entries
<1>1. \A k \in {"queue", "got", "trigger"}, s \in WorkStates : Written(k, s) = Entry("start", Source(s))
  BY DEF Written
<1>2. \A s \in Open : s \notin Terminal
  BY DEF Open, Terminal
<1>3. \A s \in Open : Written("store", s) = Entry("start", s) /\ Written("store", s) \in Entries
  BY <1>2 DEF Written, Entries, Entry
<1>4. \A s \in Terminal : Written("store", s) = Entry("terminal", s) /\ Written("store", s) \in Entries
  BY DEF Written, Entries, Entry
<1>5. \A s \in Stores : Written("store", s) # Invalid /\ Written("store", s) # NoEntry
  BY DEF Written, Entry, Invalid, NoEntry
<1>6. ASSUME NEW s \in Open \cup WorkStates
      PROVE  /\ Entry("start", s) \in Entries /\ Entry("end", s) \in Entries
             /\ Entry("start", s) # Invalid /\ Entry("end", s) # Invalid
             /\ Entry("start", s) # NoEntry /\ Entry("end", s) # NoEntry
             /\ End(Entry("start", s), s) = Entry("end", s)
             /\ EndCurrent(Entry("start", s)) = Entry("end", s)
             /\ Resume(Entry("end", s), s) = Entry("start", s)
  BY DEF Entries, Entry, Invalid, NoEntry, End, EndCurrent, Resume
<1>7. \A h, s : h.type \in {"none", "end"} => Start(h, s) = Entry("start", s)
  BY DEF Start
<1>8. \A h, s : h.type \in {"none", "end"} /\ s \in Stores => Enter(h, s) = Written("store", s)
  BY DEF Enter, Written, Start, Terminate
<1>9. \A a, s : Entry(a, s).type = a /\ Entry(a, s).state = s
  BY DEF Entry
<1>10. NoEntry.type = "none" /\ NoEntry.state = "none" /\ NoEntry \in Entries
  BY DEF NoEntry, Entry, Entries
<1>11. QED
  BY <1>1, <1>3, <1>4, <1>5, <1>6, <1>7, <1>8, <1>9, <1>10

(* A put that does not concern the alarm.                                  *)
PutPlainly(its, store, t, h) ==
    /\ items' = [its EXCEPT ![store] = Append(@, t)]
    /\ history' = [history EXCEPT ![t] = Enter(h, store)]
    /\ alarm' = alarm
    /\ \A by : PutEvents(its, store, t, by) = <<Now(Stored(store, t, by))>>
    /\ PutRaises(store) = {}

(* A put into any store but the last is of that form.                      *)
LEMMA PutPlain ==
  ASSUME NEW its, NEW store, store # "delivery", NEW t, NEW h, Put(its, store, t, h)
  PROVE  PutPlainly(its, store, t, h)
<1>1. ~Blocked(store) /\ ~Rings(its, store)
  BY DEF Blocked, Rings
<1>2. \A by : PutEvents(its, store, t, by) = <<Now(Stored(store, t, by))>>
  BY <1>1 DEF PutEvents, Stored
<1>3. QED
  BY <1>1, <1>2 DEF Put, PutRaises, PutPlainly

(* An orderly agenda assigns no resource twice to the same job.            *)
LEMMA OneAssignment ==
  ASSUME NEW c, NEW q \in Seq(Dated), Orderly(c, q)
  PROVE  \A x, y \in Range(q) : Precedes(q, x, y) => ~(x.ev.kind = "assigned" /\ x.ev = y.ev)
<1> SUFFICES ASSUME NEW x \in Range(q), NEW y \in Range(q), Precedes(q, x, y),
                    x.ev.kind = "assigned", x.ev = y.ev
             PROVE  FALSE
  OBVIOUS
<1>0. x \in Dated
  BY RangeOfSeq
<1>1. x.ev \in Events
  BY <1>0 DEF Dated
<1>2. x.ev.job \in Tasks
  BY <1>1, EventFields
<1>3. Concerns(x.ev, x.ev.job) /\ Concerns(y.ev, x.ev.job)
  BY DEF Concerns, JobKinds
<1>4. Clash(x.ev, y.ev)
  BY <1>2, <1>3 DEF Clash
<1>5. QED
  BY <1>4 DEF Orderly

(* A timer that is due finds no job between its operate and its end.       *)
LEMMA RestTimer ==
  ASSUME KInv, NEW kind, Happens(kind)
  PROVE  \A y \in Range(Rest) : y.ev.kind = "timer" /\ y.due = 0 =>
            \A x \in Tasks : jobs[x].at \notin {"routing", "done"}
<1> SUFFICES ASSUME NEW y \in Range(Rest), y.ev.kind = "timer", y.due = 0, NEW x \in Tasks,
                    jobs[x].at \in {"routing", "done"}
             PROVE  FALSE
  OBVIOUS
<1>1. TimerInv /\ JobsInv /\ EventsInv
  BY Begin DEF LiveInv
<1>2. PICK a \in Range(agenda) : a.ev = y.ev /\ a.due = y.due + Head(agenda).due
  BY BeginAgenda
<1>3. Head(agenda).due \in Nat
  BY BeginAgenda
<1>4. CASE Head(agenda).due = 0
  <2>1. a.due = 0
    BY <1>2, <1>4
  <2>2. QED
    BY <1>1, <1>2, <2>1 DEF TimerInv
<1>5. CASE Head(agenda).due > 0
  <2>1. \A e \in Upcoming : e.kind \in Delayed
    BY <1>5, BeginAgenda
  <2>2. jobs[x].at \in {"routing", "done"} => Engaged(x)
    BY <1>1 DEF JobsInv, JobOK
  <2>3. PICK e \in Upcoming : Concerns(e, x)
    BY <2>2 DEF Engaged
  <2>4. e.kind = "finish"
    BY <2>1, <2>3 DEF Concerns, JobKinds, Delayed
  <2>5. jobs[x].at = StateOf(e)
    BY <1>1, <2>3 DEF EventsInv
  <2>6. QED
    BY <2>4, <2>5 DEF StateOf
<1>6. QED
  BY <1>3, <1>4, <1>5

(* An event that is about no job.                                          *)
Neutral(e) == e.kind \notin JobKinds /\ \A x \in Tasks : ~Concerns(e, x)

(* A step that assigns and takes no resource keeps the pools right.        *)
LEMMA PoolFrame ==
  ASSUME PoolInv, hired' = hired, pool' = pool,
         \A x \in Tasks, r \in Workers : AssignedTo(x, r)' => AssignedTo(x, r),
         \A x \in Tasks, r \in Workers : HoldsPooled(x, r)' => HoldsPooled(x, r),
         \A x, y \in Range(agenda') : Precedes(agenda', x, y) =>
             ~(x.ev.kind = "assigned" /\ x.ev = y.ev)
  PROVE  PoolInv'
<1>1. ASSUME NEW s \in WorkStates, NEW n \in 1..Len(Team[s])  PROVE Team[s][n] \in Workers
  <2>1. Team[s] \in Seq(Range(Team[s]) \ {None})
    BY ResourcesAssumption
  <2>2. Team[s][n] \in Range(Team[s])
    BY <2>1, ElementOfSeq
  <2>3. QED
    BY <2>2 DEF Workers
<1>2. \A s \in WorkStates : /\ IsInjective(pool'[s]) /\ Range(pool'[s]) \subseteq Range(Team[s])
                            /\ hired'[s] <= Len(Team[s])
  BY DEF PoolInv
<1>3. ASSUME NEW s \in WorkStates, NEW n \in 1..Len(Team[s])  PROVE PoolUse(s, n, Team[s][n])'
  <2> DEFINE r == Team[s][n]
  <2>1. r \in Workers
    BY <1>1
  <2>2. PoolUse(s, n, r)
    BY DEF PoolInv
  <2> HIDE DEF r
  <2>3. \A x \in Tasks : /\ AssignedTo(x, r)' => AssignedTo(x, r)
                         /\ HoldsPooled(x, r)' => HoldsPooled(x, r)
    BY <2>1
  <2>4. PoolUse(s, n, r)'
    BY <2>2, <2>3 DEF PoolUse
  <2>5. QED
    BY <2>4 DEF r
<1>4. QED
  BY <1>2, <1>3 DEF PoolInv

(* A step of stores or operators that schedules no event about a job keeps *)
(* everything that is known of jobs and resources.                         *)
LEMMA QuietStep ==
  ASSUME KInv, NEW kind, Happens(kind), UNCHANGED <<resourceVars, waiters>>,
         NEW N, NEW ND,
         Upcoming' = Evs(Rest) \cup N,
         Range(agenda') = Range(Rest) \cup ND,
         Neutral(Occurring),
         \A e \in N : e \in Events /\ Neutral(e),
         \A a \in ND : a.ev \in N /\ (a.ev.kind = "timer" => a.due > 0),
         \A t \in Tasks : history'[t].state = history[t].state \/ history'[t].state = "pending",
         \A t \in Tasks : jobs[t].at = "routing" =>
             /\ jobs[t].stage = "deployment" => history'[t].state = history[t].state
             /\ ~InTrigger(t)'
  PROVE  /\ EventsInv' /\ WaitersInv' /\ SignalsInv' /\ ProcessInv' /\ TimerInv' /\ FlowInv'
         /\ JobsInv'
         /\ \A x \in Tasks, r \in Workers : AssignedTo(x, r)' => AssignedTo(x, r)
         /\ \A x \in Tasks, r \in Workers : HoldsPooled(x, r)' => HoldsPooled(x, r)
         /\ \A x \in Tasks : Holds(x)' = Holds(x) /\ At(x)' = At(x)
<1>1. /\ EventsInv /\ WaitersInv /\ SignalsInv /\ ProcessInv /\ TimerInv /\ FlowInv /\ JobsInv
      /\ ResourcesTypeOK
  BY Begin DEF LiveInv
<1>2. /\ Upcoming = {Occurring} \cup Evs(Rest) /\ Upcoming \subseteq Events
      /\ Evs(Rest) \subseteq Upcoming
  BY BeginAgenda
<1>3. /\ setting' = setting /\ left' = left /\ rework' = rework /\ jobs' = jobs
      /\ process' = process /\ suspended' = suspended /\ waiters' = waiters
  BY DEF resourceVars
<1>4. \A e \in Upcoming' : ~Neutral(e) => e \in Upcoming
  BY <1>2
<1>5. \A e \in Upcoming : ~Neutral(e) => e \in Upcoming'
  BY <1>2
<1>6. \A e \in Upcoming, x \in Tasks : Concerns(e, x) => ~Neutral(e)
  BY DEF Neutral
<1>7. \A e \in Upcoming', x \in Tasks : Concerns(e, x) => ~Neutral(e)
  BY DEF Neutral
<1>8. \A x \in Tasks : Engaged(x)' <=> Engaged(x)
  BY <1>4, <1>5, <1>6, <1>7 DEF Engaged
<1>9. EventsInv'
  <2>1. ASSUME NEW e \in Upcoming'
        PROVE  /\ \A x \in Tasks : Concerns(e, x) => jobs[x].at = StateOf(e)
               /\ e.kind = "assigned" => e.resource \in Range(Team[jobs[e.job].stage])
               /\ e.kind = "stored" /\ e.by \in Tasks
                    /\ ~Windowed(setting.cadence, jobs[e.by].stage) => e.task = e.by
    <3>1. CASE Neutral(e)
      BY <3>1 DEF Neutral, Concerns, JobKinds
    <3>2. CASE ~Neutral(e)
      BY <1>1, <1>4, <3>2 DEF EventsInv
    <3>3. QED
      BY <3>1, <3>2
  <2>2. QED
    BY <1>3, <2>1 DEF EventsInv, StateOf, Concerns, Windowed
<1>20. \A s \in WorkStates : Range(waiters[s]) \subseteq Tasks
  <2>1. waiters \in [WorkStates -> Seq(Tasks)]
    BY Begin DEF WorkflowTypeOK
  <2>2. QED
    BY <2>1, RangeOfSeq
<1>21. \A r \in Workers : \A i \in DOMAIN suspended[r] : suspended[r][i].of \in Tasks
  <2>1. suspended \in [Workers -> Seq([of : Tasks, on : BOOLEAN])]
    BY <1>1 DEF ResourcesTypeOK
  <2> TAKE r \in Workers
  <2> TAKE i \in DOMAIN suspended[r]
  <2>2. suspended[r][i] \in [of : Tasks, on : BOOLEAN]
    BY <2>1, ElementOfSeq, LenProperties
  <2>3. QED
    BY <2>2
<1>10. WaitersInv'
  BY <1>1, <1>3, <1>8, <1>20 DEF WaitersInv
<1>11. SignalsInv'
  BY <1>1, <1>3, <1>8, <1>21 DEF SignalsInv
<1>12. ProcessInv'
  <2>1. ASSUME NEW r \in Workers, process[r].state = "live"
        PROVE  Finish(process[r].of) \in Upcoming'
    <3>1. Finish(process[r].of) \in Upcoming
      BY <1>1, <2>1 DEF ProcessInv
    <3>2. ~Neutral(Finish(process[r].of))
      BY DEF Neutral, Finish, JobKinds
    <3>3. QED
      BY <1>5, <3>1, <3>2
  <2>2. QED
    BY <1>1, <1>3, <2>1 DEF ProcessInv, Busy
<1>13. TimerInv'
  <2>1. \A y \in Range(Rest) : y.ev.kind = "timer" /\ y.due = 0 =>
            \A x \in Tasks : jobs[x].at \notin {"routing", "done"}
    BY RestTimer
  <2>2. \A y \in ND : y.ev.kind = "timer" => ~(y.due = 0)
    OBVIOUS
  <2>3. QED
    BY <1>3, <2>1, <2>2 DEF TimerInv
<1>14. FlowInv'
  <2>1. \A t \in Tasks : history'[t].state = "dev_complete" => left'[t] = 0
    BY <1>1, <1>3 DEF FlowInv
  <2>2. \A t \in Tasks : history'[t].state \in {"dev_complete", "qa_testing"} => t \notin rework'
    BY <1>1, <1>3 DEF FlowInv
  <2>3. ASSUME NEW a \in Range(agenda'), a.ev.kind = "finish"
        PROVE  /\ jobs'[a.ev.job].stage = "development" => a.due <= left'[a.ev.job]
               /\ jobs'[a.ev.job].stage = "qa_testing" => left'[a.ev.job] = 0
    <3>1. ~Neutral(a.ev)
      BY <2>3 DEF Neutral, JobKinds
    <3>2. a \in Range(Rest)
      BY <3>1
    <3>3. PICK x \in Range(agenda) : x.ev = a.ev /\ x.due = a.due + Head(agenda).due
      BY <3>2, BeginAgenda
    <3>4. a.due \in Nat /\ Head(agenda).due \in Nat /\ a.ev \in Upcoming
      BY <1>2, <3>2, BeginAgenda
    <3>5. a.ev.job \in Tasks
      BY <1>2, <2>3, <3>4, EventFields
    <3>6. left[a.ev.job] \in Nat
      BY <1>1, <3>5 DEF ResourcesTypeOK
    <3>7. /\ jobs[a.ev.job].stage = "development" => x.due <= left[a.ev.job]
          /\ jobs[a.ev.job].stage = "qa_testing" => left[a.ev.job] = 0
      BY <1>1, <2>3, <3>3 DEF FlowInv
    <3>8. a.due <= x.due
      BY <3>3, <3>4
    <3>9. x.due <= left[a.ev.job] => a.due <= left[a.ev.job]
      BY <3>3, <3>4, <3>6, <3>8
    <3>10. QED
      BY <1>3, <3>7, <3>9
  <2>4. \A e \in Upcoming' : e.kind = "worked" => e \in Upcoming
    BY <1>4 DEF Neutral, JobKinds
  <2>5. QED
    BY <1>1, <1>3, <2>1, <2>2, <2>3, <2>4 DEF FlowInv
<1>15. JobsInv'
  <2>1. ASSUME NEW x \in Tasks  PROVE JobOK(x)'
    BY <1>1, <1>3, <1>8 DEF JobsInv, JobOK, Holds, Windowed
  <2>2. QED
    BY <2>1 DEF JobsInv
<1>16. \A x \in Tasks, r \in Workers : AssignedTo(x, r)' => AssignedTo(x, r)
  BY <1>4 DEF AssignedTo, Neutral, JobKinds
<1>17. \A x \in Tasks, r \in Workers : HoldsPooled(x, r)' => HoldsPooled(x, r)
  BY <1>3 DEF HoldsPooled
<1>18. \A x \in Tasks : Holds(x)' = Holds(x) /\ At(x)' = At(x)
  BY <1>3 DEF Holds, At
<1>19. QED
  BY <1>9, <1>10, <1>11, <1>12, <1>13, <1>14, <1>15, <1>16, <1>17, <1>18

-----------------------------------------------------------------------------
(* Scheduling no event, one, two or three of them, as the actions do.      *)

(* At most one event.                                                      *)
OneOrNone(fs) == fs \in Seq(Dated) /\ (fs = <<>> \/ \E e \in Dated : fs = <<e>>)

(* No event, or one event after a delay.                                   *)
LEMMA OneOrNoneFacts ==
  /\ OneOrNone(<<>>) /\ Range(<<>>) = {} /\ Evs(<<>>) = {}
  /\ \A ev \in Events, d \in Nat :
       /\ After(d, ev) \in Dated /\ OneOrNone(<<After(d, ev)>>)
       /\ Range(<<After(d, ev)>>) = {After(d, ev)} /\ Evs(<<After(d, ev)>>) = {ev}
       /\ After(d, ev).ev = ev /\ After(d, ev).due = d
       /\ Now(ev) = After(0, ev)
<1>1. <<>> \in Seq(Dated)
  OBVIOUS
<1>2. OneOrNone(<<>>) /\ Range(<<>>) = {} /\ Evs(<<>>) = {}
  BY <1>1 DEF OneOrNone, Range, Evs
<1>3. ASSUME NEW ev \in Events, NEW d \in Nat
      PROVE  /\ After(d, ev) \in Dated /\ OneOrNone(<<After(d, ev)>>)
             /\ Range(<<After(d, ev)>>) = {After(d, ev)} /\ Evs(<<After(d, ev)>>) = {ev}
             /\ After(d, ev).ev = ev /\ After(d, ev).due = d
             /\ Now(ev) = After(0, ev)
  <2> DEFINE e == After(d, ev)
  <2>1. e \in Dated /\ e.ev = ev /\ e.due = d /\ Now(ev) = After(0, ev)
    BY DEF After, Dated, Now
  <2> HIDE DEF e
  <2>2. <<e>> \in Seq(Dated) /\ Range(<<e>>) = {e} /\ Evs(<<e>>) = {e.ev}
    BY <2>1 DEF Range, Evs
  <2>3. QED
    BY <2>1, <2>2 DEF OneOrNone, e
<1>4. QED
  BY <1>2, <1>3

(* One event that happens at once.                                         *)
LEMMA NowFacts ==
  ASSUME NEW ev \in Events
  PROVE  /\ Now(ev) \in Dated /\ OneOrNone(<<Now(ev)>>)
         /\ Range(<<Now(ev)>>) = {Now(ev)} /\ Evs(<<Now(ev)>>) = {ev}
         /\ Now(ev).ev = ev /\ Now(ev).due = 0
<1>1. Now(ev) = After(0, ev) /\ 0 \in Nat
  BY DEF Now, After
<1> DEFINE e == After(0, ev)
<1>2. /\ e \in Dated /\ OneOrNone(<<e>>) /\ Range(<<e>>) = {e} /\ Evs(<<e>>) = {ev}
      /\ e.ev = ev /\ e.due = 0
  BY <1>1, OneOrNoneFacts
<1> HIDE DEF e
<1>3. Now(ev) = e
  BY <1>1 DEF e
<1>4. QED
  BY <1>2, <1>3

(* An event that happens at once fits if it clashes with none.             *)
LEMMA FitsNow ==
  ASSUME NEW c, NEW E, NEW ev \in Events, ev.kind # "timer",
         \A f \in E : ~Clash(f, ev) /\ ~TooLate(c, f, ev)
  PROVE  Fits(c, E, Now(ev))
  BY NowFacts DEF Fits, Sane

(* So does one that is delayed.                                            *)
LEMMA FitsAfter ==
  ASSUME NEW c, NEW E, NEW ev \in Events, NEW d \in Nat, ev.kind \in Delayed,
         ev.kind = "timer" => d > 0,
         \A f \in E : ~Clash(f, ev)
  PROVE  Fits(c, E, After(d, ev))
<1>1. After(d, ev).ev = ev /\ After(d, ev).due = d
  BY OneOrNoneFacts
<1>2. \A f : ~TooLate(c, f, ev)
  BY DEF TooLate, Delayed
<1>3. QED
  BY <1>1, <1>2 DEF Fits, Sane

(* The agenda stays orderly, with one event more.                          *)
LEMMA AgendaGrows ==
  ASSUME NEW c, NEW q \in Seq(Dated), Orderly(c, q), NEW fs, OneOrNone(fs),
         \A e \in Range(fs) : Fits(c, Evs(q), e)
  PROVE  /\ Schedule(q, fs) \in Seq(Dated) /\ Orderly(c, Schedule(q, fs))
         /\ Range(Schedule(q, fs)) = Range(q) \cup Range(fs)
         /\ Evs(Schedule(q, fs)) = Evs(q) \cup Evs(fs)
  BY OrderlyAscends, ScheduleOne DEF OneOrNone

(* What an orderly agenda means for the invariant.                         *)
LEMMA OrderlyAgenda ==
  ASSUME agenda' \in Seq(Dated), Orderly(setting'.cadence, agenda')
  PROVE  /\ Orderly(setting.cadence, agenda)' /\ Sorted'
         /\ \A x, y \in Range(agenda') : Precedes(agenda', x, y) =>
                ~(x.ev.kind = "assigned" /\ x.ev = y.ev)
<1>1. Ascending(agenda')
  BY OrderlyAscends
<1>2. DOMAIN agenda' = 1..Len(agenda') /\ Len(agenda') \in Nat
  BY LenProperties
<1>3. ASSUME NEW i \in 2..Len(agenda')  PROVE agenda'[i - 1].due <= agenda'[i].due
  <2>1. i - 1 \in DOMAIN agenda' /\ i \in DOMAIN agenda' /\ i - 1 < i
    BY <1>2
  <2>2. QED
    BY <1>1, <2>1 DEF Ascending
<1>4. Sorted'
  BY <1>3 DEF Sorted
<1>5. \A x, y \in Range(agenda') : Precedes(agenda', x, y) =>
                ~(x.ev.kind = "assigned" /\ x.ev = y.ev)
  BY OneAssignment
<1>6. QED
  BY <1>4, <1>5

(* The agenda of a step that schedules at most one event.                  *)
LEMMA AgendaOne ==
  ASSUME KInv, NEW kind, Happens(kind), setting' = setting,
         NEW fs, OneOrNone(fs), agenda' = Schedule(Rest, fs),
         \A e \in Range(fs) : Fits(setting.cadence, Evs(Rest), e)
  PROVE  /\ agenda' \in Seq(Dated) /\ Orderly(setting.cadence, agenda)' /\ Sorted'
         /\ \A x, y \in Range(agenda') : Precedes(agenda', x, y) =>
                ~(x.ev.kind = "assigned" /\ x.ev = y.ev)
         /\ Upcoming' = Evs(Rest) \cup Evs(fs)
         /\ Range(agenda') = Range(Rest) \cup Range(fs)
<1>1. Rest \in Seq(Dated) /\ Orderly(setting.cadence, Rest)
  BY BeginAgenda
<1>2. /\ agenda' \in Seq(Dated) /\ Orderly(setting.cadence, agenda')
      /\ Range(agenda') = Range(Rest) \cup Range(fs)
      /\ Evs(agenda') = Evs(Rest) \cup Evs(fs)
  BY <1>1, AgendaGrows
<1>3. QED
  BY <1>2, OrderlyAgenda DEF Upcoming

(* The agenda of a step that schedules none.                               *)
LEMMA AgendaNone ==
  ASSUME KInv, NEW kind, Happens(kind), setting' = setting, agenda' = Rest
  PROVE  /\ agenda' \in Seq(Dated) /\ Orderly(setting.cadence, agenda)' /\ Sorted'
         /\ \A x, y \in Range(agenda') : Precedes(agenda', x, y) =>
                ~(x.ev.kind = "assigned" /\ x.ev = y.ev)
         /\ Upcoming' = Evs(Rest)
         /\ Range(agenda') = Range(Rest)
<1>1. Rest \in Seq(Dated) /\ Orderly(setting.cadence, Rest)
  BY BeginAgenda
<1>2. QED
  BY <1>1, OrderlyAgenda DEF Upcoming

(* The agenda of a step that schedules up to two.                          *)
LEMMA AgendaTwo ==
  ASSUME KInv, NEW kind, Happens(kind), setting' = setting,
         NEW fs, OneOrNone(fs), NEW gs, OneOrNone(gs), agenda' = Schedule(Rest, fs \o gs),
         \A e \in Range(fs) : Fits(setting.cadence, Evs(Rest), e),
         \A e \in Range(gs) : Fits(setting.cadence, Evs(Rest) \cup Evs(fs), e)
  PROVE  /\ agenda' \in Seq(Dated) /\ Orderly(setting.cadence, agenda)' /\ Sorted'
         /\ \A x, y \in Range(agenda') : Precedes(agenda', x, y) =>
                ~(x.ev.kind = "assigned" /\ x.ev = y.ev)
         /\ Upcoming' = Evs(Rest) \cup Evs(fs) \cup Evs(gs)
         /\ Range(agenda') = Range(Rest) \cup Range(fs) \cup Range(gs)
<1>1. Rest \in Seq(Dated) /\ Orderly(setting.cadence, Rest)
  BY BeginAgenda
<1> DEFINE p == Schedule(Rest, fs)
<1>2. /\ p \in Seq(Dated) /\ Orderly(setting.cadence, p)
      /\ Range(p) = Range(Rest) \cup Range(fs)
      /\ Evs(p) = Evs(Rest) \cup Evs(fs)
  BY <1>1, AgendaGrows
<1>3. agenda' = Schedule(p, gs)
  BY ScheduleMore DEF OneOrNone
<1> HIDE DEF p
<1>6. \A e \in Range(gs) : Fits(setting.cadence, Evs(p), e)
  BY <1>2
<1>7. p \in Seq(Dated) /\ Orderly(setting.cadence, p)
  BY <1>2
<1>8. /\ Schedule(p, gs) \in Seq(Dated) /\ Orderly(setting.cadence, Schedule(p, gs))
      /\ Range(Schedule(p, gs)) = Range(p) \cup Range(gs)
      /\ Evs(Schedule(p, gs)) = Evs(p) \cup Evs(gs)
  BY <1>6, <1>7, AgendaGrows
<1>4. /\ agenda' \in Seq(Dated) /\ Orderly(setting.cadence, agenda')
      /\ Range(agenda') = Range(p) \cup Range(gs)
      /\ Evs(agenda') = Evs(p) \cup Evs(gs)
  BY <1>3, <1>8
<1>5. QED
  BY <1>2, <1>4, OrderlyAgenda DEF Upcoming

(* The agenda of a step that schedules up to three.                        *)
LEMMA AgendaThree ==
  ASSUME KInv, NEW kind, Happens(kind), setting' = setting,
         NEW fs, OneOrNone(fs), NEW gs, OneOrNone(gs), NEW hs, OneOrNone(hs),
         agenda' = Schedule(Rest, fs \o gs \o hs),
         \A e \in Range(fs) : Fits(setting.cadence, Evs(Rest), e),
         \A e \in Range(gs) : Fits(setting.cadence, Evs(Rest) \cup Evs(fs), e),
         \A e \in Range(hs) : Fits(setting.cadence, Evs(Rest) \cup Evs(fs) \cup Evs(gs), e)
  PROVE  /\ agenda' \in Seq(Dated) /\ Orderly(setting.cadence, agenda)' /\ Sorted'
         /\ \A x, y \in Range(agenda') : Precedes(agenda', x, y) =>
                ~(x.ev.kind = "assigned" /\ x.ev = y.ev)
         /\ Upcoming' = Evs(Rest) \cup Evs(fs) \cup Evs(gs) \cup Evs(hs)
         /\ Range(agenda') = Range(Rest) \cup Range(fs) \cup Range(gs) \cup Range(hs)
<1>1. Rest \in Seq(Dated) /\ Orderly(setting.cadence, Rest)
  BY BeginAgenda
<1> DEFINE p == Schedule(Rest, fs)
           o == Schedule(p, gs)
<1>2. /\ p \in Seq(Dated) /\ Orderly(setting.cadence, p)
      /\ Range(p) = Range(Rest) \cup Range(fs)
      /\ Evs(p) = Evs(Rest) \cup Evs(fs)
  BY <1>1, AgendaGrows
<1>3. fs \o gs \in Seq(Dated)
  BY DEF OneOrNone
<1>4. agenda' = Schedule(Schedule(Rest, fs \o gs), hs)
  BY <1>3, ScheduleMore DEF OneOrNone
<1>5. Schedule(Rest, fs \o gs) = o
  BY ScheduleMore DEF OneOrNone
<1>6. agenda' = Schedule(o, hs)
  BY <1>4, <1>5
<1> HIDE DEF p
<1>10. \A e \in Range(gs) : Fits(setting.cadence, Evs(p), e)
  BY <1>2
<1>12. p \in Seq(Dated) /\ Orderly(setting.cadence, p)
  BY <1>2
<1>7. /\ o \in Seq(Dated) /\ Orderly(setting.cadence, o)
      /\ Range(o) = Range(p) \cup Range(gs)
      /\ Evs(o) = Evs(p) \cup Evs(gs)
  BY <1>10, <1>12, AgendaGrows
<1> HIDE DEF o
<1>11. \A e \in Range(hs) : Fits(setting.cadence, Evs(o), e)
  BY <1>2, <1>7
<1>13. o \in Seq(Dated) /\ Orderly(setting.cadence, o)
  BY <1>7
<1>14. /\ Schedule(o, hs) \in Seq(Dated) /\ Orderly(setting.cadence, Schedule(o, hs))
      /\ Range(Schedule(o, hs)) = Range(o) \cup Range(hs)
      /\ Evs(Schedule(o, hs)) = Evs(o) \cup Evs(hs)
  BY <1>11, <1>13, AgendaGrows
<1>8. /\ agenda' \in Seq(Dated) /\ Orderly(setting.cadence, agenda')
      /\ Range(agenda') = Range(o) \cup Range(hs)
      /\ Evs(agenda') = Evs(o) \cup Evs(hs)
  BY <1>6, <1>14
<1>9. QED
  BY <1>2, <1>7, <1>8, OrderlyAgenda DEF Upcoming

(* Backlog and requests list every task once.                              *)
LEMMA InjectiveFacts ==
  /\ \A i, j \in 1..Len(Backlog) : Backlog[i] = Backlog[j] => i = j
  /\ \A i, j \in 1..Len(Requests) : Requests[i] = Requests[j] => i = j
  /\ \A i \in 1..Len(Backlog) : Backlog[i] \in DevTasks
  /\ \A i \in 1..Len(Requests) : Requests[i] \in Tasks /\ Requests[i] \notin DevTasks
  /\ \A t \in DevTasks : \E i \in 1..Len(Backlog) : Backlog[i] = t
<1> DEFINE b == Len(Backlog)
           n == Len(Requests)
           all == Backlog \o Requests
<1>1. /\ Backlog \in Seq(Tasks) /\ Requests \in Seq(Tasks) /\ b \in Nat /\ n \in Nat
      /\ DOMAIN Backlog = 1..b /\ DOMAIN Requests = 1..n
  BY BacklogFacts, LenProperties
<1>2. /\ all \in Seq(Tasks) /\ Len(all) = b + n
      /\ \A i \in 1..b + n : all[i] = IF i <= b THEN Backlog[i] ELSE Requests[i - b]
  BY <1>1, ConcatProperties
<1>3. \A i, j \in 1..b + n : all[i] = all[j] => i = j
  <2>1. DOMAIN all = 1..b + n
    BY <1>2, LenProperties
  <2>2. IsInjective(all)
    BY StoresAssumption
  <2> HIDE DEF all
  <2>3. QED
    BY <2>1, <2>2 DEF IsInjective
<1> HIDE DEF all
<1>4. \A i \in 1..b : i \in 1..b + n /\ all[i] = Backlog[i]
  BY <1>1, <1>2
<1>5. \A i \in 1..n : b + i \in 1..b + n /\ all[b + i] = Requests[i]
  <2> TAKE i \in 1..n
  <2>1. b + i \in 1..b + n /\ ~(b + i <= b) /\ b + i - b = i
    BY <1>1
  <2>2. QED
    BY <1>2, <2>1
<1>6. \A i, j \in 1..b : Backlog[i] = Backlog[j] => i = j
  BY <1>3, <1>4
<1>7. \A i, j \in 1..n : Requests[i] = Requests[j] => i = j
  <2> TAKE i, j \in 1..n
  <2> HAVE Requests[i] = Requests[j]
  <2>1. b + i = b + j
    BY <1>3, <1>5
  <2>2. QED
    BY <1>1, <2>1
<1>8. \A t \in DevTasks : \E i \in 1..b : Backlog[i] = t
  BY <1>1 DEF DevTasks, Range
<1>9. \A i \in 1..b : Backlog[i] \in DevTasks
  BY <1>1 DEF DevTasks, Range
<1>10. ASSUME NEW i \in 1..n  PROVE Requests[i] \in Tasks /\ Requests[i] \notin DevTasks
  <2>1. Requests[i] \in Tasks
    BY <1>1 DEF Tasks, Range
  <2>2. ASSUME NEW j \in 1..b, Backlog[j] = Requests[i]  PROVE FALSE
    <3>1. j = b + i
      BY <1>3, <1>4, <1>5, <2>2
    <3>2. QED
      BY <1>1, <3>1
  <2>3. QED
    BY <1>8, <2>1, <2>2
<1>11. QED
  BY <1>6, <1>7, <1>8, <1>9, <1>10

-----------------------------------------------------------------------------
(* The stores are seeded (the run method of the workflow, before the       *)
(* alarm).                                                                 *)

(* A step that leaves resources and pools alone keeps their types.         *)
LEMMA TypeFrame ==
  ASSUME KInv, UNCHANGED <<resourceVars, poolVars, raised>>,
         agenda' \in Seq(Dated), Sorted',
         items' \in [Stores -> Seq(Tasks)], history' \in [Tasks -> Entries],
         \A t \in Tasks : history'[t] # Invalid,
         alarm' \in [limit : Nat, signal : {"off", "armed", "triggered", "processed"}],
         phase' \in {"seeding", "running", "stopped"},
         arrivals' \in 0..Len(Requests),
         queue' \in [WorkStates -> Seq(Tasks)],
         listening' \subseteq WorkStates, awaiting' \subseteq WorkStates
  PROVE  TypeInv'
<1>1. TypeInv
  BY DEF KInv
<1>2. WorkflowTypeOK'
  BY <1>1 DEF TypeInv, WorkflowTypeOK, StoresTypeOK, ResourcesTypeOK, resourceVars, poolVars
<1>3. OwnersInv'
  BY <1>1 DEF TypeInv, OwnersInv, poolVars
<1>4. QED
  BY <1>2, <1>3 DEF TypeInv

(* A task enters the workflow through the pending store.                   *)
LEMMA Entering ==
  ASSUME KInv, NEW kind, Happens(kind), Neutral(Occurring), kind \in {"stored", "arrival"},
         NEW t \in Tasks, history[t] = NoEntry, NEW by \in {"workflow", "generator"},
         Put(items, "pending", t, history[t]),
         agenda' = Schedule(Rest, PutEvents(items, "pending", t, by)),
         UNCHANGED <<raised, resourceVars, phase, operatorVars, poolVars>>,
         arrivals' \in 0..Len(Requests),
         \A e \in Evs(Rest) : ~Clash(e, Stored("pending", t, by))
  PROVE  /\ TypeInv' /\ PoolInv'
         /\ Orderly(setting.cadence, agenda)' /\ SpotsInv' /\ SeqsInv' /\ JobsInv' /\ EventsInv'
         /\ WaitersInv' /\ SignalsInv' /\ ProcessInv' /\ TimerInv' /\ AlarmInv' /\ FlowInv'
         /\ Upcoming' = Evs(Rest) \cup {Stored("pending", t, by)}
         /\ Range(agenda') = Range(Rest) \cup {Now(Stored("pending", t, by))}
         /\ items'["pending"] = Append(items["pending"], t)
         /\ Range(items'["pending"]) = Range(items["pending"]) \cup {t}
         /\ alarm' = alarm
         /\ \A u \in Tasks : history'[u] = IF u = t THEN Written("store", "pending") ELSE history[u]
         /\ \A u \in Tasks : Moves(u)
<1> DEFINE ev == Stored("pending", t, by)
           fs == <<Now(ev)>>
<1>2. /\ items' = [items EXCEPT !["pending"] = Append(@, t)]
      /\ history' = [history EXCEPT ![t] = Enter(history[t], "pending")]
      /\ alarm' = alarm /\ PutEvents(items, "pending", t, by) = fs
  <2> DEFINE h == history[t]
  <2>1. Put(items, "pending", t, h)
    OBVIOUS
  <2> HIDE DEF h
  <2>2. "pending" # "delivery"
    OBVIOUS
  <2>3. PutPlainly(items, "pending", t, h)
    BY <2>1, <2>2, PutPlain
  <2>4. QED
    BY <2>3 DEF h, PutPlainly
<1>3. /\ Live /\ LiveInv /\ raised = {} /\ WorkflowTypeOK /\ StoresTypeOK /\ ResourcesTypeOK
      /\ PoolInv /\ Occurring.kind = kind /\ setting \in Settings
      /\ \A u \in Tasks : history[u] # Invalid
  BY Begin
<1>4. SpotsInv /\ SeqsInv /\ PhaseInv /\ AlarmInv /\ JobsInv
  BY <1>3 DEF LiveInv
<1>5. /\ Upcoming = {Occurring} \cup Evs(Rest) /\ Upcoming \subseteq Events
  BY BeginAgenda
<1>6. /\ items \in [Stores -> Seq(Tasks)] /\ history \in [Tasks -> Entries]
      /\ items["pending"] \in Seq(Tasks)
  <2>1. items \in [Stores -> Seq(Tasks)] /\ history \in [Tasks -> Entries]
    BY <1>3 DEF StoresTypeOK
  <2>2. QED
    BY <2>1, Strings
<1>7. /\ setting' = setting /\ jobs' = jobs /\ left' = left /\ queue' = queue /\ phase' = phase
      /\ listening' = listening /\ awaiting' = awaiting
      /\ pool' = pool /\ hired' = hired /\ waiters' = waiters /\ raised' = raised
  BY DEF resourceVars, operatorVars, poolVars
<1>8. \A k \in Spots, p \in Wheres : ~In(k, p, t)
  <2> SUFFICES ASSUME NEW k \in Spots, NEW p \in Wheres, In(k, p, t)  PROVE FALSE
    OBVIOUS
  <2>1. history[t] = Written(k, p)
    BY <1>4 DEF SpotsInv
  <2>2. QED
    BY <2>1 DEF Written, Entry, NoEntry
<1>11. t \notin Range(items["pending"])
  <2>1. "store" \in Spots /\ "pending" \in Wheres
    BY Strings DEF Spots, Wheres
  <2>2. ~In("store", "pending", t)
    BY <1>8, <2>1
  <2>3. QED
    BY <2>2, Strings DEF In
<1>13. Enter(history[t], "pending") = Written("store", "pending")
  BY EntryFacts, Strings
<1>14. ev \in Events /\ ev.kind = "stored" /\ ev.by = by /\ ev.task = t
  BY EventTypes, Strings DEF Stored, Actors
<1> HIDE DEF ev
<1>15. OneOrNone(fs) /\ Range(fs) = {Now(ev)} /\ Evs(fs) = {ev} /\ Now(ev).ev = ev /\ Now(ev).due = 0
  BY <1>14, NowFacts
<1>16. \A e \in Range(fs) : Fits(setting.cadence, Evs(Rest), e)
  <2>1. ASSUME NEW f \in Evs(Rest)  PROVE ~Clash(f, ev) /\ ~TooLate(setting.cadence, f, ev)
    <3>1. ~Clash(f, ev)
      BY DEF ev
    <3>2. f \in Upcoming /\ f \in Events
      BY <1>5
    <3>3. ASSUME f.kind = "got", f.task = t  PROVE FALSE
      <4>1. f.stage \in WorkStates
        BY <3>2, <3>3, EventFields
      <4>2. "got" \in Spots /\ f.stage \in Wheres
        BY <4>1 DEF Spots, Wheres
      <4>3. In("got", f.stage, t)
        BY <3>2, <3>3, <4>1 DEF In
      <4>4. QED
        BY <1>8, <4>2, <4>3
    <3>4. QED
      BY <1>14, <3>1, <3>3 DEF TooLate
  <2>2. Fits(setting.cadence, Evs(Rest), Now(ev))
    BY <1>14, <2>1, FitsNow
  <2>3. QED
    BY <1>15, <2>2
<1> HIDE DEF fs
<1>17. /\ agenda' \in Seq(Dated) /\ Orderly(setting.cadence, agenda)' /\ Sorted'
       /\ \A x, y \in Range(agenda') : Precedes(agenda', x, y) =>
                ~(x.ev.kind = "assigned" /\ x.ev = y.ev)
       /\ Upcoming' = Evs(Rest) \cup {ev}
       /\ Range(agenda') = Range(Rest) \cup {Now(ev)}
  <2>1. agenda' = Schedule(Rest, fs)
    BY <1>2
  <2>2. QED
    BY <1>7, <1>15, <1>16, <2>1, AgendaOne
<1>18. \A u \in Tasks : history'[u] = IF u = t THEN Written("store", "pending") ELSE history[u]
  BY <1>2, <1>6, <1>13
<1>19. /\ items'["pending"] = Append(items["pending"], t)
       /\ \A s \in Stores : s # "pending" => items'[s] = items[s]
       /\ items' \in [Stores -> Seq(Tasks)]
       /\ Range(items'["pending"]) = Range(items["pending"]) \cup {t}
       /\ IsInjective(items'["pending"])
  <2>1. /\ items'["pending"] = Append(items["pending"], t)
        /\ \A s \in Stores : s # "pending" => items'[s] = items[s]
    BY <1>2, <1>6, Strings
  <2>2. IsInjective(items["pending"])
    BY <1>4, Strings DEF SeqsInv
  <2>3. /\ Append(items["pending"], t) \in Seq(Tasks)
        /\ Range(Append(items["pending"], t)) = Range(items["pending"]) \cup {t}
        /\ IsInjective(Append(items["pending"], t))
    BY <1>6, <1>11, <2>2, AppendFacts
  <2>4. items' \in [Stores -> Seq(Tasks)]
    BY <1>2, <1>6, <2>3
  <2>5. QED
    BY <2>1, <2>3, <2>4
<1>20. Written("store", "pending").state = "pending" /\ Written("store", "pending") \in Entries
  BY EntryFacts DEF Open
<1>21. TypeInv'
  <2>1. history' \in [Tasks -> Entries] /\ \A u \in Tasks : history'[u] # Invalid
    <3>1. history' \in [Tasks -> Entries]
      BY <1>2, <1>6, <1>13, <1>20
    <3>2. Written("store", "pending") # Invalid
      BY EntryFacts, Strings
    <3>3. QED
      BY <1>3, <1>18, <3>1, <3>2
  <2>2. /\ alarm' \in [limit : Nat, signal : {"off", "armed", "triggered", "processed"}]
        /\ phase' \in {"seeding", "running", "stopped"}
        /\ queue' \in [WorkStates -> Seq(Tasks)]
        /\ listening' \subseteq WorkStates /\ awaiting' \subseteq WorkStates
    BY <1>2, <1>3, <1>7 DEF WorkflowTypeOK, StoresTypeOK, Live
  <2>3. QED
    BY <1>17, <1>19, <2>1, <2>2, TypeFrame
<1>22. Neutral(ev)
  BY <1>14, TaskFacts DEF Neutral, JobKinds, Concerns
<1>23. \A u \in Tasks : history'[u].state = history[u].state \/ history'[u].state = "pending"
  BY <1>18, <1>20
<1>24. ASSUME NEW u \in Tasks, jobs[u].at = "routing"
       PROVE  /\ jobs[u].stage = "deployment" => history'[u].state = history[u].state
              /\ ~InTrigger(u)'
  <2>1. /\ ~InTrigger(u)
        /\ jobs[u].stage = "deployment" => history[u].state \in {"qa_complete", "delivery"}
    BY <1>4, <1>24 DEF JobsInv, JobOK
  <2>2. \A e \in Upcoming' : e.kind = "trigger" => e \in Upcoming
    BY <1>5, <1>14, <1>17
  <2>3. ~InTrigger(u)'
    BY <2>1, <2>2 DEF InTrigger, In
  <2>4. NoEntry.state \notin {"qa_complete", "delivery"}
    BY DEF NoEntry, Entry
  <2>5. QED
    BY <1>18, <2>1, <2>3, <2>4
<1>25. /\ EventsInv' /\ WaitersInv' /\ SignalsInv' /\ ProcessInv' /\ TimerInv' /\ FlowInv'
       /\ JobsInv'
       /\ \A x \in Tasks, r \in Workers : AssignedTo(x, r)' => AssignedTo(x, r)
       /\ \A x \in Tasks, r \in Workers : HoldsPooled(x, r)' => HoldsPooled(x, r)
       /\ \A x \in Tasks : Holds(x)' = Holds(x) /\ At(x)' = At(x)
  <2> DEFINE N == {ev}
             ND == {Now(ev)}
  <2>1. /\ Upcoming' = Evs(Rest) \cup N /\ Range(agenda') = Range(Rest) \cup ND
        /\ \A e \in N : e \in Events /\ Neutral(e)
        /\ \A a \in ND : a.ev \in N /\ (a.ev.kind = "timer" => a.due > 0)
    BY <1>14, <1>15, <1>17, <1>22
  <2>2. UNCHANGED <<resourceVars, waiters>>
    BY <1>7
  <2> HIDE DEF N, ND
  <2>3. QED
    BY <1>23, <1>24, <2>1, <2>2, QuietStep
<1>26. PoolInv'
  BY <1>3, <1>7, <1>17, <1>25, PoolFrame
<1>27. SpotsInv'
  <2>1. \A e \in Upcoming' : e.kind # "stored" => e \in Upcoming
    BY <1>5, <1>14, <1>17
  <2>2. \A e \in Upcoming : e.kind \in {"got", "trigger"} => e \in Upcoming'
    BY <1>3, <1>5, <1>17
  <2>3. ASSUME NEW u \in Tasks, NEW k \in Spots, NEW p \in Wheres
        PROVE  In(k, p, u)' <=> In(k, p, u) \/ (u = t /\ k = "store" /\ p = "pending")
    <3>1. CASE k = "store"
      BY <1>19, <3>1, Strings DEF In
    <3>2. CASE k = "queue"
      BY <1>7, <3>2 DEF In
    <3>3. CASE k = "got" \/ k = "trigger"
      BY <2>1, <2>2, <3>3 DEF In
    <3>4. CASE k = "job"
      BY <1>25, <3>4 DEF In
    <3>5. QED
      BY <3>1, <3>2, <3>3, <3>4 DEF Spots
  <2>5. "store" \in Spots /\ "pending" \in Wheres
    BY Strings DEF Spots, Wheres
  <2>6. \A k, p : Written("store", "pending")' = Written("store", "pending")
    BY DEF Written
  <2>7. ASSUME NEW u \in Tasks
        PROVE  \/ /\ history'[u] = history[u]
                  /\ \A k \in Spots, p \in Wheres : In(k, p, u)' <=> In(k, p, u)
                  /\ \A p \in Tasks : u \in Holds(p) => At(p)' = At(p)
               \/ \E k1 \in Spots, p1 \in Wheres :
                     /\ history'[u] = Written(k1, p1)'
                     /\ \A k \in Spots, p \in Wheres : In(k, p, u)' <=> k = k1 /\ p = p1
    <3>1. CASE u = t
      <4>1. history'[u] = Written("store", "pending")'
        BY <1>18, <2>6, <3>1
      <4>2. \A k \in Spots, p \in Wheres : In(k, p, u)' <=> k = "store" /\ p = "pending"
        BY <1>8, <2>3, <3>1
      <4>3. QED
        BY <2>5, <4>1, <4>2
    <3>2. CASE u # t
      BY <1>18, <1>25, <2>3, <3>2
    <3>3. QED
      BY <3>1, <3>2
  <2>8. phase = "stopped" => phase' = "stopped"
    BY <1>7
  <2>9. QED
    BY <1>4, <2>7, <2>8, SpotsMove
<1>28. SeqsInv'
  <2>1. \A e \in Upcoming' : e.kind = "trigger" => e \in Upcoming
    BY <1>5, <1>14, <1>17
  <2>2. \A s \in Stores : IsInjective(items'[s])
    BY <1>4, <1>19 DEF SeqsInv
  <2>3. QED
    BY <1>4, <1>7, <2>1, <2>2 DEF SeqsInv, Windowed
<1>29. AlarmInv'
  <2>1. items'["delivery"] = items["delivery"]
    BY <1>19, Strings
  <2>2. \A u \in DevTasks : history[u] = Entry("terminal", "delivery") => history'[u] = history[u]
    BY <1>18, TaskFacts DEF Entry, NoEntry
  <2>3. \A u \in Tasks : IsSupport(u) => history'[u].state \in {"none", "pending", "development", "support_complete"}
    BY <1>4, <1>18, <1>20 DEF AlarmInv
  <2>4. QED
    BY <1>2, <1>4, <2>1, <2>2, <2>3 DEF AlarmInv
<1>31. \A u \in Tasks : Moves(u)
  <2> TAKE u \in Tasks
  <2>1. CASE u = t
    BY <1>7, <1>18, <1>20, <2>1, EntryFacts DEF Moves
  <2>2. CASE u # t
    BY <1>7, <1>18, <2>2 DEF Moves
  <2>3. QED
    BY <2>1, <2>2
<1>32. QED
  BY <1>2, <1>17, <1>18, <1>19, <1>21, <1>25, <1>26, <1>27, <1>28, <1>29, <1>31
     DEF ev

(* The workflow puts the next task of its backlog.                         *)
LEMMA SeedNextKeeps ==
  ASSUME KInv, SeedNext
  PROVE  KInv' /\ \A t \in Tasks : Moves(t)
<1> DEFINE n == Len(items["pending"])
           t == Backlog[n + 1]
           ev == Stored("pending", t, "workflow")
<1>1. /\ Happens("stored") /\ Occurring.by = "workflow" /\ n < Len(Backlog)
      /\ Put(items, "pending", t, history[t])
      /\ agenda' = Schedule(Rest, PutEvents(items, "pending", t, "workflow"))
      /\ UNCHANGED <<raised, resourceVars, phase, arrivals, operatorVars, poolVars>>
  BY DEF SeedNext
<1>3. /\ Live /\ LiveInv /\ raised = {} /\ WorkflowTypeOK /\ StoresTypeOK /\ ResourcesTypeOK
      /\ Occurring.kind = "stored" /\ setting \in Settings
      /\ \A u \in Tasks : history[u] # Invalid
  BY <1>1, Begin
<1>4. PhaseInv
  BY <1>3 DEF LiveInv
<1>5. /\ Upcoming = {Occurring} \cup Evs(Rest) /\ Upcoming \subseteq Events
      /\ \A e \in Evs(Rest) : ~Clash(Occurring, e)
      /\ Head(agenda).due = 0
  BY <1>1, BeginAgenda DEF Delayed
<1>6. /\ items \in [Stores -> Seq(Tasks)] /\ history \in [Tasks -> Entries]
      /\ items["pending"] \in Seq(Tasks) /\ n \in Nat
  <2>1. items \in [Stores -> Seq(Tasks)] /\ history \in [Tasks -> Entries]
    BY <1>3 DEF StoresTypeOK
  <2>2. QED
    BY <2>1, Strings, LenProperties
<1>7. arrivals' = arrivals /\ phase' = phase /\ listening' = listening /\ awaiting' = awaiting
  BY <1>1 DEF operatorVars
<1>8. OfWorkflow(Occurring)
  BY <1>1, <1>3 DEF OfWorkflow
<1>9. phase = "seeding" /\ Seeding
  BY <1>4, <1>5, <1>8 DEF PhaseInv
<1>10. \A e \in Evs(Rest) : e.kind = "arrival" /\ ~OfWorkflow(e)
  <2> TAKE e \in Evs(Rest)
  <2>1. ~OfWorkflow(e)
    BY <1>5, <1>8 DEF Clash
  <2>2. e \in Upcoming
    BY <1>5
  <2>3. PICK x \in Range(agenda) : x.ev = e
    BY <2>2, EvsRange DEF Upcoming
  <2>4. QED
    BY <1>9, <2>1, <2>3 DEF Seeding
<1>11. n + 1 \in 1..Len(Backlog) /\ t \in DevTasks /\ t \in Tasks /\ t \notin Range(items["pending"])
  <2>1. n + 1 \in 1..Len(Backlog)
    BY <1>1, <1>6, BacklogFacts
  <2>2. t \in DevTasks /\ t \in Tasks
    BY <2>1, InjectiveFacts, TaskFacts
  <2>3. ASSUME NEW i \in 1..n  PROVE items["pending"][i] # t
    <3>1. i \in 1..Len(Backlog) /\ i # n + 1
      BY <1>1, <1>6, BacklogFacts
    <3>2. Backlog[i] # Backlog[n + 1]
      BY <2>1, <3>1, InjectiveFacts
    <3>3. items["pending"][i] = Backlog[i]
      BY <1>9 DEF Seeding
    <3>4. QED
      BY <3>2, <3>3
  <2>4. DOMAIN items["pending"] = 1..n
    BY <1>6, LenProperties
  <2>5. QED
    BY <2>1, <2>2, <2>3, <2>4 DEF Range
<1> HIDE DEF t
<1>12. history[t] = NoEntry
  BY <1>9, <1>11 DEF Seeding
<1>14. ev.kind = "stored" /\ ev.by = "workflow" /\ OfWorkflow(ev)
  BY DEF Stored, OfWorkflow
<1>15. Neutral(Occurring)
  BY <1>1, <1>3, TaskFacts DEF Neutral, JobKinds, Concerns
<1> HIDE DEF ev
<1>16. ASSUME NEW f \in Evs(Rest)  PROVE ~Clash(f, ev)
  BY <1>10, <1>14, TaskFacts DEF Clash, Concerns, JobKinds, OfGenerator
<1>17. /\ TypeInv' /\ PoolInv'
       /\ Orderly(setting.cadence, agenda)' /\ SpotsInv' /\ SeqsInv' /\ JobsInv' /\ EventsInv'
       /\ WaitersInv' /\ SignalsInv' /\ ProcessInv' /\ TimerInv' /\ AlarmInv' /\ FlowInv'
       /\ Upcoming' = Evs(Rest) \cup {ev}
       /\ Range(agenda') = Range(Rest) \cup {Now(ev)}
       /\ items'["pending"] = Append(items["pending"], t)
       /\ Range(items'["pending"]) = Range(items["pending"]) \cup {t}
       /\ alarm' = alarm
       /\ \A u \in Tasks : history'[u] = IF u = t THEN Written("store", "pending") ELSE history[u]
       /\ \A u \in Tasks : Moves(u)
  <2>1. arrivals' \in 0..Len(Requests)
    BY <1>3, <1>7 DEF WorkflowTypeOK
  <2>2. \A e \in Evs(Rest) : ~Clash(e, Stored("pending", t, "workflow"))
    BY <1>16 DEF ev
  <2>3. "workflow" \in {"workflow", "generator"} /\ "stored" \in {"stored", "arrival"}
    OBVIOUS
  <2>4. /\ Put(items, "pending", t, history[t])
        /\ agenda' = Schedule(Rest, PutEvents(items, "pending", t, "workflow"))
        /\ UNCHANGED <<raised, resourceVars, phase, operatorVars, poolVars>>
    BY <1>1 DEF t
  <2>5. QED
    BY <1>1, <1>11, <1>12, <1>15, <2>1, <2>2, <2>3, <2>4, Entering DEF ev
<1>30. PhaseInv'
  <2>1. Seeding'
    <3>1. /\ arrivals' = 0 /\ alarm'.signal = "off"
      BY <1>7, <1>9, <1>17 DEF Seeding
    <3>2. \E e \in Upcoming' : OfWorkflow(e)
      BY <1>14, <1>17
    <3>3. ASSUME NEW x \in Range(agenda')
          PROVE  OfWorkflow(x.ev) \/ (x.ev.kind = "arrival" /\ x.due > 0)
      <4>1. CASE x = Now(ev)
        BY <1>14, <4>1 DEF Now
      <4>2. CASE x \in Range(Rest)
        <5>1. PICK y \in Range(agenda) : y.ev = x.ev /\ y.due = x.due + Head(agenda).due
          BY <1>1, <4>2, BeginAgenda
        <5>2. x.due \in Nat /\ x.ev \in Evs(Rest)
          BY <1>1, <4>2, BeginAgenda
        <5>3. y.due = x.due
          BY <1>5, <5>1, <5>2
        <5>4. QED
          BY <1>9, <1>10, <5>1, <5>2, <5>3 DEF Seeding
      <4>3. QED
        BY <1>17, <4>1, <4>2
    <3>4. Len(items'["pending"]) = n + 1
      BY <1>6, <1>11, <1>17, AppendFacts
    <3>5. ASSUME NEW i \in 1..n + 1  PROVE items'["pending"][i] = Backlog[i]
      <4>1. CASE i = n + 1
        <5>1. Append(items["pending"], t)[n + 1] = t
          BY <1>6, <1>11, AppendProperties
        <5>2. QED
          BY <1>17, <4>1, <5>1 DEF t
      <4>2. CASE i # n + 1
        <5>1. i \in 1..n
          BY <1>6, <4>2
        <5>2. Append(items["pending"], t)[i] = items["pending"][i]
          BY <1>6, <1>11, <5>1, AppendProperties
        <5>3. QED
          BY <1>9, <1>17, <5>1, <5>2 DEF Seeding
      <4>3. QED
        BY <4>1, <4>2
    <3>6. \A u \in Tasks : history'[u] # NoEntry => u \in Range(items'["pending"])
      BY <1>9, <1>17, <1>17 DEF Seeding
    <3> HIDE DEF n
    <3>7. QED
      BY <1>11, <3>1, <3>2, <3>3, <3>4, <3>5, <3>6 DEF Seeding
  <2>2. ASSUME NEW e \in Upcoming'
        PROVE  /\ e.kind \in {"arrival", "stored"}
               /\ e.kind = "arrival" => arrivals' < Len(Requests)
    BY <1>4, <1>5, <1>7, <1>10, <1>14, <1>17 DEF PhaseInv
  <2>3. \A i \in 1..Len(Requests) : i > arrivals' => history'[Requests[i]] = NoEntry
    <3> TAKE i \in 1..Len(Requests)
    <3> HAVE i > arrivals'
    <3>1. Requests[i] \in Tasks /\ Requests[i] # t
      BY <1>11, InjectiveFacts
    <3>2. history[Requests[i]] = NoEntry
      BY <1>4, <1>7 DEF PhaseInv
    <3>3. QED
      BY <1>17, <3>1, <3>2
  <2>4. phase' = "seeding" /\ listening' = {} /\ awaiting' = {}
    BY <1>4, <1>7, <1>9 DEF PhaseInv
  <2>5. QED
    BY <2>1, <2>2, <2>3, <2>4 DEF PhaseInv
<1>32. QED
  BY <1>17, <1>30 DEF KInv, LiveInv

-----------------------------------------------------------------------------
(* A put serves the monitor that waits at the store.                       *)

(* At most one monitor is served, so the order does not matter.            *)
LEMMA SetToSeqFacts ==
  /\ SetToSeq({}) = <<>>
  /\ \A e : SetToSeq({e}) = <<e>>
<1>1. SetToSeq({}) = <<>>
  <2>1. Cardinality({}) = 0
    BY FS_EmptySet
  <2>2. \E f \in [1..Cardinality({}) -> {}] : IsInjective(f)
    <3>1. <<>> \in [1..0 -> {}]
      OBVIOUS
    <3>2. QED
      BY <2>1, <3>1, EmptyFacts
  <2>3. SetToSeq({}) \in [1..0 -> {}]
    BY <2>1, <2>2 DEF SetToSeq
  <2>4. QED
    BY <2>3
<1>2. ASSUME NEW e  PROVE SetToSeq({e}) = <<e>>
  <2>1. Cardinality({e}) = 1
    BY FS_Singleton
  <2>2. <<e>> \in [1..1 -> {e}]
    OBVIOUS
  <2>3. \E f \in [1..Cardinality({e}) -> {e}] : IsInjective(f)
    BY <2>1, <2>2, SingleFacts
  <2>4. SetToSeq({e}) \in [1..1 -> {e}]
    BY <2>1, <2>3 DEF SetToSeq
  <2>5. QED
    BY <2>4
<1>3. QED
  BY <1>1, <1>2

(* While the stores are seeded, nothing but the seeding happens.           *)
LEMMA SeedingHead ==
  ASSUME KInv, NEW kind, Happens(kind), phase = "seeding"
  PROVE  OfWorkflow(Occurring) /\ kind = "stored"
<1>1. PhaseInv /\ Occurring.kind = kind
  BY Begin DEF LiveInv
<1>2. Seeding
  BY <1>1 DEF PhaseInv
<1>3. PICK e \in Upcoming : OfWorkflow(e)
  BY <1>2 DEF Seeding
<1>4. e.kind \notin Delayed
  BY <1>3 DEF OfWorkflow, Delayed
<1>5. Head(agenda) \in Range(agenda) /\ Head(agenda).ev = Occurring
      /\ (Head(agenda).due > 0 => \A f \in Upcoming : f.kind \in Delayed)
  BY BeginAgenda
<1>6. ~(Head(agenda).due > 0)
  BY <1>4, <1>5
<1>7. OfWorkflow(Occurring)
  BY <1>2, <1>5, <1>6 DEF Seeding
<1>8. QED
  BY <1>1, <1>7 DEF OfWorkflow

(* The task the monitor is given is handed over, and not stored any more.  *)
LEMMA ServeFacts ==
  ASSUME KInv, NEW kind, Happens(kind), NEW store \in Stores
  PROVE  /\ OneOrNone(GotEvents(store))
         /\ ItemsLeft(store) \in [Stores -> Seq(Tasks)]
         /\ \A p \in Stores : IsInjective(ItemsLeft(store)[p])
         /\ \A g \in Evs(GotEvents(store)) :
              /\ g \in Events /\ g.kind = "got" /\ g.stage \in listening /\ g.stage \in Served(store)
              /\ Source(g.stage) = store
              /\ g.task \in Range(items[store]) /\ g.task \in Tasks /\ store \in Open
              /\ history[g.task] = Entry("start", store)
              /\ ItemsLeft(store) = [items EXCEPT ![store] = Tail(@)]
         /\ \A g, h \in Evs(GotEvents(store)) : g = h
         /\ \A p \in Stores, t \in Tasks : t \in Range(ItemsLeft(store)[p]) <=>
              t \in Range(items[p]) /\ ~(p = store /\ \E g \in Evs(GotEvents(store)) : g.task = t)
         /\ \A p \in Stores \ {store} : ItemsLeft(store)[p] = items[p]
         /\ \A e \in Range(GotEvents(store)) : Fits(setting.cadence, Evs(Rest), e)
         /\ \A e \in Range(GotEvents(store)) : e.ev \in Evs(GotEvents(store)) /\ e.due = 0
<1> DEFINE its == ItemsLeft(store)
           S == Served(store)
           G == Evs(GotEvents(store))
<1>1. /\ LiveInv /\ WorkflowTypeOK /\ StoresTypeOK
  BY Begin
<1>2. SpotsInv /\ SeqsInv /\ PhaseInv
  BY <1>1 DEF LiveInv
<1>3. /\ items \in [Stores -> Seq(Tasks)] /\ items[store] \in Seq(Tasks) /\ listening \subseteq WorkStates
  BY <1>1 DEF StoresTypeOK, WorkflowTypeOK
<1>4. CASE S = {}
  <2>1. its = items /\ GotEvents(store) = <<>>
    BY <1>4, SetToSeqFacts DEF ItemsLeft, GotEvents
  <2>2. OneOrNone(<<>>) /\ Range(<<>>) = {} /\ Evs(<<>>) = {}
    BY OneOrNoneFacts
  <2>3. \A p \in Stores : IsInjective(items[p])
    BY <1>2 DEF SeqsInv
  <2> HIDE DEF its
  <2>4. QED
    BY <1>3, <2>1, <2>2, <2>3 DEF its
<1>5. ASSUME NEW s \in S  PROVE
         /\ OneOrNone(GotEvents(store))
         /\ ItemsLeft(store) \in [Stores -> Seq(Tasks)]
         /\ \A p \in Stores : IsInjective(ItemsLeft(store)[p])
         /\ \A g \in G :
              /\ g \in Events /\ g.kind = "got" /\ g.stage \in listening /\ g.stage \in Served(store)
              /\ Source(g.stage) = store
              /\ g.task \in Range(items[store]) /\ g.task \in Tasks /\ store \in Open
              /\ history[g.task] = Entry("start", store)
              /\ ItemsLeft(store) = [items EXCEPT ![store] = Tail(@)]
         /\ \A g, h \in G : g = h
         /\ \A p \in Stores, t \in Tasks : t \in Range(ItemsLeft(store)[p]) <=>
              t \in Range(items[p]) /\ ~(p = store /\ \E g \in G : g.task = t)
         /\ \A p \in Stores \ {store} : ItemsLeft(store)[p] = items[p]
         /\ \A e \in Range(GotEvents(store)) : Fits(setting.cadence, Evs(Rest), e)
         /\ \A e \in Range(GotEvents(store)) : e.ev \in G /\ e.due = 0
  <2> DEFINE u == Head(items[store])
             g == Got(s, u)
             e == Now(g)
  <2>1. s \in listening /\ s \in WorkStates /\ Source(s) = store /\ items[store] # <<>>
    BY <1>3, <1>5 DEF Served
  <2>2. S = {s}
    BY <1>3, <2>1, Strings DEF Served
  <2>3. its = [items EXCEPT ![store] = Tail(@)]
    BY <2>2 DEF ItemsLeft
  <2>4. GotEvents(store) = <<e>>
    <3>1. {Now(Got(z, Head(items[store]))) : z \in S} = {e}
      BY <2>2
    <3>2. GotEvents(store) = SetToSeq({Now(Got(z, Head(items[store]))) : z \in S})
      BY DEF GotEvents
    <3>3. QED
      BY <3>1, <3>2, SetToSeqFacts
  <2>5. IsInjective(items[store])
    BY <1>2 DEF SeqsInv
  <2>6. /\ u \in Tasks /\ Tail(items[store]) \in Seq(Tasks)
        /\ Range(items[store]) = {u} \cup Range(Tail(items[store]))
        /\ IsInjective(Tail(items[store])) /\ u \notin Range(Tail(items[store]))
    BY <1>3, <2>1, <2>5, TailFacts
  <2> HIDE DEF u
  <2>7. g \in Events /\ g.kind = "got" /\ g.stage = s /\ g.task = u
    BY <2>1, <2>6, EventTypes DEF Got
  <2> HIDE DEF g
  <2>8. OneOrNone(<<e>>) /\ Range(<<e>>) = {e} /\ Evs(<<e>>) = {g} /\ e.ev = g /\ e.due = 0
    BY <2>7, NowFacts
  <2> HIDE DEF e
  <2>9. history[u] = Entry("start", store) /\ store \in Open
    <3>1. store \in Open
      BY <2>1, Strings
    <3>2. "store" \in Spots /\ store \in Wheres
      BY DEF Spots, Wheres
    <3>3. In("store", store, u)
      BY <2>6 DEF In
    <3>4. history[u] = Written("store", store)
      BY <1>2, <2>6, <3>2, <3>3 DEF SpotsInv
    <3>5. QED
      BY <3>1, <3>4, EntryFacts
  <2>10. Fits(setting.cadence, Evs(Rest), e)
    <3>1. ASSUME NEW f \in Evs(Rest)  PROVE ~Clash(f, g) /\ ~TooLate(setting.cadence, f, g)
      <4>1. f \in Upcoming
        BY BeginAgenda
      <4>2. ~(f.kind = "got" /\ f.stage = s)
        BY <1>2, <2>1, <4>1 DEF PhaseInv
      <4>3. QED
        BY <2>7, <4>2 DEF Clash, TooLate, Concerns, JobKinds, OfGenerator, OfWorkflow
    <3>2. QED
      BY <2>7, <3>1, FitsNow DEF e
  <2>11. its \in [Stores -> Seq(Tasks)]
    BY <1>3, <2>3, <2>6
  <2>12. /\ its[store] = Tail(items[store])
         /\ \A p \in Stores \ {store} : its[p] = items[p]
    BY <1>3, <2>3
  <2>13. \A p \in Stores : IsInjective(its[p])
    BY <1>2, <2>6, <2>12 DEF SeqsInv
  <2> HIDE DEF its
  <2>14. G = {g} /\ Range(GotEvents(store)) = {e} /\ OneOrNone(GotEvents(store))
    BY <2>4, <2>8
  <2> HIDE DEF G
  <2>15. \A p \in Stores, t \in Tasks : t \in Range(its[p]) <=>
              t \in Range(items[p]) /\ ~(p = store /\ \E h \in G : h.task = t)
    BY <2>6, <2>7, <2>12, <2>14
  <2>16. \A h \in G :
              /\ h \in Events /\ h.kind = "got" /\ h.stage \in listening /\ h.stage \in Served(store)
              /\ Source(h.stage) = store
              /\ h.task \in Range(items[store]) /\ h.task \in Tasks /\ store \in Open
              /\ history[h.task] = Entry("start", store)
              /\ its = [items EXCEPT ![store] = Tail(@)]
    BY <1>5, <2>1, <2>3, <2>6, <2>7, <2>9, <2>14
  <2>17. \A h, i \in G : h = i
    BY <2>14
  <2>18. /\ \A a \in Range(GotEvents(store)) : Fits(setting.cadence, Evs(Rest), a)
         /\ \A a \in Range(GotEvents(store)) : a.ev \in G /\ a.due = 0
    BY <2>8, <2>10, <2>14
  <2>19. QED
    BY <2>11, <2>12, <2>13, <2>14, <2>15, <2>16, <2>17, <2>18 DEF its
<1>6. QED
  BY <1>4, <1>5

-----------------------------------------------------------------------------
(* The generator of support tasks.                                         *)

(* It puts a task after its interval.                                      *)
LEMMA SupportArrivesKeeps ==
  ASSUME KInv, SupportArrives
  PROVE  KInv' /\ \A t \in Tasks : Moves(t)
<1> DEFINE n == arrivals + 1
           t == Requests[n]
           ev == Stored("pending", t, "generator")
<1>1. /\ Happens("arrival") /\ arrivals' = n
      /\ Put(items, "pending", t, history[t])
      /\ agenda' = Schedule(Rest, PutEvents(items, "pending", t, "generator"))
      /\ UNCHANGED <<raised, resourceVars, phase, operatorVars, poolVars>>
  BY DEF SupportArrives
<1>2. /\ LiveInv /\ WorkflowTypeOK /\ Occurring.kind = "arrival" /\ phase # "over"
  BY <1>1, Begin
<1>3. PhaseInv /\ AlarmInv
  BY <1>2 DEF LiveInv
<1>4. /\ Upcoming = {Occurring} \cup Evs(Rest) /\ Upcoming \subseteq Events /\ Occurring \in Upcoming
      /\ \A e \in Evs(Rest) : ~Clash(Occurring, e)
  BY <1>1, BeginAgenda
<1>5. phase # "seeding"
  BY <1>1, SeedingHead
<1>6. arrivals \in Nat /\ n \in 1..Len(Requests) /\ n \in 0..Len(Requests)
  <2>1. arrivals < Len(Requests) /\ arrivals \in 0..Len(Requests)
    BY <1>2, <1>3, <1>4 DEF PhaseInv, WorkflowTypeOK
  <2>2. QED
    BY <2>1, BacklogFacts
<1>7. t \in Tasks /\ t \notin DevTasks /\ history[t] = NoEntry
  <2>1. t \in Tasks /\ t \notin DevTasks
    BY <1>6, InjectiveFacts
  <2>2. n > arrivals
    BY <1>6
  <2>3. QED
    BY <1>3, <1>6, <2>1, <2>2 DEF PhaseInv
<1>8. Neutral(Occurring) /\ OfGenerator(Occurring)
  BY <1>2 DEF Neutral, JobKinds, Concerns, OfGenerator
<1>9. \A e \in Evs(Rest) : ~OfGenerator(e)
  BY <1>4, <1>8 DEF Clash
<1> HIDE DEF t
<1>10. ev.kind = "stored" /\ ev.by = "generator" /\ ev.store = "pending" /\ ev.task = t
  BY DEF Stored
<1> HIDE DEF ev
<1>11. ASSUME NEW e \in Evs(Rest)  PROVE ~Clash(e, ev)
  BY <1>9, <1>10, TaskFacts DEF Clash, Concerns, JobKinds, OfWorkflow
<1>12. /\ TypeInv' /\ PoolInv'
       /\ Orderly(setting.cadence, agenda)' /\ SpotsInv' /\ SeqsInv' /\ JobsInv' /\ EventsInv'
       /\ WaitersInv' /\ SignalsInv' /\ ProcessInv' /\ TimerInv' /\ AlarmInv' /\ FlowInv'
       /\ Upcoming' = Evs(Rest) \cup {ev}
       /\ alarm' = alarm
       /\ \A u \in Tasks : history'[u] = IF u = t THEN Written("store", "pending") ELSE history[u]
       /\ \A u \in Tasks : Moves(u)
  <2>1. arrivals' \in 0..Len(Requests)
    BY <1>1, <1>6
  <2>2. \A e \in Evs(Rest) : ~Clash(e, Stored("pending", t, "generator"))
    BY <1>11 DEF ev
  <2>3. "generator" \in {"workflow", "generator"} /\ "arrival" \in {"stored", "arrival"}
    OBVIOUS
  <2>4. /\ Put(items, "pending", t, history[t])
        /\ agenda' = Schedule(Rest, PutEvents(items, "pending", t, "generator"))
        /\ UNCHANGED <<raised, resourceVars, phase, operatorVars, poolVars>>
    BY <1>1 DEF t
  <2>5. QED
    BY <1>1, <1>7, <1>8, <2>1, <2>2, <2>3, <2>4, Entering DEF ev
<1>13. PhaseInv'
  <2>1. /\ phase' = phase /\ listening' = listening /\ awaiting' = awaiting /\ setting' = setting
        /\ alarm' = alarm
    BY <1>1, <1>12 DEF operatorVars, resourceVars
  <2>2. ASSUME NEW e \in Upcoming'
        PROVE  (e \in Upcoming /\ e.kind # "arrival") \/ e = ev
    BY <1>4, <1>9, <1>12 DEF OfGenerator
  <2>3. \A e \in Upcoming : e.kind # "arrival" => e \in Upcoming'
    BY <1>2, <1>4, <1>12
  <2>4. \A i \in 1..Len(Requests) : i > arrivals' => history'[Requests[i]] = NoEntry
    <3> TAKE i \in 1..Len(Requests)
    <3> HAVE i > arrivals'
    <3>1. i # n /\ i > arrivals
      BY <1>1, <1>6, BacklogFacts
    <3>2. Requests[i] \in Tasks /\ Requests[i] # t
      BY <1>6, <3>1, InjectiveFacts DEF t
    <3>3. history[Requests[i]] = NoEntry
      BY <1>3, <3>1 DEF PhaseInv
    <3>4. QED
      BY <1>12, <3>2, <3>3
  <2>5. ~OfWorkflow(ev)
    BY <1>10 DEF OfWorkflow
  <2>6. ASSUME phase = "running"
        PROVE  \A s \in WorkStates : s \in awaiting' <=> ~\E e \in Upcoming' : e.kind = "trigger" /\ e.stage = s
    <3>1. \A s \in WorkStates : s \in awaiting <=> ~\E e \in Upcoming : e.kind = "trigger" /\ e.stage = s
      BY <1>3, <2>6 DEF PhaseInv
    <3>2. \A e : e.kind = "trigger" => (e \in Upcoming <=> e \in Upcoming')
      BY <1>10, <2>2, <2>3
    <3>3. QED
      BY <2>1, <3>1, <3>2
  <2>7. ASSUME NEW e \in Upcoming'
        PROVE  /\ ~OfWorkflow(e)
               /\ e.kind = "alarm" => alarm'.signal = "triggered"
               /\ e.kind = "over" => phase' = "stopped"
               /\ e.kind = "timer" => setting'.cadence > 0
               /\ e.kind = "trigger" /\ phase' = "running" => e.heard
               /\ e.kind = "arrival" => arrivals' < Len(Requests)
               /\ e.kind = "got" => e.stage \notin listening'
    <3>1. CASE e \in Upcoming /\ e.kind # "arrival"
      BY <1>3, <1>5, <2>1, <3>1 DEF PhaseInv
    <3>2. CASE e = ev
      BY <1>10, <2>5, <3>2
    <3>3. QED
      BY <2>2, <3>1, <3>2
  <2>8. QED
    BY <1>3, <1>5, <2>1, <2>4, <2>6, <2>7 DEF PhaseInv
<1>14. QED
  BY <1>12, <1>13 DEF KInv, LiveInv

(* Then it waits for the next interval, while there are tasks left.        *)
LEMMA GeneratorContinuesKeeps ==
  ASSUME KInv, GeneratorContinues
  PROVE  KInv' /\ \A t \in Tasks : Moves(t)
<1> DEFINE fs == GotEvents("pending")
           gs == IF arrivals < Len(Requests) THEN <<After(setting.interval, Arrival)>> ELSE <<>>
           G == Evs(fs)
<1>1. /\ Happens("stored") /\ Occurring.by = "generator" /\ Serve("pending")
      /\ items' = ItemsLeft("pending")
      /\ agenda' = Schedule(Rest, fs \o gs)
      /\ UNCHANGED <<raised, history, alarm, resourceVars, phase, arrivals, queue, awaiting, poolVars>>
  BY DEF GeneratorContinues
<1>2. /\ Live /\ LiveInv /\ WorkflowTypeOK /\ StoresTypeOK /\ ResourcesTypeOK /\ PoolInv
      /\ Occurring.kind = "stored" /\ setting \in Settings /\ phase # "over"
      /\ \A u \in Tasks : history[u] # Invalid
  BY <1>1, Begin
<1>3. SpotsInv /\ SeqsInv /\ PhaseInv /\ AlarmInv /\ JobsInv
  BY <1>2 DEF LiveInv
<1>4. /\ Upcoming = {Occurring} \cup Evs(Rest) /\ Upcoming \subseteq Events
      /\ \A e \in Evs(Rest) : ~Clash(Occurring, e)
  BY <1>1, BeginAgenda
<1>5. /\ setting' = setting /\ jobs' = jobs /\ left' = left /\ queue' = queue /\ phase' = phase
      /\ arrivals' = arrivals /\ awaiting' = awaiting /\ history' = history /\ alarm' = alarm
      /\ pool' = pool /\ hired' = hired /\ waiters' = waiters /\ raised' = raised
      /\ listening' = listening \ Served("pending")
  BY <1>1 DEF resourceVars, poolVars, Serve
<1>6. OfGenerator(Occurring) /\ Neutral(Occurring) /\ ~OfWorkflow(Occurring)
  BY <1>1, <1>2, TaskFacts DEF OfGenerator, OfWorkflow, Neutral, Concerns, JobKinds
<1>7. \A e \in Evs(Rest) : ~OfGenerator(e)
  BY <1>4, <1>6 DEF Clash
<1>8. phase # "seeding"
  BY <1>1, <1>6, SeedingHead
<1>9. "pending" \in Stores /\ "delivery" \in Stores \ {"pending"}
  BY Strings
<1>10. /\ OneOrNone(fs)
       /\ items' \in [Stores -> Seq(Tasks)]
       /\ \A p \in Stores : IsInjective(items'[p])
       /\ \A g \in G :
              /\ g \in Events /\ g.kind = "got" /\ g.stage \in listening /\ g.stage \in Served("pending")
              /\ Source(g.stage) = "pending"
              /\ g.task \in Range(items["pending"]) /\ g.task \in Tasks
              /\ history[g.task] = Entry("start", "pending")
       /\ \A g, h \in G : g = h
       /\ \A p \in Stores, t \in Tasks : t \in Range(items'[p]) <=>
              t \in Range(items[p]) /\ ~(p = "pending" /\ \E g \in G : g.task = t)
       /\ items'["delivery"] = items["delivery"]
       /\ \A e \in Range(fs) : Fits(setting.cadence, Evs(Rest), e)
       /\ \A e \in Range(fs) : e.ev \in G
  BY <1>1, <1>9, ServeFacts
<1>11. /\ OneOrNone(gs) /\ Evs(gs) \subseteq {Arrival} /\ Arrival \in Events
       /\ Arrival.kind = "arrival"
       /\ Arrival \in Evs(gs) => arrivals < Len(Requests)
       /\ \A e \in Range(gs) : e.ev \in Evs(gs)
       /\ \A e \in Range(gs) : Fits(setting.cadence, Evs(Rest) \cup G, e)
  <2> DEFINE e == After(setting.interval, Arrival)
  <2>1. setting.interval \in Nat /\ Arrival \in Events /\ Arrival.kind = "arrival"
    BY <1>2, SettingFacts, EventTypes DEF Arrival
  <2>2. OneOrNone(<<e>>) /\ Range(<<e>>) = {e} /\ Evs(<<e>>) = {Arrival} /\ e.ev = Arrival
    BY <2>1, OneOrNoneFacts
  <2>3. Fits(setting.cadence, Evs(Rest) \cup G, e)
    <3>1. ASSUME NEW f \in Evs(Rest) \cup G  PROVE ~Clash(f, Arrival)
      <4>1. ~OfGenerator(f)
        BY <1>7, <1>10 DEF OfGenerator
      <4>2. QED
        BY <2>1, <4>1 DEF Clash, Concerns, JobKinds, OfWorkflow
    <3>2. Arrival.kind \in Delayed /\ Arrival.kind # "timer"
      BY <2>1 DEF Delayed
    <3>3. QED
      BY <2>1, <3>1, <3>2, FitsAfter
  <2> HIDE DEF e
  <2>4. CASE arrivals < Len(Requests)
    <3>1. gs = <<e>>
      BY <2>4 DEF e
    <3> HIDE DEF gs
    <3>2. QED
      BY <2>1, <2>2, <2>3, <2>4, <3>1
  <2>5. CASE ~(arrivals < Len(Requests))
    <3>1. gs = <<>>
      BY <2>5
    <3> HIDE DEF gs
    <3>2. QED
      BY <2>1, <3>1, OneOrNoneFacts
  <2>6. QED
    BY <2>4, <2>5
<1> HIDE DEF fs, gs, G
<1>12. /\ agenda' \in Seq(Dated) /\ Orderly(setting.cadence, agenda)' /\ Sorted'
       /\ \A x, y \in Range(agenda') : Precedes(agenda', x, y) =>
                ~(x.ev.kind = "assigned" /\ x.ev = y.ev)
       /\ Upcoming' = Evs(Rest) \cup Evs(fs) \cup Evs(gs)
       /\ Range(agenda') = Range(Rest) \cup Range(fs) \cup Range(gs)
  <2>1. \A e \in Range(gs) : Fits(setting.cadence, Evs(Rest) \cup Evs(fs), e)
    BY <1>11 DEF G
  <2>2. agenda' = Schedule(Rest, fs \o gs) /\ Happens("stored") /\ setting' = setting
    BY <1>1, <1>5
  <2>3. QED
    BY <1>10, <1>11, <2>1, <2>2, AgendaTwo
<1> DEFINE N == G \cup Evs(gs)
           ND == Range(fs) \cup Range(gs)
<1>13. /\ Upcoming' = Evs(Rest) \cup N /\ Range(agenda') = Range(Rest) \cup ND
       /\ \A e \in N : e \in Events /\ e.kind \in {"got", "arrival"} /\ Neutral(e)
       /\ \A a \in ND : a.ev \in N /\ (a.ev.kind = "timer" => a.due > 0)
       /\ \A e \in N : e.kind = "got" <=> e \in G
       /\ \A e \in G : e \in N /\ e \in Upcoming'
  <2>1. Upcoming' = Evs(Rest) \cup N /\ Range(agenda') = Range(Rest) \cup ND
    BY <1>12 DEF G
  <2>2. \A e \in N : e \in Events /\ e.kind \in {"got", "arrival"} /\ (e.kind = "got" <=> e \in G)
    BY <1>10, <1>11
  <2>3. \A e \in N : Neutral(e)
    BY <2>2 DEF Neutral, JobKinds, Concerns
  <2>4. \A a \in ND : a.ev \in N
    BY <1>10, <1>11
  <2>5. \A e \in G : e \in N /\ e \in Upcoming'
    BY <2>1
  <2>6. QED
    BY <2>1, <2>2, <2>3, <2>4, <2>5
<1> HIDE DEF N, ND
<1>14. \A e \in Upcoming' : e \in Upcoming \/ e \in N
  BY <1>4, <1>13
<1>15. \A e \in Upcoming : e.kind # "stored" => e \in Upcoming'
  BY <1>2, <1>4, <1>13
<1>16. \A e : e.kind = "trigger" => (e \in Upcoming <=> e \in Upcoming')
  BY <1>13, <1>14, <1>15
<1>17. \A e : e.kind = "got" => (e \in Upcoming' <=> e \in Upcoming \/ e \in G)
  BY <1>13, <1>14, <1>15
<1>18. /\ EventsInv' /\ WaitersInv' /\ SignalsInv' /\ ProcessInv' /\ TimerInv' /\ FlowInv'
       /\ JobsInv'
       /\ \A x \in Tasks, r \in Workers : AssignedTo(x, r)' => AssignedTo(x, r)
       /\ \A x \in Tasks, r \in Workers : HoldsPooled(x, r)' => HoldsPooled(x, r)
       /\ \A x \in Tasks : Holds(x)' = Holds(x) /\ At(x)' = At(x)
  <2>1. \A t \in Tasks : jobs[t].at = "routing" =>
             /\ jobs[t].stage = "deployment" => history'[t].state = history[t].state
             /\ ~InTrigger(t)'
    <3>1. \A t \in Tasks : InTrigger(t)' => InTrigger(t)
      BY <1>16 DEF InTrigger, In
    <3>2. QED
      BY <1>3, <1>5, <3>1 DEF JobsInv, JobOK
  <2>2. \A t \in Tasks : history'[t].state = history[t].state \/ history'[t].state = "pending"
    BY <1>5
  <2>3. /\ Upcoming' = Evs(Rest) \cup N /\ Range(agenda') = Range(Rest) \cup ND
        /\ \A e \in N : e \in Events /\ Neutral(e)
        /\ \A a \in ND : a.ev \in N /\ (a.ev.kind = "timer" => a.due > 0)
    BY <1>13
  <2>4. UNCHANGED <<resourceVars, waiters>>
    BY <1>1, <1>5
  <2>5. QED
    BY <1>1, <1>6, <2>1, <2>2, <2>3, <2>4, QuietStep
<1>19. PoolInv'
  BY <1>2, <1>5, <1>12, <1>18, PoolFrame
<1>20. TypeInv'
  <2>1. /\ alarm' \in [limit : Nat, signal : {"off", "armed", "triggered", "processed"}]
        /\ history' \in [Tasks -> Entries] /\ \A t \in Tasks : history'[t] # Invalid
        /\ phase' \in {"seeding", "running", "stopped"}
        /\ arrivals' \in 0..Len(Requests)
        /\ queue' \in [WorkStates -> Seq(Tasks)]
        /\ listening' \subseteq WorkStates /\ awaiting' \subseteq WorkStates
    BY <1>2, <1>5 DEF WorkflowTypeOK, StoresTypeOK
  <2>2. UNCHANGED <<resourceVars, poolVars, raised>>
    BY <1>1
  <2>3. QED
    BY <1>10, <1>12, <2>1, <2>2, TypeFrame
<1>21. SpotsInv'
  <2>1. ASSUME NEW u \in Tasks, NEW k \in Spots, NEW p \in Wheres
        PROVE  In(k, p, u)' <=>
                 \/ In(k, p, u) /\ ~(k = "store" /\ p = "pending" /\ \E g \in G : g.task = u)
                 \/ k = "got" /\ \E g \in G : g.stage = p /\ g.task = u
    <3>1. CASE k = "store"
      BY <1>10, <3>1 DEF In
    <3>2. CASE k = "queue"
      BY <1>5, <3>2 DEF In
    <3>3. CASE k = "got"
      <4>1. In(k, p, u)' <=> p \in WorkStates /\ \E e \in Upcoming' : e.kind = "got" /\ e.stage = p /\ e.task = u
        BY <3>3 DEF In
      <4>2. In(k, p, u) <=> p \in WorkStates /\ \E e \in Upcoming : e.kind = "got" /\ e.stage = p /\ e.task = u
        BY <3>3 DEF In
      <4>3. \A g \in G : g.kind = "got" /\ g.stage \in WorkStates
        BY <1>2, <1>10 DEF WorkflowTypeOK
      <4>4. QED
        BY <1>17, <3>3, <4>1, <4>2, <4>3
    <3>4. CASE k = "trigger"
      BY <1>16, <3>4 DEF In
    <3>5. CASE k = "job"
      BY <1>18, <3>5 DEF In
    <3>6. QED
      BY <3>1, <3>2, <3>3, <3>4, <3>5 DEF Spots
  <2>2. ASSUME NEW u \in Tasks
        PROVE  \/ /\ history'[u] = history[u]
                  /\ \A k \in Spots, p \in Wheres : In(k, p, u)' <=> In(k, p, u)
                  /\ \A p \in Tasks : u \in Holds(p) => At(p)' = At(p)
               \/ \E k1 \in Spots, p1 \in Wheres :
                     /\ history'[u] = Written(k1, p1)'
                     /\ \A k \in Spots, p \in Wheres : In(k, p, u)' <=> k = k1 /\ p = p1
    <3>1. ASSUME NEW g \in G, g.task = u
          PROVE  \E k1 \in Spots, p1 \in Wheres :
                     /\ history'[u] = Written(k1, p1)'
                     /\ \A k \in Spots, p \in Wheres : In(k, p, u)' <=> k = k1 /\ p = p1
      <4>1. g.stage \in WorkStates /\ g.stage \in Wheres /\ "got" \in Spots
        BY <1>2, <1>10 DEF WorkflowTypeOK, Wheres, Spots
      <4>2. "store" \in Spots /\ "pending" \in Wheres /\ In("store", "pending", u)
        BY <1>9, <1>10, <3>1 DEF Spots, Wheres, In
      <4>3. \A k \in Spots, p \in Wheres : In(k, p, u) => k = "store" /\ p = "pending"
        BY <1>3, <4>2 DEF SpotsInv
      <4>4. \A k \in Spots, p \in Wheres : In(k, p, u)' <=> k = "got" /\ p = g.stage
        BY <1>10, <2>1, <3>1, <4>3
      <4>5. history'[u] = Written("got", g.stage)'
        BY <1>5, <1>10, <3>1, <4>1 DEF Written
      <4>6. QED
        BY <4>1, <4>4, <4>5
    <3>2. CASE ~\E g \in G : g.task = u
      BY <1>5, <1>18, <2>1, <3>2
    <3>3. QED
      BY <3>1, <3>2
  <2>3. phase = "stopped" => phase' = "stopped"
    BY <1>5
  <2>4. QED
    BY <1>3, <2>2, <2>3, SpotsMove
<1>22. SeqsInv'
  BY <1>3, <1>5, <1>10, <1>16 DEF SeqsInv, Windowed
<1>23. AlarmInv'
  BY <1>3, <1>5, <1>10 DEF AlarmInv
<1>24. PhaseInv'
  <2>1. ASSUME phase = "running"
        PROVE  \A s \in WorkStates : s \in awaiting' <=> ~\E e \in Upcoming' : e.kind = "trigger" /\ e.stage = s
    <3>1. \A s \in WorkStates : s \in awaiting <=> ~\E e \in Upcoming : e.kind = "trigger" /\ e.stage = s
      BY <1>3, <2>1 DEF PhaseInv
    <3>2. QED
      BY <1>5, <1>16, <3>1
  <2>2. ASSUME NEW e \in Upcoming'
        PROVE  /\ ~OfWorkflow(e)
               /\ e.kind = "alarm" => alarm'.signal = "triggered"
               /\ e.kind = "over" => phase' = "stopped"
               /\ e.kind = "timer" => setting'.cadence > 0
               /\ e.kind = "trigger" /\ phase' = "running" => e.heard
               /\ e.kind = "arrival" => arrivals' < Len(Requests)
               /\ e.kind = "got" => e.stage \notin listening'
    <3>1. CASE e \in Upcoming
      BY <1>3, <1>5, <1>8, <3>1 DEF PhaseInv
    <3>2. CASE e \in N
      <4>1. e.kind = "arrival" => e \in Evs(gs)
        BY <1>10, <1>13, <3>2 DEF N
      <4>2. e.kind = "arrival" => arrivals < Len(Requests)
        BY <1>11, <4>1
      <4>3. QED
        BY <1>5, <1>10, <1>13, <3>2, <4>2 DEF OfWorkflow
    <3>3. QED
      BY <1>14, <3>1, <3>2
  <2>3. QED
    BY <1>3, <1>5, <1>8, <2>1, <2>2 DEF PhaseInv
<1>25. \A t \in Tasks : Moves(t)
  BY <1>5 DEF Moves
<1>26. QED
  BY <1>12, <1>18, <1>19, <1>20, <1>21, <1>22, <1>23, <1>24, <1>25 DEF KInv, LiveInv

-----------------------------------------------------------------------------
(* Steps of the workflow and its operators.                                *)

(* A step within a phase that has begun keeps what is known of it.         *)
LEMMA PhaseStays ==
  ASSUME PhaseInv, phase # "seeding", phase' = phase, setting' = setting, arrivals' = arrivals,
         alarm'.limit = alarm.limit,
         alarm'.signal = alarm.signal \/ (alarm.signal = "armed" /\ alarm'.signal = "triggered"),
         phase # "running" => listening' = {} /\ awaiting' = {},
         \A e \in Upcoming' : e \notin Upcoming =>
            /\ ~OfWorkflow(e) /\ e.kind \notin {"over", "arrival"}
            /\ e.kind = "alarm" => alarm'.signal = "triggered"
            /\ e.kind = "timer" => setting.cadence > 0
            /\ e.kind = "trigger" => e.heard,
         \A e \in Upcoming' : e.kind = "got" => e.stage \notin listening',
         phase = "running" => \A s \in WorkStates :
            s \in awaiting' <=> ~\E e \in Upcoming' : e.kind = "trigger" /\ e.stage = s,
         \A t \in Tasks : history[t] = NoEntry => history'[t] = NoEntry
  PROVE  PhaseInv'
<1>1. ASSUME NEW e \in Upcoming'
      PROVE  /\ ~OfWorkflow(e)
             /\ e.kind = "alarm" => alarm'.signal = "triggered"
             /\ e.kind = "over" => phase = "stopped"
             /\ e.kind = "timer" => setting.cadence > 0
             /\ e.kind = "trigger" /\ phase = "running" => e.heard
             /\ e.kind = "arrival" => arrivals < Len(Requests)
  <2>1. CASE e \in Upcoming
    BY <2>1 DEF PhaseInv
  <2>2. CASE e \notin Upcoming
    BY <2>2
  <2>3. QED
    BY <2>1, <2>2
<1>2. \A i \in 1..Len(Requests) : i > arrivals => history'[Requests[i]] = NoEntry
  BY InjectiveFacts DEF PhaseInv
<1>3. /\ phase = "running" => alarm'.signal \in {"armed", "triggered"} /\ alarm'.limit = Len(Backlog)
      /\ phase = "stopped" => alarm'.signal = "processed"
  BY DEF PhaseInv
<1>4. QED
  BY <1>1, <1>2, <1>3 DEF PhaseInv

(* The run returns when everything of the backlog is delivered.            *)
LEMMA RunEndsKeeps ==
  ASSUME KInv, RunEnds
  PROVE  KInv' /\ (\A t \in Tasks : Moves(t))
         /\ \A t \in DevTasks : history[t] = Entry("terminal", "delivery")
<1>1. /\ Happens("over") /\ phase' = "over" /\ agenda' = <<>>
      /\ UNCHANGED <<raised, storeVars, resourceVars, arrivals, operatorVars, poolVars>>
  BY DEF RunEnds
<1>2. LiveInv /\ WorkflowTypeOK /\ OwnersInv /\ PoolInv /\ Occurring.kind = "over"
  BY <1>1, Begin
<1>3. \A t \in Tasks : history[t] # Invalid
  BY <1>1, Begin
<1>4. Sorted'
  BY <1>1 DEF Sorted
<1>5. WorkflowTypeOK'
  BY <1>1, <1>2, <1>4 DEF WorkflowTypeOK, StoresTypeOK, ResourcesTypeOK,
     storeVars, resourceVars, operatorVars, poolVars
<1>6. TypeInv'
  <2>1. agenda' \in Seq(Dated)
    BY <1>1
  <2>2. OwnersInv'
    BY <1>1, <1>2 DEF OwnersInv, poolVars
  <2>3. QED
    BY <1>1, <1>3, <1>5, <2>1, <2>2 DEF TypeInv, storeVars
<1>7. PoolInv'
  <2>1. Upcoming' = {} /\ Range(agenda') = {}
    BY <1>1 DEF Upcoming, Evs, Range
  <2>2. \A x \in Tasks, r \in Workers : AssignedTo(x, r)' => AssignedTo(x, r)
    BY <2>1 DEF AssignedTo
  <2>3. \A x \in Tasks, r \in Workers : HoldsPooled(x, r)' => HoldsPooled(x, r)
    BY <1>1 DEF HoldsPooled, resourceVars
  <2>4. hired' = hired /\ pool' = pool
    BY <1>1 DEF poolVars
  <2>5. QED
    BY <1>2, <2>1, <2>2, <2>3, <2>4, PoolFrame
<1>8. ~Live'
  BY <1>1 DEF Live
<1>9. \A t \in Tasks : Moves(t)
  BY <1>1 DEF Moves, storeVars, resourceVars
<1>10. \A t \in DevTasks : history[t] = Entry("terminal", "delivery")
  <2>1. Occurring \in Upcoming
    BY <1>1, BeginAgenda
  <2>2. alarm.signal = "processed"
    BY <1>2, <2>1 DEF LiveInv, PhaseInv
  <2>3. QED
    BY <1>2, <2>2 DEF LiveInv, AlarmInv
<1>11. QED
  BY <1>6, <1>7, <1>8, <1>9, <1>10 DEF KInv

(* What the stopped operators receive, they leave.                         *)
LEMMA Dropping ==
  ASSUME KInv, NEW kind, Happens(kind), kind \in {"timer", "got", "trigger"}, phase = "stopped",
         agenda' = Rest,
         history' = IF kind = "got"
                    THEN [history EXCEPT ![Occurring.task] = End(@, Source(Occurring.stage))]
                    ELSE history,
         UNCHANGED <<raised, items, alarm, resourceVars, phase, arrivals, operatorVars, poolVars>>
  PROVE  KInv' /\ \A t \in Tasks : Moves(t)
<1>2. /\ Live /\ LiveInv /\ WorkflowTypeOK /\ StoresTypeOK /\ ResourcesTypeOK /\ PoolInv
      /\ Occurring.kind = kind /\ setting \in Settings /\ phase # "over"
      /\ \A u \in Tasks : history[u] # Invalid
  BY Begin
<1>3. SpotsInv /\ SeqsInv /\ PhaseInv /\ AlarmInv /\ JobsInv
  BY <1>2 DEF LiveInv
<1>4. /\ Upcoming = {Occurring} \cup Evs(Rest) /\ Upcoming \subseteq Events /\ Occurring \in Upcoming
      /\ \A e \in Evs(Rest) : ~Clash(Occurring, e)
  BY BeginAgenda
<1>5. /\ setting' = setting /\ jobs' = jobs /\ left' = left /\ queue' = queue /\ phase' = phase
      /\ arrivals' = arrivals /\ awaiting' = awaiting /\ alarm' = alarm /\ items' = items
      /\ pool' = pool /\ hired' = hired /\ waiters' = waiters /\ raised' = raised
      /\ listening' = listening
  BY DEF resourceVars, poolVars, operatorVars
<1>6. Neutral(Occurring)
  BY <1>2 DEF Neutral, Concerns, JobKinds
<1>7. /\ agenda' \in Seq(Dated) /\ Orderly(setting.cadence, agenda)' /\ Sorted'
      /\ \A x, y \in Range(agenda') : Precedes(agenda', x, y) =>
                ~(x.ev.kind = "assigned" /\ x.ev = y.ev)
      /\ Upcoming' = Evs(Rest)
      /\ Range(agenda') = Range(Rest)
  BY <1>5, AgendaNone
<1>8. Occurring \notin Evs(Rest)
  BY <1>2, <1>4 DEF Clash
<1>9. \A e : e \in Upcoming' <=> e \in Upcoming /\ e # Occurring
  BY <1>4, <1>7, <1>8
<1>10. kind = "got" => /\ Occurring.stage \in WorkStates /\ Occurring.task \in Tasks
                       /\ history[Occurring.task] = Entry("start", Source(Occurring.stage))
                       /\ history'[Occurring.task] = Entry("end", Source(Occurring.stage))
  <2> SUFFICES ASSUME kind = "got"
               PROVE  /\ Occurring.stage \in WorkStates /\ Occurring.task \in Tasks
                      /\ history[Occurring.task] = Entry("start", Source(Occurring.stage))
                      /\ history'[Occurring.task] = Entry("end", Source(Occurring.stage))
    OBVIOUS
  <2>1. Occurring.stage \in WorkStates /\ Occurring.task \in Tasks
    BY <1>2, <1>4, EventFields
  <2>2. "got" \in Spots /\ Occurring.stage \in Wheres /\ In("got", Occurring.stage, Occurring.task)
    BY <1>2, <1>4, <2>1 DEF Spots, Wheres, In
  <2>3. history[Occurring.task] = Entry("start", Source(Occurring.stage))
    BY <1>3, <2>1, <2>2, EntryFacts DEF SpotsInv
  <2>4. history \in [Tasks -> Entries]
    BY <1>2 DEF StoresTypeOK
  <2>5. history'[Occurring.task] = End(history[Occurring.task], Source(Occurring.stage))
    BY <2>1, <2>4
  <2>6. QED
    BY <2>1, <2>3, <2>5, EntryFacts, Strings
<1>11. \A u \in Tasks : \/ history'[u] = history[u]
                        \/ kind = "got" /\ u = Occurring.task
  BY <1>2 DEF StoresTypeOK
<1>12. /\ history' \in [Tasks -> Entries]
       /\ \A u \in Tasks : history'[u].state = history[u].state /\ history'[u] # Invalid
       /\ \A u \in Tasks : history'[u].type = history[u].type \/ history'[u] = Entry("end", history[u].state)
       /\ \A u \in Tasks : history[u] = NoEntry => history'[u] = NoEntry
  <2>1. history \in [Tasks -> Entries]
    BY <1>2 DEF StoresTypeOK
  <2>2. ASSUME NEW u \in Tasks
        PROVE  /\ history'[u] \in Entries /\ history'[u].state = history[u].state /\ history'[u] # Invalid
               /\ history'[u].type = history[u].type \/ history'[u] = Entry("end", history[u].state)
               /\ history[u] = NoEntry => history'[u] = NoEntry
    <3>1. CASE history'[u] = history[u]
      BY <1>2, <2>1, <3>1
    <3>2. CASE kind = "got" /\ u = Occurring.task
      BY <1>10, <3>2, EntryFacts, Strings
    <3>3. QED
      BY <1>11, <3>1, <3>2
  <2>3. \A u \in Tasks : history'[u] \in Entries
    BY <2>2
  <2>4. history' \in [Tasks -> Entries]
    BY <2>1, <2>3
  <2>5. QED
    BY <2>2, <2>4
<1>13. \A e : e \in Upcoming' => e \in Upcoming
  BY <1>9
<1>18. /\ EventsInv' /\ WaitersInv' /\ SignalsInv' /\ ProcessInv' /\ TimerInv' /\ FlowInv'
       /\ JobsInv'
       /\ \A x \in Tasks, r \in Workers : AssignedTo(x, r)' => AssignedTo(x, r)
       /\ \A x \in Tasks, r \in Workers : HoldsPooled(x, r)' => HoldsPooled(x, r)
       /\ \A x \in Tasks : Holds(x)' = Holds(x) /\ At(x)' = At(x)
  <2>1. \A t \in Tasks : jobs[t].at = "routing" =>
             /\ jobs[t].stage = "deployment" => history'[t].state = history[t].state
             /\ ~InTrigger(t)'
    <3>1. \A t \in Tasks : InTrigger(t)' => InTrigger(t)
      BY <1>13 DEF InTrigger, In
    <3>2. QED
      BY <1>3, <1>12, <3>1 DEF JobsInv, JobOK
  <2>2. \A t \in Tasks : history'[t].state = history[t].state \/ history'[t].state = "pending"
    BY <1>12
  <2> DEFINE N == {}
             ND == {}
  <2>3. /\ Upcoming' = Evs(Rest) \cup N /\ Range(agenda') = Range(Rest) \cup ND
        /\ \A e \in N : e \in Events /\ Neutral(e)
        /\ \A a \in ND : a.ev \in N /\ (a.ev.kind = "timer" => a.due > 0)
    BY <1>7
  <2> HIDE DEF N, ND
  <2>4. UNCHANGED <<resourceVars, waiters>>
    BY <1>5
  <2>5. QED
    BY <1>6, <2>1, <2>2, <2>3, <2>4, QuietStep
<1>19. PoolInv'
  BY <1>2, <1>5, <1>7, <1>18, PoolFrame
<1>20. TypeInv'
  <2>1. /\ items' \in [Stores -> Seq(Tasks)]
        /\ alarm' \in [limit : Nat, signal : {"off", "armed", "triggered", "processed"}]
        /\ phase' \in {"seeding", "running", "stopped"}
        /\ arrivals' \in 0..Len(Requests)
        /\ queue' \in [WorkStates -> Seq(Tasks)]
        /\ listening' \subseteq WorkStates /\ awaiting' \subseteq WorkStates
    BY <1>2, <1>5 DEF WorkflowTypeOK, StoresTypeOK
  <2>2. \A u \in Tasks : history'[u] # Invalid
    BY <1>12
  <2>3. UNCHANGED <<resourceVars, poolVars, raised>>
    OBVIOUS
  <2>4. QED
    BY <1>7, <1>12, <2>1, <2>2, <2>3, TypeFrame
<1>21. SpotsInv'
  <2> DEFINE Lost(k, p, u) == \/ /\ k = "got" /\ kind = "got"
                                 /\ p = Occurring.stage /\ u = Occurring.task
                              \/ /\ k = "trigger" /\ kind = "trigger"
                                 /\ p = Occurring.stage /\ u \in Range(Occurring.batch)
  <2>1. ASSUME NEW u \in Tasks, NEW k \in Spots, NEW p \in Wheres
        PROVE  In(k, p, u)' <=> In(k, p, u) /\ ~Lost(k, p, u)
    <3>1. CASE k = "store"
      BY <1>5, <3>1 DEF In
    <3>2. CASE k = "queue"
      BY <1>5, <3>2 DEF In
    <3>3. CASE k = "got"
      <4>1. In(k, p, u)' <=> p \in WorkStates /\ \E e \in Upcoming' : e.kind = "got" /\ e.stage = p /\ e.task = u
        BY <3>3 DEF In
      <4>2. In(k, p, u) <=> p \in WorkStates /\ \E e \in Upcoming : e.kind = "got" /\ e.stage = p /\ e.task = u
        BY <3>3 DEF In
      <4>3. ASSUME NEW e \in Evs(Rest), e.kind = "got", kind = "got"  PROVE e.stage # Occurring.stage
        BY <1>2, <1>4, <4>3 DEF Clash
      <4>4. QED
        BY <1>2, <1>4, <1>7, <3>3, <4>1, <4>2, <4>3
    <3>4. CASE k = "trigger"
      <4>1. In(k, p, u)' <=> p \in WorkStates
                /\ \E e \in Upcoming' : e.kind = "trigger" /\ e.stage = p /\ u \in Range(e.batch)
        BY <3>4 DEF In
      <4>2. In(k, p, u) <=> p \in WorkStates
                /\ \E e \in Upcoming : e.kind = "trigger" /\ e.stage = p /\ u \in Range(e.batch)
        BY <3>4 DEF In
      <4>3. ASSUME NEW e \in Evs(Rest), e.kind = "trigger", kind = "trigger"
            PROVE  e.stage # Occurring.stage
        BY <1>2, <1>4, <4>3 DEF Clash
      <4>4. QED
        BY <1>2, <1>4, <1>7, <3>4, <4>1, <4>2, <4>3
    <3>5. CASE k = "job"
      BY <1>18, <3>5 DEF In
    <3>6. QED
      BY <3>1, <3>2, <3>3, <3>4, <3>5 DEF Spots
  <2>2. ASSUME NEW u \in Tasks
        PROVE  \/ /\ history'[u] = history[u]
                  /\ \A k \in Spots, p \in Wheres : In(k, p, u)' <=> In(k, p, u)
                  /\ \A p \in Tasks : u \in Holds(p) => At(p)' = At(p)
               \/ /\ phase' = "stopped"
                  /\ \A k \in Spots, p \in Wheres : ~In(k, p, u)'
    <3>1. ASSUME NEW k \in Spots, NEW p \in Wheres, In(k, p, u), Lost(k, p, u)
          PROVE  \A l \in Spots, q \in Wheres : ~In(l, q, u)'
      <4>1. \A l \in Spots, q \in Wheres : In(l, q, u) => l = k /\ q = p
        BY <1>3, <3>1 DEF SpotsInv
      <4>2. QED
        BY <2>1, <3>1, <4>1
    <3>2. CASE \E k \in Spots, p \in Wheres : In(k, p, u) /\ Lost(k, p, u)
      BY <1>5, <3>1, <3>2
    <3>3. CASE ~\E k \in Spots, p \in Wheres : In(k, p, u) /\ Lost(k, p, u)
      <4>1. \A k \in Spots, p \in Wheres : In(k, p, u)' <=> In(k, p, u)
        BY <2>1, <3>3
      <4>2. history'[u] = history[u]
        <5>1. ASSUME kind = "got", u = Occurring.task  PROVE FALSE
          <6>1. "got" \in Spots /\ Occurring.stage \in Wheres /\ In("got", Occurring.stage, u)
            BY <1>2, <1>4, <1>10, <5>1 DEF Spots, Wheres, In
          <6>2. Lost("got", Occurring.stage, u)
            BY <5>1
          <6>3. QED
            BY <3>3, <6>1, <6>2
        <5>2. QED
          BY <1>11, <5>1
      <4>3. QED
        BY <1>18, <4>1, <4>2
    <3>4. QED
      BY <3>2, <3>3
  <2>3. phase = "stopped" => phase' = "stopped"
    BY <1>5
  <2>4. QED
    BY <1>3, <2>2, <2>3, SpotsMove
<1>22. SeqsInv'
  BY <1>3, <1>5, <1>13 DEF SeqsInv, Windowed
<1>23. AlarmInv'
  <2>1. \A t \in Tasks : history[t].type = "terminal" => history'[t] = history[t]
    BY <1>10, <1>11, EntryFacts
  <2>2. \A t \in DevTasks : history[t] = Entry("terminal", "delivery") => history'[t] = history[t]
    BY <2>1, TaskFacts, EntryFacts
  <2>3. QED
    BY <1>3, <1>5, <1>12, <2>2 DEF AlarmInv
<1>24. PhaseInv'
  <2>1. listening' = {} /\ awaiting' = {}
    BY <1>3, <1>5 DEF PhaseInv
  <2>2. \A e \in Upcoming' : e.kind = "got" => e.stage \notin listening'
    BY <2>1
  <2>3. phase # "seeding" /\ phase # "running"
    OBVIOUS
  <2>4. /\ phase # "running" => listening' = {} /\ awaiting' = {}
        /\ alarm'.limit = alarm.limit
        /\ alarm'.signal = alarm.signal \/ (alarm.signal = "armed" /\ alarm'.signal = "triggered")
    BY <1>5, <2>1
  <2>5. \A e \in Upcoming' : e \notin Upcoming =>
            /\ ~OfWorkflow(e) /\ e.kind \notin {"over", "arrival"}
            /\ e.kind = "alarm" => alarm'.signal = "triggered"
            /\ e.kind = "timer" => setting.cadence > 0
            /\ e.kind = "trigger" => e.heard
    BY <1>13
  <2>6. phase = "running" => \A s \in WorkStates :
            s \in awaiting' <=> ~\E e \in Upcoming' : e.kind = "trigger" /\ e.stage = s
    BY <2>3
  <2>7. \A t \in Tasks : history[t] = NoEntry => history'[t] = NoEntry
    BY <1>12
  <2>8. QED
    BY <1>3, <1>5, <2>2, <2>3, <2>4, <2>5, <2>6, <2>7, PhaseStays
<1>25. \A t \in Tasks : Moves(t)
  BY <1>5, <1>12 DEF Moves
<1>26. QED
  BY <1>7, <1>18, <1>19, <1>20, <1>21, <1>22, <1>23, <1>24, <1>25 DEF KInv, LiveInv

(* Timers and triggers that nobody hears any more.                         *)
LEMMA IgnoredKeeps ==
  ASSUME KInv, Ignored
  PROVE  KInv' /\ \A t \in Tasks : Moves(t)
<1>1. /\ \/ Happens("timer") /\ phase = "stopped"
         \/ Happens("trigger") /\ ~(phase = "running" /\ Occurring.heard)
      /\ agenda' = Rest
      /\ UNCHANGED <<raised, storeVars, resourceVars, phase, arrivals, operatorVars, poolVars>>
  BY DEF Ignored
<1>2. UNCHANGED <<raised, items, alarm, resourceVars, phase, arrivals, operatorVars, poolVars>>
      /\ history' = history
  BY <1>1 DEF storeVars
<1>3. CASE Happens("timer") /\ phase = "stopped"
  <2> DEFINE kind == "timer"
  <2>1. /\ Happens(kind) /\ kind \in {"timer", "got", "trigger"}
        /\ history' = IF kind = "got"
                      THEN [history EXCEPT ![Occurring.task] = End(@, Source(Occurring.stage))]
                      ELSE history
    BY <1>2, <1>3
  <2> HIDE DEF kind
  <2>2. QED
    BY <1>1, <1>2, <1>3, <2>1, Dropping
<1>4. CASE Happens("trigger") /\ ~(phase = "running" /\ Occurring.heard)
  <2> DEFINE kind == "trigger"
  <2>1. /\ Happens(kind) /\ kind \in {"timer", "got", "trigger"}
        /\ history' = IF kind = "got"
                      THEN [history EXCEPT ![Occurring.task] = End(@, Source(Occurring.stage))]
                      ELSE history
    BY <1>2, <1>4
  <2>2. LiveInv /\ WorkflowTypeOK /\ Occurring.kind = "trigger" /\ phase # "over"
    BY <1>4, Begin
  <2>3. PhaseInv /\ Occurring \in Upcoming
    BY <1>4, <2>2, BeginAgenda DEF LiveInv
  <2>4. phase # "running" /\ phase # "seeding"
    BY <1>4, <2>2, <2>3 DEF PhaseInv
  <2>5. phase = "stopped"
    BY <2>2, <2>4 DEF WorkflowTypeOK
  <2> HIDE DEF kind
  <2>6. QED
    BY <1>1, <1>2, <2>1, <2>5, Dropping
<1>5. QED
  BY <1>1, <1>3, <1>4

(* A task that was handed over to a monitor that has been stopped.         *)
LEMMA MonitorStoppedKeeps ==
  ASSUME KInv, MonitorStopped
  PROVE  KInv' /\ \A t \in Tasks : Moves(t)
<1> DEFINE kind == "got"
<1>1. /\ Happens(kind) /\ phase = "stopped" /\ kind \in {"timer", "got", "trigger"}
      /\ history' = IF kind = "got"
                    THEN [history EXCEPT ![Occurring.task] = End(@, Source(Occurring.stage))]
                    ELSE history
      /\ agenda' = Rest
      /\ UNCHANGED <<raised, items, alarm, resourceVars, phase, arrivals, operatorVars, poolVars>>
  BY DEF MonitorStopped
<1> HIDE DEF kind
<1>2. QED
  BY <1>1, Dropping

(* A step of the operators that leaves histories, resources and pools      *)
(* alone keeps everything but what its places and phases are about.        *)
LEMMA QuietKeeps ==
  ASSUME KInv, NEW kind, Happens(kind), UNCHANGED <<raised, history, resourceVars, poolVars>>,
         agenda' \in Seq(Dated), Sorted',
         \A x, y \in Range(agenda') : Precedes(agenda', x, y) =>
             ~(x.ev.kind = "assigned" /\ x.ev = y.ev),
         NEW N, NEW ND,
         Upcoming' = Evs(Rest) \cup N,
         Range(agenda') = Range(Rest) \cup ND,
         Neutral(Occurring),
         \A e \in N : e \in Events /\ Neutral(e),
         \A a \in ND : a.ev \in N /\ (a.ev.kind = "timer" => a.due > 0),
         \A t \in Tasks : jobs[t].at = "routing" => ~InTrigger(t)',
         items' \in [Stores -> Seq(Tasks)],
         alarm' \in [limit : Nat, signal : {"off", "armed", "triggered", "processed"}],
         phase' \in {"seeding", "running", "stopped"},
         arrivals' = arrivals,
         queue' \in [WorkStates -> Seq(Tasks)],
         listening' \subseteq WorkStates, awaiting' \subseteq WorkStates
  PROVE  /\ EventsInv' /\ WaitersInv' /\ SignalsInv' /\ ProcessInv' /\ TimerInv' /\ FlowInv'
         /\ JobsInv' /\ PoolInv' /\ TypeInv'
         /\ \A x \in Tasks : Holds(x)' = Holds(x) /\ At(x)' = At(x)
         /\ \A t \in Tasks : Moves(t)
<1>1. WorkflowTypeOK /\ StoresTypeOK /\ PoolInv /\ \A u \in Tasks : history[u] # Invalid
  BY Begin
<1>2. UNCHANGED <<resourceVars, waiters>> /\ hired' = hired /\ pool' = pool /\ history' = history
      /\ left' = left
  BY DEF poolVars, resourceVars
<1>3. /\ EventsInv' /\ WaitersInv' /\ SignalsInv' /\ ProcessInv' /\ TimerInv' /\ FlowInv'
      /\ JobsInv'
      /\ \A x \in Tasks, r \in Workers : AssignedTo(x, r)' => AssignedTo(x, r)
      /\ \A x \in Tasks, r \in Workers : HoldsPooled(x, r)' => HoldsPooled(x, r)
      /\ \A x \in Tasks : Holds(x)' = Holds(x) /\ At(x)' = At(x)
  <2>1. \A t \in Tasks : jobs[t].at = "routing" =>
             /\ jobs[t].stage = "deployment" => history'[t].state = history[t].state
             /\ ~InTrigger(t)'
    BY <1>2
  <2>2. \A t \in Tasks : history'[t].state = history[t].state \/ history'[t].state = "pending"
    BY <1>2
  <2>3. /\ Upcoming' = Evs(Rest) \cup N /\ Range(agenda') = Range(Rest) \cup ND
        /\ \A e \in N : e \in Events /\ Neutral(e)
        /\ \A a \in ND : a.ev \in N /\ (a.ev.kind = "timer" => a.due > 0)
    OBVIOUS
  <2>4. QED
    BY <1>2, <2>1, <2>2, <2>3, QuietStep
<1>4. PoolInv'
  BY <1>1, <1>2, <1>3, PoolFrame
<1>5. TypeInv'
  <2>1. history' \in [Tasks -> Entries] /\ (\A u \in Tasks : history'[u] # Invalid)
        /\ arrivals' \in 0..Len(Requests)
    BY <1>1, <1>2 DEF WorkflowTypeOK, StoresTypeOK
  <2>2. UNCHANGED <<resourceVars, poolVars, raised>>
    OBVIOUS
  <2>3. QED
    BY <2>1, <2>2, TypeFrame
<1>6. \A t \in Tasks : Moves(t)
  BY <1>2 DEF Moves
<1>7. QED
  BY <1>3, <1>4, <1>5, <1>6

(* The alarm stops the operators and schedules the end.                    *)
LEMMA AlarmRingsKeeps ==
  ASSUME KInv, AlarmRings
  PROVE  KInv' /\ \A t \in Tasks : Moves(t)
<1>1. /\ Happens("alarm") /\ alarm' = [alarm EXCEPT !.signal = "processed"]
      /\ phase' = "stopped" /\ listening' = {} /\ awaiting' = {}
      /\ agenda' = Schedule(Rest, <<Now(Over)>>)
      /\ UNCHANGED <<raised, items, history, resourceVars, arrivals, queue, poolVars>>
  BY DEF AlarmRings
<1>2. /\ Live /\ LiveInv /\ WorkflowTypeOK /\ StoresTypeOK /\ Occurring.kind = "alarm"
      /\ phase # "over"
  BY <1>1, Begin
<1>3. SpotsInv /\ SeqsInv /\ PhaseInv /\ AlarmInv /\ JobsInv
  BY <1>2 DEF LiveInv
<1>4. /\ Upcoming = {Occurring} \cup Evs(Rest) /\ Upcoming \subseteq Events /\ Occurring \in Upcoming
      /\ \A e \in Evs(Rest) : ~Clash(Occurring, e)
  BY <1>1, BeginAgenda
<1>5. /\ setting' = setting /\ jobs' = jobs /\ left' = left /\ queue' = queue
      /\ arrivals' = arrivals /\ items' = items /\ history' = history
  BY <1>1 DEF resourceVars
<1>6. Neutral(Occurring)
  BY <1>2 DEF Neutral, Concerns, JobKinds
<1>7. phase = "running" /\ alarm.signal = "triggered"
  <2>1. alarm.signal = "triggered"
    BY <1>2, <1>3, <1>4 DEF PhaseInv
  <2>2. QED
    BY <1>2, <1>3, <2>1 DEF PhaseInv, Seeding, WorkflowTypeOK
<1>8. Over \in Events /\ Over.kind = "over" /\ Neutral(Over)
  BY EventTypes DEF Over, Neutral, Concerns, JobKinds
<1> DEFINE fs == <<Now(Over)>>
<1>9. OneOrNone(fs) /\ Range(fs) = {Now(Over)} /\ Evs(fs) = {Over} /\ Now(Over).ev = Over
  BY <1>8, NowFacts
<1>10. \A e \in Range(fs) : Fits(setting.cadence, Evs(Rest), e)
  <2>1. \A f \in Evs(Rest) : ~Clash(f, Over) /\ ~TooLate(setting.cadence, f, Over)
    BY <1>8 DEF Clash, TooLate, Concerns, JobKinds, OfWorkflow, OfGenerator
  <2>2. Over.kind # "timer"
    BY <1>8
  <2>3. Fits(setting.cadence, Evs(Rest), Now(Over))
    BY <1>8, <2>1, <2>2, FitsNow
  <2>4. QED
    BY <1>9, <2>3
<1> HIDE DEF fs
<1>11. /\ agenda' \in Seq(Dated) /\ Orderly(setting.cadence, agenda)' /\ Sorted'
       /\ \A x, y \in Range(agenda') : Precedes(agenda', x, y) =>
                ~(x.ev.kind = "assigned" /\ x.ev = y.ev)
       /\ Upcoming' = Evs(Rest) \cup {Over}
       /\ Range(agenda') = Range(Rest) \cup {Now(Over)}
  <2>1. agenda' = Schedule(Rest, fs)
    BY <1>1 DEF fs
  <2>2. QED
    BY <1>1, <1>5, <1>9, <1>10, <2>1, AgendaOne
<1>12. \A e : e.kind \notin {"over", "alarm"} => (e \in Upcoming' <=> e \in Upcoming)
  BY <1>2, <1>4, <1>8, <1>11
<1>13. /\ EventsInv' /\ WaitersInv' /\ SignalsInv' /\ ProcessInv' /\ TimerInv' /\ FlowInv'
       /\ JobsInv' /\ PoolInv' /\ TypeInv'
       /\ \A x \in Tasks : Holds(x)' = Holds(x) /\ At(x)' = At(x)
       /\ \A t \in Tasks : Moves(t)
  <2> DEFINE N == {Over}
             ND == {Now(Over)}
  <2>1. /\ Upcoming' = Evs(Rest) \cup N /\ Range(agenda') = Range(Rest) \cup ND
        /\ \A e \in N : e \in Events /\ Neutral(e)
        /\ \A a \in ND : a.ev \in N /\ (a.ev.kind = "timer" => a.due > 0)
    BY <1>8, <1>9, <1>11
  <2> HIDE DEF N, ND
  <2>2. \A t \in Tasks : InTrigger(t)' => InTrigger(t)
    BY <1>12 DEF InTrigger, In
  <2>3. \A t \in Tasks : jobs[t].at = "routing" => ~InTrigger(t)'
    BY <1>3, <2>2 DEF JobsInv, JobOK
  <2>4. /\ items' \in [Stores -> Seq(Tasks)]
        /\ alarm' \in [limit : Nat, signal : {"off", "armed", "triggered", "processed"}]
        /\ phase' \in {"seeding", "running", "stopped"}
        /\ queue' \in [WorkStates -> Seq(Tasks)]
        /\ listening' \subseteq WorkStates /\ awaiting' \subseteq WorkStates
    BY <1>1, <1>2, <1>5 DEF WorkflowTypeOK, StoresTypeOK
  <2>5. UNCHANGED <<raised, history, resourceVars, poolVars>>
    BY <1>1
  <2>6. QED
    BY <1>1, <1>5, <1>6, <1>11, <2>1, <2>3, <2>4, <2>5, QuietKeeps
<1>14. SpotsInv'
  <2>1. ASSUME NEW u \in Tasks, NEW k \in Spots, NEW p \in Wheres
        PROVE  In(k, p, u)' <=> In(k, p, u)
    <3>1. CASE k \in {"store", "queue"}
      BY <1>5, <3>1 DEF In
    <3>2. CASE k \in {"got", "trigger"}
      BY <1>12, <3>2 DEF In
    <3>3. CASE k = "job"
      BY <1>13, <3>3 DEF In
    <3>4. QED
      BY <3>1, <3>2, <3>3 DEF Spots
  <2>2. \A u \in Tasks : /\ history'[u] = history[u]
                         /\ \A k \in Spots, p \in Wheres : In(k, p, u)' <=> In(k, p, u)
                         /\ \A p \in Tasks : u \in Holds(p) => At(p)' = At(p)
    BY <1>5, <1>13, <2>1
  <2>3. phase = "stopped" => phase' = "stopped"
    BY <1>1
  <2>4. QED
    BY <1>3, <2>2, <2>3, SpotsMove
<1>15. SeqsInv'
  BY <1>3, <1>5, <1>12 DEF SeqsInv, Windowed
<1>16. AlarmInv'
  <2>1. alarm'.signal = "processed"
    BY <1>1, <1>2 DEF StoresTypeOK
  <2>2. QED
    BY <1>3, <1>5, <1>7, <2>1 DEF AlarmInv
<1>17. PhaseInv'
  <2>1. alarm'.signal = "processed"
    BY <1>1, <1>2 DEF StoresTypeOK
  <2>2. ASSUME NEW e \in Upcoming'
        PROVE  /\ ~OfWorkflow(e)
               /\ e.kind # "alarm"
               /\ e.kind = "timer" => setting'.cadence > 0
               /\ e.kind = "arrival" => arrivals' < Len(Requests)
    <3>1. CASE e = Over
      BY <1>8, <3>1 DEF OfWorkflow
    <3>2. CASE e \in Evs(Rest)
      <4>1. e.kind # "alarm"
        BY <1>2, <1>4, <3>2 DEF Clash
      <4>2. QED
        BY <1>3, <1>4, <1>5, <1>7, <3>2, <4>1 DEF PhaseInv
    <3>3. QED
      BY <1>11, <3>1, <3>2
  <2>3. \A i \in 1..Len(Requests) : i > arrivals' => history'[Requests[i]] = NoEntry
    BY <1>3, <1>5 DEF PhaseInv
  <2>4. QED
    BY <1>1, <2>1, <2>2, <2>3 DEF PhaseInv
<1>18. QED
  BY <1>11, <1>13, <1>14, <1>15, <1>16, <1>17 DEF KInv, LiveInv

(* When the timer is due, no job is between its operate and its end.       *)
LEMMA HeadTimer ==
  ASSUME KInv, Happens("timer")
  PROVE  \A x \in Tasks : jobs[x].at \notin {"routing", "done"}
<1> SUFFICES ASSUME NEW x \in Tasks, jobs[x].at \in {"routing", "done"}  PROVE FALSE
  OBVIOUS
<1>1. LiveInv /\ Occurring.kind = "timer"
  BY Begin
<1>2. TimerInv /\ JobsInv /\ EventsInv
  BY <1>1 DEF LiveInv
<1>3. /\ Head(agenda).due \in Nat /\ Head(agenda) \in Range(agenda) /\ Head(agenda).ev = Occurring
      /\ (Head(agenda).due > 0 => \A e \in Upcoming : e.kind \in Delayed)
  BY BeginAgenda
<1>4. CASE Head(agenda).due = 0
  BY <1>1, <1>2, <1>3, <1>4 DEF TimerInv
<1>5. CASE Head(agenda).due > 0
  <2>1. PICK e \in Upcoming : Concerns(e, x)
    BY <1>2 DEF JobsInv, JobOK, Engaged
  <2>2. e.kind = "finish"
    BY <1>3, <1>5, <2>1 DEF Concerns, JobKinds, Delayed
  <2>3. jobs[x].at = StateOf(e)
    BY <1>2, <2>1 DEF EventsInv
  <2>4. QED
    BY <2>2, <2>3 DEF StateOf
<1>6. QED
  BY <1>3, <1>4, <1>5

(* The timer triggers what the operator has collected. No task of it can   *)
(* still be in a job: the deployment that has put it back has ended by     *)
(* then.                                                                   *)
LEMMA TimerTicksKeeps ==
  ASSUME KInv, TimerTicks
  PROVE  KInv' /\ \A t \in Tasks : Moves(t)
<1> DEFINE q == queue["deployment"]
           b == q = <<>>
           fs == IF b THEN <<>> ELSE <<Now(Trigger("deployment"))>>
           gs == <<After(setting.cadence, Timer)>>
<1>1. /\ Happens("timer") /\ phase = "running"
      /\ agenda' = Schedule(Rest, fs \o gs)
      /\ queue' = [queue EXCEPT !["deployment"] = <<>>]
      /\ awaiting' = IF b THEN awaiting ELSE awaiting \ {"deployment"}
      /\ UNCHANGED <<raised, storeVars, resourceVars, phase, arrivals, listening, poolVars>>
  BY DEF TimerTicks
<1>2. /\ Live /\ LiveInv /\ WorkflowTypeOK /\ StoresTypeOK /\ Occurring.kind = "timer"
      /\ phase # "over" /\ setting \in Settings
  BY <1>1, Begin
<1>3. SpotsInv /\ SeqsInv /\ PhaseInv /\ AlarmInv /\ JobsInv
  BY <1>2 DEF LiveInv
<1>4. /\ Upcoming = {Occurring} \cup Evs(Rest) /\ Upcoming \subseteq Events /\ Occurring \in Upcoming
      /\ \A e \in Evs(Rest) : ~Clash(Occurring, e) /\ ~TooLate(setting.cadence, Occurring, e)
  BY <1>1, BeginAgenda
<1>5. /\ setting' = setting /\ jobs' = jobs /\ left' = left /\ phase' = phase
      /\ arrivals' = arrivals /\ items' = items /\ history' = history /\ alarm' = alarm
      /\ listening' = listening
  BY <1>1 DEF resourceVars, storeVars
<1>6. Neutral(Occurring)
  BY <1>2 DEF Neutral, Concerns, JobKinds
<1>7. setting.cadence \in Nat /\ setting.cadence > 0 /\ Windowed(setting.cadence, "deployment")
      /\ "deployment" \in WorkStates
  BY <1>2, <1>3, <1>4, SettingFacts, Strings DEF PhaseInv, Windowed
<1>8. \A e \in Upcoming : ~(e.kind = "trigger" /\ e.stage = "deployment")
  BY <1>2, <1>4, <1>7 DEF TooLate
<1>9. "deployment" \in awaiting
  BY <1>1, <1>3, <1>7, <1>8 DEF PhaseInv
<1>10. q \in Seq(Tasks) /\ IsInjective(q)
  BY <1>2, <1>3, <1>7 DEF WorkflowTypeOK, SeqsInv
<1> DEFINE tr == Trigger("deployment")
<1>11. tr \in Events /\ tr.kind = "trigger" /\ tr.stage = "deployment" /\ tr.batch = q /\ tr.heard = TRUE
  <2>1. tr = [kind |-> "trigger", stage |-> "deployment", batch |-> q, heard |-> TRUE]
    BY <1>9 DEF Trigger
  <2> HIDE DEF q, tr
  <2>2. TRUE \in BOOLEAN
    OBVIOUS
  <2>3. tr \in Events
    BY <1>7, <1>10, <2>1, <2>2, EventTypes
  <2>4. QED
    BY <2>1, <2>3
<1> HIDE DEF tr, b
<1>12. /\ OneOrNone(fs) /\ Evs(fs) = IF b THEN {} ELSE {tr}
       /\ \A a \in Range(fs) : a.ev = tr /\ a.ev \in Evs(fs)
       /\ \A a \in Range(fs) : Fits(setting.cadence, Evs(Rest), a)
  <2>1. OneOrNone(<<>>) /\ Range(<<>>) = {} /\ Evs(<<>>) = {}
    BY OneOrNoneFacts
  <2>2. /\ OneOrNone(<<Now(tr)>>) /\ Range(<<Now(tr)>>) = {Now(tr)} /\ Evs(<<Now(tr)>>) = {tr}
        /\ Now(tr).ev = tr
    BY <1>11, NowFacts
  <2>3. Fits(setting.cadence, Evs(Rest), Now(tr))
    <3>1. ASSUME NEW f \in Evs(Rest)  PROVE ~Clash(f, tr) /\ ~TooLate(setting.cadence, f, tr)
      <4>1. f.kind # "timer"
        BY <1>2, <1>4 DEF Clash
      <4>2. QED
        BY <1>4, <1>7, <1>8, <1>11, <4>1 DEF Clash, TooLate, Concerns, JobKinds, OfWorkflow, OfGenerator
    <3>2. tr.kind # "timer"
      BY <1>11
    <3>3. QED
      BY <1>11, <3>1, <3>2, FitsNow
  <2>4. CASE b
    <3>1. fs = <<>>
      BY <2>4
    <3>2. QED
      BY <2>1, <2>4, <3>1
  <2>5. CASE ~b
    <3>1. fs = <<Now(tr)>>
      BY <2>5 DEF tr
    <3>2. QED
      BY <2>2, <2>3, <2>5, <3>1
  <2>6. QED
    BY <2>4, <2>5
<1>13. Timer \in Events /\ Timer.kind = "timer"
  BY EventTypes DEF Timer
<1>14. /\ OneOrNone(gs) /\ Range(gs) = {After(setting.cadence, Timer)} /\ Evs(gs) = {Timer}
       /\ After(setting.cadence, Timer).ev = Timer /\ After(setting.cadence, Timer).due = setting.cadence
  BY <1>7, <1>13, OneOrNoneFacts
<1>15. \A a \in Range(gs) : Fits(setting.cadence, Evs(Rest) \cup Evs(fs), a)
  <2>1. ASSUME NEW f \in Evs(Rest) \cup Evs(fs)  PROVE ~Clash(f, Timer)
    <3>1. f.kind # "timer"
      <4>1. CASE f \in Evs(Rest)
        BY <1>2, <1>4, <4>1 DEF Clash
      <4>2. CASE f \in Evs(fs)
        BY <1>11, <1>12, <4>2
      <4>3. QED
        BY <4>1, <4>2
    <3>2. QED
      BY <1>13, <3>1 DEF Clash, Concerns, JobKinds, OfWorkflow, OfGenerator
  <2>2. Timer.kind \in Delayed
    BY <1>13 DEF Delayed
  <2>3. Fits(setting.cadence, Evs(Rest) \cup Evs(fs), After(setting.cadence, Timer))
    BY <1>7, <1>13, <2>1, <2>2, FitsAfter
  <2>4. QED
    BY <1>14, <2>3
<1> HIDE DEF fs, gs, q
<1>16. /\ agenda' \in Seq(Dated) /\ Orderly(setting.cadence, agenda)' /\ Sorted'
       /\ \A x, y \in Range(agenda') : Precedes(agenda', x, y) =>
                ~(x.ev.kind = "assigned" /\ x.ev = y.ev)
       /\ Upcoming' = Evs(Rest) \cup Evs(fs) \cup Evs(gs)
       /\ Range(agenda') = Range(Rest) \cup Range(fs) \cup Range(gs)
  BY <1>1, <1>5, <1>12, <1>14, <1>15, AgendaTwo
<1>17. \A e : e \in Upcoming' <=>
          \/ e \in Upcoming /\ e.kind # "timer"
          \/ e = Timer
          \/ ~b /\ e = tr
  <2>1. \A e \in Evs(Rest) : e.kind # "timer"
    BY <1>2, <1>4 DEF Clash
  <2>2. QED
    BY <1>2, <1>4, <1>12, <1>14, <1>16, <2>1
<1>18. \A t \in Tasks : jobs[t].at # "routing"
  BY <1>1, HeadTimer
<1>19. /\ EventsInv' /\ WaitersInv' /\ SignalsInv' /\ ProcessInv' /\ TimerInv' /\ FlowInv'
       /\ JobsInv' /\ PoolInv' /\ TypeInv'
       /\ \A x \in Tasks : Holds(x)' = Holds(x) /\ At(x)' = At(x)
       /\ \A t \in Tasks : Moves(t)
  <2> DEFINE N == Evs(fs) \cup Evs(gs)
             ND == Range(fs) \cup Range(gs)
  <2>1. /\ Upcoming' = Evs(Rest) \cup N /\ Range(agenda') = Range(Rest) \cup ND
        /\ \A e \in N : e \in Events /\ Neutral(e)
        /\ \A a \in ND : a.ev \in N /\ (a.ev.kind = "timer" => a.due > 0)
    <3>1. \A e \in N : e = tr \/ e = Timer
      BY <1>12, <1>14
    <3>2. Neutral(tr) /\ Neutral(Timer)
      BY <1>11, <1>13 DEF Neutral, Concerns, JobKinds
    <3>3. \A a \in Range(fs) : a.ev.kind # "timer"
      BY <1>11, <1>12
    <3>4. \A a \in Range(gs) : a.due > 0 /\ a.ev \in Evs(gs)
      BY <1>7, <1>14
    <3>5. QED
      BY <1>11, <1>12, <1>13, <1>16, <3>1, <3>2, <3>3, <3>4
  <2> HIDE DEF N, ND
  <2>3. \A t \in Tasks : jobs[t].at = "routing" => ~InTrigger(t)'
    BY <1>18
  <2>4. /\ items' \in [Stores -> Seq(Tasks)]
        /\ alarm' \in [limit : Nat, signal : {"off", "armed", "triggered", "processed"}]
        /\ phase' \in {"seeding", "running", "stopped"}
        /\ queue' \in [WorkStates -> Seq(Tasks)]
        /\ listening' \subseteq WorkStates /\ awaiting' \subseteq WorkStates
    <3>1. <<>> \in Seq(Tasks) /\ queue \in [WorkStates -> Seq(Tasks)] /\ awaiting \subseteq WorkStates
      <4>1. queue \in [WorkStates -> Seq(Tasks)] /\ awaiting \subseteq WorkStates
        BY <1>2 DEF WorkflowTypeOK
      <4>2. <<>> \in Seq(Tasks)
        OBVIOUS
      <4>3. QED
        BY <4>1, <4>2
    <3>2. queue' \in [WorkStates -> Seq(Tasks)] /\ awaiting' \subseteq WorkStates
      BY <1>1, <3>1
    <3>3. QED
      BY <1>1, <1>2, <1>5, <3>2 DEF WorkflowTypeOK, StoresTypeOK
  <2>5. UNCHANGED <<raised, history, resourceVars, poolVars>>
    BY <1>1, <1>5
  <2>6. /\ agenda' \in Seq(Dated) /\ Sorted'
        /\ \A x, y \in Range(agenda') : Precedes(agenda', x, y) =>
                ~(x.ev.kind = "assigned" /\ x.ev = y.ev)
    BY <1>16
  <2>7. Happens("timer") /\ arrivals' = arrivals
    BY <1>1
  <2>8. QED
    BY <1>6, <2>1, <2>3, <2>4, <2>5, <2>6, <2>7, QuietKeeps
<1>20. \A s \in WorkStates : queue'[s] = IF s = "deployment" THEN <<>> ELSE queue[s]
  BY <1>1, <1>2 DEF WorkflowTypeOK
<1>21. SpotsInv'
  <2> DEFINE D(k, p, u) == ~b /\ p = "deployment" /\ u \in Range(q)
  <2>1. ASSUME NEW u \in Tasks, NEW k \in Spots, NEW p \in Wheres
        PROVE  In(k, p, u)' <=>
                 \/ In(k, p, u) /\ ~(k = "queue" /\ D(k, p, u))
                 \/ k = "trigger" /\ D(k, p, u)
    <3>1. CASE k = "store"
      BY <1>5, <3>1 DEF In
    <3>2. CASE k = "queue"
      <4>1. b => Range(q) = {}
        BY EmptyFacts DEF b
      <4>2. Range(<<>>) = {}
        BY EmptyFacts
      <4>3. In(k, p, u)' <=> p \in WorkStates /\ u \in Range(queue'[p])
        BY <3>2 DEF In
      <4>4. In(k, p, u) <=> p \in WorkStates /\ u \in Range(queue[p])
        BY <3>2 DEF In
      <4>5. QED
        BY <1>7, <1>20, <3>2, <4>1, <4>2, <4>3, <4>4 DEF q
    <3>3. CASE k = "got"
      <4>1. \A e : e.kind = "got" => (e \in Upcoming' <=> e \in Upcoming)
        BY <1>11, <1>13, <1>17
      <4>2. QED
        BY <3>3, <4>1 DEF In
    <3>4. CASE k = "trigger"
      <4>1. In(k, p, u)' <=> p \in WorkStates
                /\ \E e \in Upcoming' : e.kind = "trigger" /\ e.stage = p /\ u \in Range(e.batch)
        BY <3>4 DEF In
      <4>2. In(k, p, u) <=> p \in WorkStates
                /\ \E e \in Upcoming : e.kind = "trigger" /\ e.stage = p /\ u \in Range(e.batch)
        BY <3>4 DEF In
      <4>3. \A e : e.kind = "trigger" => (e \in Upcoming' <=> e \in Upcoming \/ (~b /\ e = tr))
        BY <1>13, <1>17
      <4>4. QED
        BY <1>7, <1>11, <3>4, <4>1, <4>2, <4>3
    <3>5. CASE k = "job"
      BY <1>19, <3>5 DEF In
    <3>6. QED
      BY <3>1, <3>2, <3>3, <3>4, <3>5 DEF Spots
  <2>2. ASSUME NEW u \in Tasks
        PROVE  \/ /\ history'[u] = history[u]
                  /\ \A k \in Spots, p \in Wheres : In(k, p, u)' <=> In(k, p, u)
                  /\ \A p \in Tasks : u \in Holds(p) => At(p)' = At(p)
               \/ \E k1 \in Spots, p1 \in Wheres :
                     /\ history'[u] = Written(k1, p1)'
                     /\ \A k \in Spots, p \in Wheres : In(k, p, u)' <=> k = k1 /\ p = p1
    <3>1. CASE ~b /\ u \in Range(q)
      <4>1. /\ "queue" \in Spots /\ "trigger" \in Spots /\ "deployment" \in Wheres
            /\ In("queue", "deployment", u)
        BY <1>7, <3>1 DEF Spots, Wheres, In, q
      <4>2. /\ history[u] = Written("queue", "deployment")
            /\ \A k \in Spots, p \in Wheres : In(k, p, u) => k = "queue" /\ p = "deployment"
        BY <1>3, <4>1 DEF SpotsInv
      <4>3. \A k \in Spots, p \in Wheres : In(k, p, u)' <=> k = "trigger" /\ p = "deployment"
        BY <2>1, <3>1, <4>2
      <4>4. history'[u] = Written("trigger", "deployment")'
        BY <1>5, <4>2 DEF Written
      <4>5. QED
        BY <4>1, <4>3, <4>4
    <3>2. CASE ~(~b /\ u \in Range(q))
      BY <1>5, <1>19, <2>1, <3>2
    <3>3. QED
      BY <3>1, <3>2
  <2>3. phase = "stopped" => phase' = "stopped"
    BY <1>5
  <2>4. QED
    BY <1>3, <2>2, <2>3, SpotsMove
<1>22. SeqsInv'
  <2>1. ASSUME NEW e \in Upcoming', e.kind = "trigger"
        PROVE  /\ IsInjective(e.batch) /\ e.batch # <<>>
               /\ ~Windowed(setting'.cadence, e.stage) => Len(e.batch) = 1
    <3>1. CASE e \in Upcoming
      BY <1>3, <1>5, <2>1, <3>1 DEF SeqsInv
    <3>2. CASE e = tr /\ ~b
      BY <1>5, <1>7, <1>10, <1>11, <3>2 DEF b
    <3>3. QED
      BY <1>13, <1>17, <2>1, <3>1, <3>2
  <2>2. IsInjective(<<>>)
    BY EmptyFacts
  <2>3. QED
    BY <1>3, <1>5, <1>20, <2>1, <2>2 DEF SeqsInv
<1>23. AlarmInv'
  BY <1>3, <1>5 DEF AlarmInv
<1>24. PhaseInv'
  <2>1. \A e \in Upcoming' : e \notin Upcoming =>
            /\ ~OfWorkflow(e) /\ e.kind \notin {"over", "arrival"}
            /\ e.kind = "alarm" => alarm'.signal = "triggered"
            /\ e.kind = "timer" => setting.cadence > 0
            /\ e.kind = "trigger" => e.heard
    BY <1>7, <1>11, <1>13, <1>17 DEF OfWorkflow
  <2>2. \A e \in Upcoming' : e.kind = "got" => e.stage \notin listening'
    BY <1>3, <1>5, <1>11, <1>13, <1>17 DEF PhaseInv
  <2>3. \A s \in WorkStates :
            s \in awaiting' <=> ~\E e \in Upcoming' : e.kind = "trigger" /\ e.stage = s
    <3> TAKE s \in WorkStates
    <3>1. s \in awaiting <=> ~\E e \in Upcoming : e.kind = "trigger" /\ e.stage = s
      BY <1>1, <1>3 DEF PhaseInv
    <3>2. \A e : e.kind = "trigger" => (e \in Upcoming' <=> e \in Upcoming \/ (~b /\ e = tr))
      BY <1>13, <1>17
    <3>3. QED
      BY <1>1, <1>11, <3>1, <3>2
  <2>4. phase # "seeding" /\ (phase # "running" => listening' = {} /\ awaiting' = {})
        /\ alarm'.limit = alarm.limit /\ alarm'.signal = alarm.signal
        /\ \A t \in Tasks : history[t] = NoEntry => history'[t] = NoEntry
    BY <1>1, <1>5
  <2>5. QED
    BY <1>3, <1>5, <2>1, <2>2, <2>3, <2>4, PhaseStays
<1>25. QED
  BY <1>16, <1>19, <1>21, <1>22, <1>23, <1>24 DEF KInv, LiveInv

(* The monitor has got a task, triggers or collects, and gets the next.    *)
LEMMA MonitorCollectsKeeps ==
  ASSUME KInv, MonitorCollects
  PROVE  KInv' /\ \A z \in Tasks : Moves(z)
<1> DEFINE s == Occurring.stage
           t == Occurring.task
           st == Source(s)
           c == Append(queue[s], t)
           b == Cadence(s) = 0
           a == items[st] # <<>>
           u == Head(items[st])
           tr == [Trigger(s) EXCEPT !.batch = c]
           g == Got(s, u)
           fs == IF b THEN <<Now(tr)>> ELSE <<>>
           gs == IF a THEN <<Now(g)>> ELSE <<>>
<1>1. /\ Happens("got") /\ phase = "running"
      /\ history' = [history EXCEPT ![t] = Resume(End(@, st), st)]
      /\ queue' = [queue EXCEPT ![s] = IF b THEN <<>> ELSE c]
      /\ awaiting' = IF b THEN awaiting \ {s} ELSE awaiting
      /\ listening' = IF a THEN listening ELSE listening \cup {s}
      /\ items' = IF a THEN [items EXCEPT ![st] = Tail(@)] ELSE items
      /\ agenda' = Schedule(Rest, fs \o gs)
      /\ UNCHANGED <<raised, alarm, resourceVars, phase, arrivals, poolVars>>
  BY DEF MonitorCollects
<1>2. /\ Live /\ LiveInv /\ WorkflowTypeOK /\ StoresTypeOK /\ Occurring.kind = "got"
      /\ phase # "over" /\ setting \in Settings
  BY <1>1, Begin
<1>3. SpotsInv /\ SeqsInv /\ PhaseInv /\ AlarmInv /\ JobsInv /\ EventsInv
  BY <1>2 DEF LiveInv
<1>4. /\ Upcoming = {Occurring} \cup Evs(Rest) /\ Upcoming \subseteq Events /\ Occurring \in Upcoming
      /\ \A e \in Evs(Rest) : ~Clash(Occurring, e) /\ ~TooLate(setting.cadence, Occurring, e)
  BY <1>1, BeginAgenda
<1>5. s \in WorkStates /\ t \in Tasks /\ st \in Open /\ st \in Stores
  BY <1>2, <1>4, EventFields, Strings
<1> HIDE DEF s, t
<1>6. \A e \in Evs(Rest) : ~(e.kind = "got" /\ e.stage = s)
  BY <1>2, <1>4 DEF Clash, s
<1>7. /\ "got" \in Spots /\ s \in Wheres /\ In("got", s, t)
      /\ "queue" \in Spots /\ "trigger" \in Spots /\ "store" \in Spots /\ st \in Wheres
  BY <1>2, <1>4, <1>5 DEF Spots, Wheres, In, s, t
<1>8. history[t] = Entry("start", st) /\ history[t] = Written("got", s)
      /\ \A k \in Spots, p \in Wheres : In(k, p, t) => k = "got" /\ p = s
  BY <1>3, <1>5, <1>7, EntryFacts DEF SpotsInv
<1>9. history' = history
  <2>1. history \in [Tasks -> Entries]
    BY <1>2 DEF StoresTypeOK
  <2>2. Resume(End(history[t], st), st) = history[t]
    BY <1>5, <1>8, EntryFacts
  <2>3. QED
    BY <1>1, <1>5, <2>1, <2>2
<1>10. /\ setting' = setting /\ jobs' = jobs /\ left' = left /\ phase' = phase
       /\ arrivals' = arrivals /\ alarm' = alarm
  BY <1>1 DEF resourceVars
<1>11. Neutral(Occurring)
  BY <1>2 DEF Neutral, Concerns, JobKinds
<1>12. b <=> ~Windowed(setting.cadence, s)
  BY <1>2, SettingFacts DEF Cadence, Windowed
<1>13. queue[s] \in Seq(Tasks) /\ IsInjective(queue[s]) /\ (b => queue[s] = <<>>)
       /\ queue \in [WorkStates -> Seq(Tasks)]
  BY <1>2, <1>3, <1>5, <1>12 DEF WorkflowTypeOK, SeqsInv
<1>14. t \notin Range(queue[s])
  <2>1. ~In("queue", s, t)
    BY <1>7, <1>8
  <2>2. QED
    BY <1>5, <2>1 DEF In
<1>15. /\ c \in Seq(Tasks) /\ Range(c) = Range(queue[s]) \cup {t} /\ IsInjective(c) /\ c # <<>>
       /\ (b => c = <<t>> /\ Len(c) = 1 /\ Range(c) = {t})
  <2>1. /\ c \in Seq(Tasks) /\ Range(c) = Range(queue[s]) \cup {t} /\ IsInjective(c) /\ c # <<>>
    BY <1>5, <1>13, <1>14, AppendFacts
  <2>2. b => c = <<t>>
    <3>1. Append(<<>>, t) = <<t>>
      OBVIOUS
    <3>2. QED
      BY <1>13, <3>1
  <2>3. Len(<<t>>) = 1 /\ Range(<<t>>) = {t}
    BY SingleFacts
  <2>4. QED
    BY <2>1, <2>2, <2>3
<1> HIDE DEF c
<1>16. b => /\ \A e \in Upcoming : ~(e.kind = "trigger" /\ e.stage = s)
            /\ s \in awaiting
  <2>1. b => \A e \in Evs(Rest) : ~(e.kind = "trigger" /\ e.stage = s)
    BY <1>2, <1>4, <1>12 DEF TooLate, s
  <2>2. b => \A e \in Upcoming : ~(e.kind = "trigger" /\ e.stage = s)
    BY <1>2, <1>4, <2>1
  <2>3. QED
    BY <1>1, <1>3, <1>5, <2>2 DEF PhaseInv
<1>17. /\ tr \in Events /\ tr.kind = "trigger" /\ tr.stage = s /\ tr.batch = c
       /\ (b => tr.heard)
  <2> DEFINE h == s \in awaiting
  <2>1. tr = [kind |-> "trigger", stage |-> s, batch |-> c, heard |-> h]
    BY DEF Trigger
  <2>2. h \in BOOLEAN
    OBVIOUS
  <2>3. b => h
    BY <1>16
  <2> HIDE DEF tr, h
  <2>4. tr \in Events
    BY <1>5, <1>15, <2>1, <2>2, EventTypes
  <2>5. QED
    BY <2>1, <2>3, <2>4
<1>18. /\ items[st] \in Seq(Tasks) /\ IsInjective(items[st]) /\ items \in [Stores -> Seq(Tasks)]
  BY <1>2, <1>3, <1>5 DEF StoresTypeOK, SeqsInv
<1>19. a => /\ u \in Tasks /\ Tail(items[st]) \in Seq(Tasks)
            /\ Range(items[st]) = {u} \cup Range(Tail(items[st]))
            /\ IsInjective(Tail(items[st])) /\ u \notin Range(Tail(items[st]))
  BY <1>18, TailFacts
<1>20. a => g \in Events /\ g.kind = "got" /\ g.stage = s /\ g.task = u
  BY <1>5, <1>19, EventTypes DEF Got
<1> HIDE DEF tr, g, u, a, b
<1>21. \A e \in Evs(Rest) : e.kind = "stored" => e.task # t
  BY <1>2, <1>4 DEF TooLate, t
<1>22. /\ OneOrNone(fs) /\ Evs(fs) = IF b THEN {tr} ELSE {}
       /\ \A x \in Range(fs) : x.ev = tr /\ b /\ x.ev \in Evs(fs)
       /\ \A x \in Range(fs) : Fits(setting.cadence, Evs(Rest), x)
  <2>1. OneOrNone(<<>>) /\ Range(<<>>) = {} /\ Evs(<<>>) = {}
    BY OneOrNoneFacts
  <2>2. /\ OneOrNone(<<Now(tr)>>) /\ Range(<<Now(tr)>>) = {Now(tr)} /\ Evs(<<Now(tr)>>) = {tr}
        /\ Now(tr).ev = tr
    BY <1>17, NowFacts
  <2>3. b => Fits(setting.cadence, Evs(Rest), Now(tr))
    <3>1. ASSUME b, NEW f \in Evs(Rest)  PROVE ~Clash(f, tr) /\ ~TooLate(setting.cadence, f, tr)
      <4>1. f \in Upcoming
        BY <1>4, <3>1
      <4>2. ~(f.kind = "got" /\ f.stage = s) /\ ~(f.kind = "trigger" /\ f.stage = s)
        BY <1>6, <1>16, <3>1, <4>1
      <4>3. ~Windowed(setting.cadence, tr.stage)
        BY <1>12, <1>17, <3>1
      <4>4. QED
        BY <1>17, <4>2, <4>3 DEF Clash, TooLate, Concerns, JobKinds, OfWorkflow, OfGenerator
    <3>2. tr.kind # "timer"
      BY <1>17
    <3>3. QED
      BY <1>17, <3>1, <3>2, FitsNow
  <2>4. CASE b
    <3>1. fs = <<Now(tr)>>
      BY <2>4
    <3>2. QED
      BY <2>2, <2>3, <2>4, <3>1
  <2>5. CASE ~b
    <3>1. fs = <<>>
      BY <2>5
    <3>2. QED
      BY <2>1, <2>5, <3>1
  <2>6. QED
    BY <2>4, <2>5
<1>23. /\ OneOrNone(gs) /\ Evs(gs) = IF a THEN {g} ELSE {}
       /\ \A x \in Range(gs) : x.ev = g /\ a /\ x.ev \in Evs(gs)
       /\ \A x \in Range(gs) : Fits(setting.cadence, Evs(Rest) \cup Evs(fs), x)
  <2>1. OneOrNone(<<>>) /\ Range(<<>>) = {} /\ Evs(<<>>) = {}
    BY OneOrNoneFacts
  <2>2. a => /\ OneOrNone(<<Now(g)>>) /\ Range(<<Now(g)>>) = {Now(g)} /\ Evs(<<Now(g)>>) = {g}
             /\ Now(g).ev = g
    BY <1>20, NowFacts
  <2>3. a => Fits(setting.cadence, Evs(Rest) \cup Evs(fs), Now(g))
    <3>1. ASSUME a, NEW f \in Evs(Rest) \cup Evs(fs)
          PROVE  ~Clash(f, g) /\ ~TooLate(setting.cadence, f, g)
      <4>1. ~(f.kind = "got" /\ f.stage = s)
        BY <1>6, <1>17, <1>22, <3>1
      <4>2. QED
        BY <1>20, <3>1, <4>1 DEF Clash, TooLate, Concerns, JobKinds, OfWorkflow, OfGenerator
    <3>2. a => g.kind # "timer"
      BY <1>20
    <3>3. QED
      BY <1>20, <3>1, <3>2, FitsNow
  <2>4. CASE a
    <3>1. gs = <<Now(g)>>
      BY <2>4
    <3>2. QED
      BY <2>2, <2>3, <2>4, <3>1
  <2>5. CASE ~a
    <3>1. gs = <<>>
      BY <2>5
    <3>2. QED
      BY <2>1, <2>5, <3>1
  <2>6. QED
    BY <2>4, <2>5
<1> HIDE DEF fs, gs
<1>24. /\ agenda' \in Seq(Dated) /\ Orderly(setting.cadence, agenda)' /\ Sorted'
       /\ \A x, y \in Range(agenda') : Precedes(agenda', x, y) =>
                ~(x.ev.kind = "assigned" /\ x.ev = y.ev)
       /\ Upcoming' = Evs(Rest) \cup Evs(fs) \cup Evs(gs)
       /\ Range(agenda') = Range(Rest) \cup Range(fs) \cup Range(gs)
  BY <1>1, <1>10, <1>22, <1>23, AgendaTwo
<1>25. Occurring \notin Evs(Rest) /\ Occurring.stage = s /\ Occurring.task = t
  BY <1>2, <1>6 DEF s, t
<1>26. \A e : e \in Upcoming' <=>
          \/ e \in Evs(Rest)
          \/ b /\ e = tr
          \/ a /\ e = g
  BY <1>22, <1>23, <1>24
<1>27. \A e : e.kind \notin {"got", "trigger"} => (e \in Upcoming' <=> e \in Upcoming)
  BY <1>2, <1>4, <1>17, <1>20, <1>26
<1>28. \A e : e.kind = "trigger" => (e \in Upcoming' <=> e \in Upcoming \/ (b /\ e = tr))
  BY <1>2, <1>4, <1>20, <1>26
<1>29. b => jobs[t].at # "routing"
  <2> SUFFICES ASSUME b, jobs[t].at = "routing"  PROVE FALSE
    OBVIOUS
  <2>1. PICK e \in Upcoming : Concerns(e, t)
    BY <1>3, <1>5 DEF JobsInv, JobOK, Engaged
  <2>2. StateOf(e) = "routing"
    BY <1>3, <1>5, <2>1 DEF EventsInv
  <2>3. e.kind = "stored" /\ e.by = t
    BY <2>1, <2>2 DEF Concerns, StateOf, JobKinds
  <2>4. e \in Evs(Rest)
    BY <1>2, <1>4, <2>1, <2>3
  <2>5. e.task # t
    BY <1>21, <2>3, <2>4
  <2>6. Windowed(setting.cadence, jobs[t].stage)
    BY <1>3, <1>5, <2>1, <2>3, <2>5 DEF EventsInv
  <2>7. jobs[t].stage = "deployment"
    BY <2>6 DEF Windowed
  <2>8. history[t].state \in {"qa_complete", "delivery"}
    BY <1>3, <1>5, <2>7 DEF JobsInv, JobOK
  <2>9. st \in {"qa_complete", "delivery"}
    BY <1>8, <2>8, EntryFacts
  <2>10. st = "qa_complete"
    BY <1>5, <2>9 DEF Open
  <2>11. s = "deployment"
    BY <1>5, <2>10, Strings
  <2>12. QED
    BY <1>12, <2>6, <2>7, <2>11
<1>30. \A z \in Tasks : jobs[z].at = "routing" => ~InTrigger(z)'
  <2> SUFFICES ASSUME NEW z \in Tasks, jobs[z].at = "routing", InTrigger(z)'  PROVE FALSE
    OBVIOUS
  <2>1. ~InTrigger(z)
    BY <1>3 DEF JobsInv, JobOK
  <2>2. PICK p \in WorkStates, e \in Upcoming' : e.kind = "trigger" /\ e.stage = p /\ z \in Range(e.batch)
    BY DEF InTrigger, In
  <2>3. e \notin Upcoming
    BY <2>1, <2>2 DEF InTrigger, In
  <2>4. b /\ e = tr
    BY <1>28, <2>2, <2>3
  <2>5. z = t
    BY <1>15, <1>17, <2>2, <2>4
  <2>6. QED
    BY <1>29, <2>4, <2>5
<1>31. /\ items' \in [Stores -> Seq(Tasks)]
       /\ \A p \in Stores : p # st => items'[p] = items[p]
       /\ a => items'[st] = Tail(items[st])
       /\ ~a => items' = items
  <2>1. CASE a
    BY <1>1, <1>5, <1>18, <1>19, <2>1
  <2>2. CASE ~a
    BY <1>1, <1>18, <2>2
  <2>3. QED
    BY <2>1, <2>2
<1>32. /\ queue' \in [WorkStates -> Seq(Tasks)]
       /\ \A p \in WorkStates : p # s => queue'[p] = queue[p]
       /\ queue'[s] = IF b THEN <<>> ELSE c
  <2>1. <<>> \in Seq(Tasks)
    OBVIOUS
  <2>2. QED
    BY <1>1, <1>5, <1>13, <1>15, <2>1
<1>33. /\ EventsInv' /\ WaitersInv' /\ SignalsInv' /\ ProcessInv' /\ TimerInv' /\ FlowInv'
       /\ JobsInv' /\ PoolInv' /\ TypeInv'
       /\ \A x \in Tasks : Holds(x)' = Holds(x) /\ At(x)' = At(x)
       /\ \A z \in Tasks : Moves(z)
  <2> DEFINE N == Evs(fs) \cup Evs(gs)
             ND == Range(fs) \cup Range(gs)
  <2>1. /\ Upcoming' = Evs(Rest) \cup N /\ Range(agenda') = Range(Rest) \cup ND
        /\ \A e \in N : e \in Events /\ Neutral(e)
        /\ \A x \in ND : x.ev \in N /\ (x.ev.kind = "timer" => x.due > 0)
    <3>1. \A e \in N : (b /\ e = tr) \/ (a /\ e = g)
      BY <1>22, <1>23
    <3>2. Neutral(tr) /\ (a => Neutral(g))
      BY <1>17, <1>20 DEF Neutral, Concerns, JobKinds
    <3>3. \A e \in N : e \in Events /\ Neutral(e) /\ e.kind # "timer"
      BY <1>17, <1>20, <3>1, <3>2
    <3>4. \A x \in ND : x.ev \in N
      BY <1>22, <1>23
    <3>5. QED
      BY <1>24, <3>3, <3>4
  <2> HIDE DEF N, ND
  <2>4. /\ alarm' \in [limit : Nat, signal : {"off", "armed", "triggered", "processed"}]
        /\ phase' \in {"seeding", "running", "stopped"}
        /\ listening' \subseteq WorkStates /\ awaiting' \subseteq WorkStates
    BY <1>1, <1>2, <1>5, <1>10 DEF WorkflowTypeOK, StoresTypeOK
  <2>5. UNCHANGED <<raised, history, resourceVars, poolVars>>
    BY <1>1, <1>9
  <2>6. /\ agenda' \in Seq(Dated) /\ Sorted'
        /\ \A x, y \in Range(agenda') : Precedes(agenda', x, y) =>
                ~(x.ev.kind = "assigned" /\ x.ev = y.ev)
    BY <1>24
  <2>7. Happens("got") /\ arrivals' = arrivals
    BY <1>1
  <2>8. items' \in [Stores -> Seq(Tasks)] /\ queue' \in [WorkStates -> Seq(Tasks)]
    BY <1>31, <1>32
  <2>9. QED
    BY <1>11, <1>30, <2>1, <2>4, <2>5, <2>6, <2>7, <2>8, QuietKeeps
<1>34. SpotsInv'
  <2> DEFINE old(k, p, z) == k = "got" /\ p = s /\ z = t
             new(k, p, z) == z = t /\ p = s /\ k = IF b THEN "trigger" ELSE "queue"
             gone(k, p, z) == a /\ k = "store" /\ p = st /\ z = u
             come(k, p, z) == a /\ k = "got" /\ p = s /\ z = u
  <2>1. ASSUME NEW z \in Tasks, NEW k \in Spots, NEW p \in Wheres
        PROVE  In(k, p, z)' <=> \/ In(k, p, z) /\ ~old(k, p, z) /\ ~gone(k, p, z)
                                \/ new(k, p, z)
                                \/ come(k, p, z)
    <3>1. CASE k = "store"
      <4>1. In(k, p, z)' <=> p \in Stores /\ z \in Range(items'[p])
        BY <3>1 DEF In
      <4>2. In(k, p, z) <=> p \in Stores /\ z \in Range(items[p])
        BY <3>1 DEF In
      <4>3. QED
        BY <1>5, <1>19, <1>31, <3>1, <4>1, <4>2
    <3>2. CASE k = "queue"
      <4>1. Range(<<>>) = {}
        BY EmptyFacts
      <4>3. In(k, p, z)' <=> p \in WorkStates /\ z \in Range(queue'[p])
        BY <3>2 DEF In
      <4>4. In(k, p, z) <=> p \in WorkStates /\ z \in Range(queue[p])
        BY <3>2 DEF In
      <4>5. CASE p = s
        BY <1>5, <1>13, <1>15, <1>32, <3>2, <4>1, <4>3, <4>4, <4>5
      <4>6. CASE p # s
        BY <1>32, <3>2, <4>3, <4>4, <4>6
      <4>7. QED
        BY <4>5, <4>6
    <3>3. CASE k = "got"
      <4>1. In(k, p, z)' <=> p \in WorkStates /\ \E e \in Upcoming' : e.kind = "got" /\ e.stage = p /\ e.task = z
        BY <3>3 DEF In
      <4>2. In(k, p, z) <=> p \in WorkStates /\ \E e \in Upcoming : e.kind = "got" /\ e.stage = p /\ e.task = z
        BY <3>3 DEF In
      <4>3. \A e : e.kind = "got" => (e \in Upcoming' <=> e \in Evs(Rest) \/ (a /\ e = g))
        BY <1>17, <1>26
      <4>4. \A e : e \in Upcoming <=> e \in Evs(Rest) \/ e = Occurring
        BY <1>4
      <4>5. QED
        BY <1>2, <1>5, <1>6, <1>20, <1>25, <3>3, <4>1, <4>2, <4>3, <4>4
    <3>4. CASE k = "trigger"
      <4>1. In(k, p, z)' <=> p \in WorkStates
                /\ \E e \in Upcoming' : e.kind = "trigger" /\ e.stage = p /\ z \in Range(e.batch)
        BY <3>4 DEF In
      <4>2. In(k, p, z) <=> p \in WorkStates
                /\ \E e \in Upcoming : e.kind = "trigger" /\ e.stage = p /\ z \in Range(e.batch)
        BY <3>4 DEF In
      <4>3. QED
        BY <1>5, <1>15, <1>17, <1>28, <3>4, <4>1, <4>2
    <3>5. CASE k = "job"
      BY <1>33, <3>5 DEF In
    <3>6. QED
      BY <3>1, <3>2, <3>3, <3>4, <3>5 DEF Spots
  <2>2. ASSUME NEW z \in Tasks
        PROVE  \/ /\ history'[z] = history[z]
                  /\ \A k \in Spots, p \in Wheres : In(k, p, z)' <=> In(k, p, z)
                  /\ \A p \in Tasks : z \in Holds(p) => At(p)' = At(p)
               \/ \E k1 \in Spots, p1 \in Wheres :
                     /\ history'[z] = Written(k1, p1)'
                     /\ \A k \in Spots, p \in Wheres : In(k, p, z)' <=> k = k1 /\ p = p1
    <3>0. a => u # t /\ In("store", st, u)
      <4>1. a => In("store", st, u)
        BY <1>5, <1>19 DEF In
      <4>2. QED
        BY <1>7, <1>8, <4>1
    <3>1. CASE z = t
      <4>1. PICK k1 \in {"trigger", "queue"} : k1 = IF b THEN "trigger" ELSE "queue"
        OBVIOUS
      <4>2. \A k \in Spots, p \in Wheres : In(k, p, z)' <=> k = k1 /\ p = s
        BY <1>8, <2>1, <3>0, <3>1, <4>1
      <4>3. PICK p1 \in WorkStates : p1 = s
        BY <1>5
      <4>4. history'[z] = Written(k1, p1)'
        <5>1. Written("trigger", p1)' = Entry("start", Source(p1)) /\ Written("queue", p1)' = Entry("start", Source(p1))
          BY DEF Written
        <5>2. history'[z] = Entry("start", Source(p1))
          BY <1>8, <1>9, <3>1, <4>3
        <5>3. QED
          BY <5>1, <5>2
      <4>5. k1 \in Spots /\ p1 \in Wheres /\ \A k \in Spots, p \in Wheres : In(k, p, z)' <=> k = k1 /\ p = p1
        BY <1>7, <4>1, <4>2, <4>3
      <4>6. QED
        BY <4>4, <4>5
    <3>2. CASE a /\ z = u /\ z # t
      <4>1. /\ history[z] = Written("store", st)
            /\ \A k \in Spots, p \in Wheres : In(k, p, z) => k = "store" /\ p = st
        BY <1>3, <1>7, <3>0, <3>2 DEF SpotsInv
      <4>2. \A k \in Spots, p \in Wheres : In(k, p, z)' <=> k = "got" /\ p = s
        BY <2>1, <3>2, <4>1
      <4>3. PICK p1 \in WorkStates : p1 = s
        BY <1>5
      <4>4. history'[z] = Written("got", p1)'
        <5>1. Written("got", p1)' = Entry("start", Source(p1))
          BY DEF Written
        <5>2. history'[z] = Entry("start", Source(p1))
          BY <1>5, <1>9, <4>1, <4>3, EntryFacts
        <5>3. QED
          BY <5>1, <5>2
      <4> DEFINE k1 == "got"
      <4>5. k1 \in Spots /\ p1 \in Wheres /\ history'[z] = Written(k1, p1)'
            /\ \A k \in Spots, p \in Wheres : In(k, p, z)' <=> k = k1 /\ p = p1
        BY <1>7, <4>2, <4>3, <4>4
      <4> HIDE DEF k1
      <4>6. QED
        BY <4>5
    <3>3. CASE z # t /\ ~(a /\ z = u)
      BY <1>9, <1>33, <2>1, <3>3
    <3>4. QED
      BY <3>1, <3>2, <3>3
  <2>3. phase = "stopped" => phase' = "stopped"
    BY <1>10
  <2>4. QED
    BY <1>3, <2>2, <2>3, SpotsMove
<1>35. SeqsInv'
  <2>1. ASSUME NEW e \in Upcoming', e.kind = "trigger"
        PROVE  /\ IsInjective(e.batch) /\ e.batch # <<>>
               /\ ~Windowed(setting'.cadence, e.stage) => Len(e.batch) = 1
    <3>1. CASE e \in Upcoming
      BY <1>3, <1>10, <2>1, <3>1 DEF SeqsInv
    <3>2. CASE b /\ e = tr
      BY <1>15, <1>17, <3>2
    <3>3. QED
      BY <1>28, <2>1, <3>1, <3>2
  <2>2. \A p \in Stores : IsInjective(items'[p])
    BY <1>3, <1>18, <1>19, <1>31 DEF SeqsInv
  <2>3. ASSUME NEW p \in WorkStates
        PROVE  IsInjective(queue'[p]) /\ (~Windowed(setting'.cadence, p) => queue'[p] = <<>>)
    <3>1. CASE p = s
      BY <1>10, <1>12, <1>15, <1>32, <3>1, EmptyFacts
    <3>2. CASE p # s
      BY <1>3, <1>10, <1>32, <3>2 DEF SeqsInv
    <3>3. QED
      BY <3>1, <3>2
  <2>4. QED
    BY <2>1, <2>2, <2>3 DEF SeqsInv
<1>36. AlarmInv'
  <2>1. items'["delivery"] = items["delivery"]
    BY <1>5, <1>31 DEF Open, Stores, Terminal
  <2>2. QED
    BY <1>3, <1>9, <1>10, <2>1 DEF AlarmInv
<1>37. PhaseInv'
  <2>1. \A e \in Upcoming' : e \notin Upcoming =>
            /\ ~OfWorkflow(e) /\ e.kind \notin {"over", "arrival"}
            /\ e.kind = "alarm" => alarm'.signal = "triggered"
            /\ e.kind = "timer" => setting.cadence > 0
            /\ e.kind = "trigger" => e.heard
    <3>1. ASSUME NEW e \in Upcoming', e \notin Upcoming
          PROVE  (b /\ e = tr) \/ (a /\ e = g)
      BY <1>4, <1>26, <3>1
    <3>2. QED
      BY <1>17, <1>20, <3>1 DEF OfWorkflow
  <2>2. \A e \in Upcoming' : e.kind = "got" => e.stage \notin listening'
    <3>1. s \notin listening
      BY <1>2, <1>3, <1>4, <1>25 DEF PhaseInv
    <3>2. ASSUME NEW e \in Upcoming', e.kind = "got"  PROVE e.stage \notin listening'
      <4>1. CASE e \in Evs(Rest)
        <5>1. e.stage \notin listening /\ e.stage # s
          BY <1>3, <1>4, <1>6, <3>2, <4>1 DEF PhaseInv
        <5>2. QED
          BY <1>1, <5>1
      <4>2. CASE a /\ e = g
        BY <1>1, <1>20, <3>1, <4>2
      <4>3. QED
        BY <1>17, <1>26, <3>2, <4>1, <4>2
    <3>3. QED
      BY <3>2
  <2>3. \A p \in WorkStates :
            p \in awaiting' <=> ~\E e \in Upcoming' : e.kind = "trigger" /\ e.stage = p
    <3> TAKE p \in WorkStates
    <3>1. p \in awaiting <=> ~\E e \in Upcoming : e.kind = "trigger" /\ e.stage = p
      BY <1>1, <1>3 DEF PhaseInv
    <3>2. QED
      BY <1>1, <1>17, <1>28, <3>1
  <2>4. phase # "seeding" /\ (phase # "running" => listening' = {} /\ awaiting' = {})
        /\ alarm'.limit = alarm.limit /\ alarm'.signal = alarm.signal
        /\ \A z \in Tasks : history[z] = NoEntry => history'[z] = NoEntry
    BY <1>1, <1>9, <1>10
  <2>5. QED
    BY <1>3, <1>10, <2>1, <2>2, <2>3, <2>4, PhaseStays
<1>38. QED
  BY <1>24, <1>33, <1>34, <1>35, <1>36, <1>37 DEF KInv, LiveInv

(* The last task of the backlog is put: the operators start.               *)
LEMMA StartOperatorsKeeps ==
  ASSUME KInv, StartOperators
  PROVE  KInv' /\ \A z \in Tasks : Moves(z)
<1> DEFINE q == items["pending"]
           u == Head(q)
           g == Got("development", u)
           c == setting.cadence > 0
           fs == <<Now(g)>>
           gs == IF c THEN <<After(setting.cadence, Timer)>> ELSE <<>>
<1>1. /\ Happens("stored") /\ Occurring.by = "workflow"
      /\ Len(q) = Len(Backlog)
      /\ alarm' = [limit |-> Len(q), signal |-> "armed"]
      /\ phase' = "running" /\ listening' = WorkStates \ {"development"} /\ awaiting' = WorkStates
      /\ items' = [items EXCEPT !["pending"] = Tail(@)]
      /\ agenda' = Schedule(Rest, fs \o gs)
      /\ UNCHANGED <<raised, history, resourceVars, arrivals, queue, poolVars>>
  BY DEF StartOperators, SetAlarm
<1>2. /\ Live /\ LiveInv /\ WorkflowTypeOK /\ StoresTypeOK /\ Occurring.kind = "stored"
      /\ phase # "over" /\ setting \in Settings
  BY <1>1, Begin
<1>3. SpotsInv /\ SeqsInv /\ PhaseInv /\ AlarmInv /\ JobsInv
  BY <1>2 DEF LiveInv
<1>4. /\ Upcoming = {Occurring} \cup Evs(Rest) /\ Upcoming \subseteq Events /\ Occurring \in Upcoming
      /\ \A e \in Evs(Rest) : ~Clash(Occurring, e)
  BY <1>1, BeginAgenda
<1>5. /\ setting' = setting /\ jobs' = jobs /\ left' = left
      /\ arrivals' = arrivals /\ history' = history /\ queue' = queue
  BY <1>1 DEF resourceVars
<1>6. OfWorkflow(Occurring) /\ Neutral(Occurring)
  BY <1>1, <1>2, TaskFacts DEF OfWorkflow, Neutral, Concerns, JobKinds
<1>7. phase = "seeding" /\ Seeding
  BY <1>3, <1>4, <1>6 DEF PhaseInv
<1>8. \A e \in Evs(Rest) : e.kind = "arrival"
  <2>1. ASSUME NEW e \in Evs(Rest)  PROVE e.kind = "arrival"
    <3>1. ~OfWorkflow(e) /\ e \in Upcoming
      BY <1>4, <1>6, <2>1 DEF Clash
    <3>2. PICK x \in Range(agenda) : x.ev = e
      BY <3>1, EvsRange DEF Upcoming
    <3>3. QED
      BY <1>7, <3>1, <3>2 DEF Seeding
  <2>2. QED
    BY <2>1
<1>9. \A e \in Upcoming : e.kind \in {"stored", "arrival"}
  BY <1>2, <1>4, <1>8
<1>10. /\ q \in Seq(Tasks) /\ q # <<>> /\ IsInjective(q) /\ "pending" \in Stores
       /\ items \in [Stores -> Seq(Tasks)]
  <2>1. "pending" \in Stores
    BY Strings
  <2>2. items \in [Stores -> Seq(Tasks)] /\ q \in Seq(Tasks) /\ IsInjective(q)
    BY <1>2, <1>3, <2>1 DEF StoresTypeOK, SeqsInv
  <2>3. Len(q) > 0
    BY <1>1, BacklogFacts
  <2> HIDE DEF q
  <2>4. q # <<>>
    BY <2>3, EmptyFacts
  <2>5. QED
    BY <2>1, <2>2, <2>4
<1>11. /\ u \in Tasks /\ Tail(q) \in Seq(Tasks)
       /\ Range(q) = {u} \cup Range(Tail(q))
       /\ IsInjective(Tail(q)) /\ u \notin Range(Tail(q))
  BY <1>10, TailFacts
<1>12. "development" \in WorkStates /\ "deployment" \in WorkStates
  BY Strings
<1>13. g \in Events /\ g.kind = "got" /\ g.stage = "development" /\ g.task = u
  BY <1>11, <1>12, EventTypes DEF Got
<1> HIDE DEF g, u, q, c
<1>14. OneOrNone(fs) /\ Range(fs) = {Now(g)} /\ Evs(fs) = {g} /\ Now(g).ev = g
  BY <1>13, NowFacts
<1>15. \A x \in Range(fs) : Fits(setting.cadence, Evs(Rest), x)
  <2>1. \A f \in Evs(Rest) : ~Clash(f, g) /\ ~TooLate(setting.cadence, f, g)
    BY <1>8, <1>13 DEF Clash, TooLate, Concerns, JobKinds, OfWorkflow, OfGenerator
  <2>2. g.kind # "timer"
    BY <1>13
  <2>3. Fits(setting.cadence, Evs(Rest), Now(g))
    BY <1>13, <2>1, <2>2, FitsNow
  <2>4. QED
    BY <1>14, <2>3
<1>16. Timer \in Events /\ Timer.kind = "timer" /\ setting.cadence \in Nat
  BY <1>2, EventTypes, SettingFacts DEF Timer
<1>17. /\ OneOrNone(gs) /\ Evs(gs) = IF c THEN {Timer} ELSE {}
       /\ \A x \in Range(gs) : x.ev = Timer /\ c /\ x.ev \in Evs(gs) /\ x.due > 0
       /\ \A x \in Range(gs) : Fits(setting.cadence, Evs(Rest) \cup Evs(fs), x)
  <2> DEFINE e == After(setting.cadence, Timer)
  <2>1. OneOrNone(<<>>) /\ Range(<<>>) = {} /\ Evs(<<>>) = {}
    BY OneOrNoneFacts
  <2>2. OneOrNone(<<e>>) /\ Range(<<e>>) = {e} /\ Evs(<<e>>) = {Timer} /\ e.ev = Timer
        /\ e.due = setting.cadence
    BY <1>16, OneOrNoneFacts
  <2>3. c => Fits(setting.cadence, Evs(Rest) \cup Evs(fs), e)
    <3>1. \A f \in Evs(Rest) \cup Evs(fs) : ~Clash(f, Timer)
      BY <1>8, <1>13, <1>14, <1>16 DEF Clash, Concerns, JobKinds, OfWorkflow, OfGenerator
    <3>2. Timer.kind \in Delayed
      BY <1>16 DEF Delayed
    <3>3. c => setting.cadence > 0
      BY DEF c
    <3>4. QED
      BY <1>16, <3>1, <3>2, <3>3, FitsAfter
  <2> HIDE DEF e
  <2>4. CASE c
    <3>1. gs = <<e>> /\ e.due > 0
      BY <2>2, <2>4 DEF c, e
    <3>2. QED
      BY <2>2, <2>3, <2>4, <3>1
  <2>5. CASE ~c
    <3>1. gs = <<>>
      BY <2>5
    <3>2. QED
      BY <2>1, <2>5, <3>1
  <2>6. QED
    BY <2>4, <2>5
<1> HIDE DEF fs, gs
<1>18. /\ agenda' \in Seq(Dated) /\ Orderly(setting.cadence, agenda)' /\ Sorted'
       /\ \A x, y \in Range(agenda') : Precedes(agenda', x, y) =>
                ~(x.ev.kind = "assigned" /\ x.ev = y.ev)
       /\ Upcoming' = Evs(Rest) \cup Evs(fs) \cup Evs(gs)
       /\ Range(agenda') = Range(Rest) \cup Range(fs) \cup Range(gs)
  BY <1>1, <1>5, <1>14, <1>15, <1>17, AgendaTwo
<1>19. \A e \in Upcoming' : \/ e \in Upcoming /\ e.kind = "arrival"
                            \/ e = g
                            \/ c /\ e = Timer
  BY <1>4, <1>8, <1>14, <1>17, <1>18
<1>20. g \in Upcoming'
  BY <1>14, <1>18
<1>21. \A e \in Upcoming' : e.kind # "trigger"
  BY <1>13, <1>16, <1>19
<1>22. items' \in [Stores -> Seq(Tasks)] /\ items'["pending"] = Tail(q)
       /\ \A p \in Stores : p # "pending" => items'[p] = items[p]
  BY <1>1, <1>10, <1>11 DEF q
<1>23. /\ EventsInv' /\ WaitersInv' /\ SignalsInv' /\ ProcessInv' /\ TimerInv' /\ FlowInv'
       /\ JobsInv' /\ PoolInv' /\ TypeInv'
       /\ \A x \in Tasks : Holds(x)' = Holds(x) /\ At(x)' = At(x)
       /\ \A z \in Tasks : Moves(z)
  <2> DEFINE N == Evs(fs) \cup Evs(gs)
             ND == Range(fs) \cup Range(gs)
  <2>1. /\ Upcoming' = Evs(Rest) \cup N /\ Range(agenda') = Range(Rest) \cup ND
        /\ \A e \in N : e \in Events /\ Neutral(e)
        /\ \A x \in ND : x.ev \in N /\ (x.ev.kind = "timer" => x.due > 0)
    <3>1. \A e \in N : e = g \/ e = Timer
      BY <1>14, <1>17
    <3>2. Neutral(g) /\ Neutral(Timer)
      BY <1>13, <1>16 DEF Neutral, Concerns, JobKinds
    <3>3. \A e \in N : e \in Events /\ Neutral(e)
      BY <1>13, <1>16, <3>1, <3>2
    <3>4. \A x \in ND : x.ev \in N /\ (x.ev.kind = "timer" => x.due > 0)
      BY <1>13, <1>14, <1>17
    <3>5. QED
      BY <1>18, <3>3, <3>4
  <2> HIDE DEF N, ND
  <2>3. \A t \in Tasks : jobs[t].at = "routing" => ~InTrigger(t)'
    BY <1>21 DEF InTrigger, In
  <2>4. /\ alarm' \in [limit : Nat, signal : {"off", "armed", "triggered", "processed"}]
        /\ phase' \in {"seeding", "running", "stopped"}
        /\ queue' \in [WorkStates -> Seq(Tasks)]
        /\ listening' \subseteq WorkStates /\ awaiting' \subseteq WorkStates
    <3>1. queue \in [WorkStates -> Seq(Tasks)]
      BY <1>2 DEF WorkflowTypeOK
    <3>2. Len(q) \in Nat
      BY <1>1, BacklogFacts DEF q
    <3>3. QED
      BY <1>1, <1>5, <3>1, <3>2 DEF q
  <2>5. UNCHANGED <<raised, history, resourceVars, poolVars>>
    BY <1>1
  <2>6. /\ agenda' \in Seq(Dated) /\ Sorted'
        /\ \A x, y \in Range(agenda') : Precedes(agenda', x, y) =>
                ~(x.ev.kind = "assigned" /\ x.ev = y.ev)
    BY <1>18
  <2>7. Happens("stored") /\ arrivals' = arrivals
    BY <1>1
  <2>8. items' \in [Stores -> Seq(Tasks)]
    BY <1>22
  <2>9. QED
    BY <1>6, <2>1, <2>3, <2>4, <2>5, <2>6, <2>7, <2>8, QuietKeeps
<1>24. SpotsInv'
  <2>1. ASSUME NEW z \in Tasks, NEW k \in Spots, NEW p \in Wheres
        PROVE  In(k, p, z)' <=> \/ In(k, p, z) /\ ~(k = "store" /\ p = "pending" /\ z = u)
                                \/ k = "got" /\ p = "development" /\ z = u
    <3>1. CASE k = "store"
      <4>1. In(k, p, z)' <=> p \in Stores /\ z \in Range(items'[p])
        BY <3>1 DEF In
      <4>2. In(k, p, z) <=> p \in Stores /\ z \in Range(items[p])
        BY <3>1 DEF In
      <4>3. QED
        BY <1>10, <1>11, <1>22, <3>1, <4>1, <4>2 DEF q
    <3>2. CASE k = "queue"
      BY <1>5, <3>2 DEF In
    <3>3. CASE k = "got"
      <4>1. In(k, p, z)' <=> p \in WorkStates /\ \E e \in Upcoming' : e.kind = "got" /\ e.stage = p /\ e.task = z
        BY <3>3 DEF In
      <4>2. ~In(k, p, z)
        BY <1>9, <3>3 DEF In
      <4>3. \A e : e.kind = "got" => (e \in Upcoming' <=> e = g)
        BY <1>16, <1>19, <1>20
      <4>4. QED
        BY <1>12, <1>13, <3>3, <4>1, <4>2, <4>3
    <3>4. CASE k = "trigger"
      BY <1>9, <1>21, <3>4 DEF In
    <3>5. CASE k = "job"
      BY <1>23, <3>5 DEF In
    <3>6. QED
      BY <3>1, <3>2, <3>3, <3>4, <3>5 DEF Spots
  <2>2. ASSUME NEW z \in Tasks
        PROVE  \/ /\ history'[z] = history[z]
                  /\ \A k \in Spots, p \in Wheres : In(k, p, z)' <=> In(k, p, z)
                  /\ \A p \in Tasks : z \in Holds(p) => At(p)' = At(p)
               \/ \E k1 \in Spots, p1 \in Wheres :
                     /\ history'[z] = Written(k1, p1)'
                     /\ \A k \in Spots, p \in Wheres : In(k, p, z)' <=> k = k1 /\ p = p1
    <3>1. CASE z = u
      <4>0. /\ "store" \in Spots /\ "got" \in Spots /\ "pending" \in Wheres /\ "development" \in Wheres
            /\ In("store", "pending", u)
        BY <1>10, <1>11, <1>12 DEF Spots, Wheres, In, q
      <4>1. /\ history[z] = Written("store", "pending")
            /\ \A k \in Spots, p \in Wheres : In(k, p, z) => k = "store" /\ p = "pending"
        BY <1>3, <3>1, <4>0 DEF SpotsInv
      <4>2. \A k \in Spots, p \in Wheres : In(k, p, z)' <=> k = "got" /\ p = "development"
        BY <2>1, <3>1, <4>1
      <4>3. history'[z] = Written("got", "development")'
        BY <1>5, <4>1, Strings DEF Written, Terminal
      <4>4. QED
        BY <4>0, <4>2, <4>3
    <3>2. CASE z # u
      BY <1>5, <1>23, <2>1, <3>2
    <3>3. QED
      BY <3>1, <3>2
  <2>3. phase = "stopped" => phase' = "stopped"
    BY <1>7
  <2>4. QED
    BY <1>3, <2>2, <2>3, SpotsMove
<1>25. SeqsInv'
  <2>1. \A p \in Stores : IsInjective(items'[p])
    BY <1>3, <1>11, <1>22 DEF SeqsInv
  <2>2. QED
    BY <1>3, <1>5, <1>21, <2>1 DEF SeqsInv
<1>26. AlarmInv'
  <2>1. items'["delivery"] = <<>>
    BY <1>3, <1>7, <1>22, Strings DEF AlarmInv, Seeding
  <2>2. Len(<<>>) < Len(q)
    BY <1>1, BacklogFacts DEF q
  <2>3. QED
    BY <1>1, <1>3, <1>5, <2>1, <2>2 DEF AlarmInv, q
<1>27. PhaseInv'
  <2>1. alarm'.signal = "armed" /\ alarm'.limit = Len(Backlog)
    BY <1>1 DEF q
  <2>2. ASSUME NEW e \in Upcoming'
        PROVE  /\ ~OfWorkflow(e)
               /\ e.kind \notin {"alarm", "over", "trigger"}
               /\ e.kind = "timer" => setting'.cadence > 0
               /\ e.kind = "arrival" => arrivals' < Len(Requests)
               /\ e.kind = "got" => e.stage \notin listening'
    <3>1. CASE e \in Upcoming /\ e.kind = "arrival"
      BY <1>3, <1>5, <3>1 DEF PhaseInv, OfWorkflow
    <3>2. CASE e = g
      BY <1>1, <1>13, <3>2 DEF OfWorkflow
    <3>3. CASE c /\ e = Timer
      BY <1>5, <1>16, <3>3 DEF OfWorkflow, c
    <3>4. QED
      BY <1>19, <3>1, <3>2, <3>3
  <2>3. \A i \in 1..Len(Requests) : i > arrivals' => history'[Requests[i]] = NoEntry
    BY <1>3, <1>5 DEF PhaseInv
  <2>4. QED
    BY <1>1, <1>21, <2>1, <2>2, <2>3 DEF PhaseInv
<1>28. QED
  BY <1>18, <1>23, <1>24, <1>25, <1>26, <1>27 DEF KInv, LiveInv

-----------------------------------------------------------------------------
(* Jobs and the events about them.                                         *)

(* Jobs and processes, as the type invariant has them.                     *)
JobRecords ==
    [stage : WorkStates, batch : Seq(Tasks), resource : Workers \cup {None},
     pooled : BOOLEAN, todo : Seq(Tasks), failed : BOOLEAN,
     at : {"waiting", "working", "paused", "resuming", "routing", "done"}]
Processes == [of : Tasks \cup {None}, state : {"none", "live", "ended", "processed"},
              failed : BOOLEAN]

(* The event finds its job as it should.                                   *)
EventOK(e) ==
    /\ \A x \in Tasks : Concerns(e, x) => jobs[x].at = StateOf(e)
    /\ e.kind = "assigned" => e.resource \in Range(Team[jobs[e.job].stage])
    /\ e.kind = "stored" /\ e.by \in Tasks
         /\ ~Windowed(setting.cadence, jobs[e.by].stage) => e.task = e.by

(* A step that keeps every type keeps the type invariant.                  *)
LEMMA TypeStep ==
  ASSUME KInv, setting' = setting, failures' \in 0..MaxFailures,
         raised' \subseteq {"put after alarm", "interrupts terminated process", "runaway",
                            "signal triggered twice", "value is not available", "unknown owner"},
         agenda' \in Seq(Dated), Sorted',
         items' \in [Stores -> Seq(Tasks)], history' \in [Tasks -> Entries],
         \A t \in Tasks : history'[t] # Invalid,
         alarm' \in [limit : Nat, signal : {"off", "armed", "triggered", "processed"}],
         phase' \in {"seeding", "running", "stopped"},
         arrivals' = arrivals,
         queue' \in [WorkStates -> Seq(Tasks)],
         listening' \subseteq WorkStates, awaiting' \subseteq WorkStates,
         left' \in [Tasks -> Nat], rework' \subseteq Tasks,
         jobs' \in [Tasks -> {NoJob} \cup JobRecords],
         process' \in [Workers -> Processes],
         suspended' \in [Workers -> Seq([of : Tasks, on : BOOLEAN])],
         hired' \in [WorkStates -> Nat], pool' \in [WorkStates -> Seq(Workers)],
         waiters' \in [WorkStates -> Seq(Tasks)],
         \A s \in WorkStates, t \in Tasks : owners'[s][t] \in Range(Team[s]) \cup {None},
         owners' \in [WorkStates -> [Tasks -> Workers \cup {None}]]
  PROVE  TypeInv'
<1>1. TypeInv
  BY DEF KInv
<1>2. setting \in Settings /\ arrivals \in 0..Len(Requests)
  BY <1>1 DEF TypeInv, WorkflowTypeOK, ResourcesTypeOK
<1>3. StoresTypeOK'
  BY DEF StoresTypeOK
<1>4. ResourcesTypeOK'
  BY <1>2 DEF ResourcesTypeOK, JobRecords, Processes
<1>5. WorkflowTypeOK'
  BY <1>2, <1>3, <1>4 DEF WorkflowTypeOK
<1>6. QED
  BY <1>5 DEF TypeInv, OwnersInv

(* The type invariant, spelled out.                                        *)
LEMMA TypesNow ==
  ASSUME KInv
  PROVE  /\ setting \in Settings /\ failures \in 0..MaxFailures
         /\ raised \subseteq {"put after alarm", "interrupts terminated process", "runaway",
                            "signal triggered twice", "value is not available", "unknown owner"}
         /\ agenda \in Seq(Dated) /\ Sorted
         /\ items \in [Stores -> Seq(Tasks)] /\ history \in [Tasks -> Entries]
         /\ \A t \in Tasks : history[t] # Invalid
         /\ alarm \in [limit : Nat, signal : {"off", "armed", "triggered", "processed"}]
         /\ queue \in [WorkStates -> Seq(Tasks)]
         /\ listening \subseteq WorkStates /\ awaiting \subseteq WorkStates
         /\ left \in [Tasks -> Nat] /\ rework \subseteq Tasks
         /\ jobs \in [Tasks -> {NoJob} \cup JobRecords]
         /\ process \in [Workers -> Processes]
         /\ suspended \in [Workers -> Seq([of : Tasks, on : BOOLEAN])]
         /\ hired \in [WorkStates -> Nat] /\ pool \in [WorkStates -> Seq(Workers)]
         /\ waiters \in [WorkStates -> Seq(Tasks)]
         /\ \A s \in WorkStates, t \in Tasks : owners[s][t] \in Range(Team[s]) \cup {None}
         /\ owners \in [WorkStates -> [Tasks -> Workers \cup {None}]]
         /\ phase \in {"seeding", "running", "stopped", "over"}
<1>1. WorkflowTypeOK /\ StoresTypeOK /\ ResourcesTypeOK
  BY DEF KInv, TypeInv, WorkflowTypeOK
<1>2. OwnersInv /\ agenda \in Seq(Dated) /\ \A t \in Tasks : history[t] # Invalid
  BY DEF KInv, TypeInv
<1>3. /\ setting \in Settings /\ failures \in 0..MaxFailures
      /\ left \in [Tasks -> Nat] /\ rework \subseteq Tasks
      /\ jobs \in [Tasks -> {NoJob} \cup JobRecords]
      /\ process \in [Workers -> Processes]
      /\ suspended \in [Workers -> Seq([of : Tasks, on : BOOLEAN])]
  BY <1>1 DEF ResourcesTypeOK, JobRecords, Processes
<1>4. /\ items \in [Stores -> Seq(Tasks)] /\ history \in [Tasks -> Entries]
      /\ alarm \in [limit : Nat, signal : {"off", "armed", "triggered", "processed"}]
  BY <1>1 DEF StoresTypeOK
<1>5. QED
  BY <1>1, <1>2, <1>3, <1>4 DEF WorkflowTypeOK, OwnersInv

(* The agenda's events are events.                                         *)
LEMMA UpcomingTyped ==
  ASSUME agenda' \in Seq(Dated)
  PROVE  Upcoming' \subseteq Events
<1> SUFFICES ASSUME NEW e \in Upcoming'  PROVE e \in Events
  OBVIOUS
<1>1. PICK x \in Range(agenda') : x.ev = e
  BY EvsRange DEF Upcoming
<1>2. x \in Dated
  BY <1>1, RangeOfSeq
<1>3. QED
  BY <1>1, <1>2 DEF Dated

(* A step about the jobs X keeps what is known of all other jobs and of    *)
(* the events about them.                                                  *)
LEMMA JobStep ==
  ASSUME KInv, NEW kind, Happens(kind), setting' = setting,
         NEW X, Upcoming' \subseteq Events,
         \A e \in Upcoming' : e \in Evs(Rest) \/ \A y \in Tasks : Concerns(e, y) => y \in X,
         \A e \in Evs(Rest) : e \in Upcoming' \/ \E y \in X : Concerns(e, y),
         \A y \in Tasks : Concerns(Occurring, y) => y \in X,
         \A y \in Tasks : y \notin X => jobs'[y] = jobs[y],
         X \subseteq Tasks,
         \A y \in Tasks : y \notin X /\ jobs[y].at = "routing" =>
             /\ jobs[y].stage = "deployment" => history'[y].state = history[y].state
             /\ ~InTrigger(y)'
             /\ \A z \in Tasks : y \notin Holds(z)',
         \A y \in X : JobOK(y)',
         \A e \in Upcoming', y \in X : Concerns(e, y) => EventOK(e)'
  PROVE  /\ JobsInv' /\ EventsInv'
         /\ \A y \in Tasks : y \notin X => /\ Engaged(y)' <=> Engaged(y)
                                           /\ Holds(y)' = Holds(y) /\ At(y)' = At(y)
<1>1. EventsInv /\ JobsInv
  BY Begin DEF LiveInv
<1>2. Upcoming = {Occurring} \cup Evs(Rest)
  BY BeginAgenda
<1>3. ASSUME NEW y \in Tasks, y \notin X
      PROVE  /\ Engaged(y)' <=> Engaged(y)
             /\ Holds(y)' = Holds(y) /\ At(y)' = At(y)
             /\ JobOK(y)'
  <2>1. \A e : Concerns(e, y) => (e \in Upcoming' <=> e \in Upcoming)
    <3>1. ASSUME NEW e, Concerns(e, y), e \in Upcoming'  PROVE e \in Upcoming
      BY <1>2, <1>3, <3>1
    <3>2. ASSUME NEW e, Concerns(e, y), e \in Upcoming  PROVE e \in Upcoming'
      <4>1. e \in Evs(Rest)
        BY <1>2, <1>3, <3>2
      <4>2. ASSUME NEW z \in X, Concerns(e, z)  PROVE FALSE
        <5>1. z = y
          BY <3>2, <4>2 DEF Concerns, JobKinds
        <5>2. QED
          BY <1>3, <4>2, <5>1
      <4>3. QED
        BY <4>1, <4>2
    <3>3. QED
      BY <3>1, <3>2
  <2>2. Engaged(y)' <=> Engaged(y)
    BY <2>1 DEF Engaged
  <2>3. jobs'[y] = jobs[y]
    BY <1>3
  <2>4. Holds(y)' = Holds(y) /\ At(y)' = At(y)
    BY <2>3 DEF Holds, At
  <2>5. JobOK(y)
    BY <1>1 DEF JobsInv
  <2>6. JobOK(y)'
    BY <1>3, <2>2, <2>3, <2>5 DEF JobOK, Windowed
  <2>7. QED
    BY <2>2, <2>4, <2>6
<1>4. JobsInv'
  BY <1>3 DEF JobsInv
<1>5. EventsInv'
  <2>1. ASSUME NEW e \in Upcoming'  PROVE EventOK(e)'
    <3>1. CASE \E y \in X : Concerns(e, y)
      BY <3>1
    <3>2. CASE \A y \in Tasks : Concerns(e, y) => y \notin X
      <4>1. CASE \A y \in Tasks : ~Concerns(e, y)
        <5>1. e.kind # "assigned"
          <6>1. e \in Events
            OBVIOUS
          <6>2. ASSUME e.kind = "assigned"  PROVE FALSE
            <7>1. e.job \in Tasks
              BY <6>1, <6>2, EventFields
            <7>2. QED
              BY <4>1, <6>2, <7>1 DEF Concerns, JobKinds
          <6>3. QED
            BY <6>2
        <5>2. e.kind = "stored" => e.by \notin Tasks
          BY <4>1 DEF Concerns
        <5>3. QED
          BY <4>1, <5>1, <5>2 DEF EventOK
      <4>2. CASE \E y \in Tasks : Concerns(e, y)
        <5>1. PICK y \in Tasks : Concerns(e, y)
          BY <4>2
        <5>2. y \notin X /\ e \in Evs(Rest)
          BY <3>2, <5>1
        <5>3. EventOK(e)
          BY <1>1, <1>2, <5>2 DEF EventsInv, EventOK
        <5>4. \A z \in Tasks : Concerns(e, z) => z = y
          BY <5>1 DEF Concerns, JobKinds
        <5>5. jobs'[y] = jobs[y]
          BY <5>2
        <5>6. /\ e.kind = "assigned" => e.job = y
              /\ e.kind = "stored" => e.by = y
          BY <5>1 DEF Concerns, JobKinds
        <5>7. StateOf(e)' = StateOf(e)
          BY DEF StateOf
        <5>8. QED
          BY <5>1, <5>3, <5>4, <5>5, <5>6 DEF EventOK, StateOf, Concerns, Windowed
      <4>3. QED
        BY <4>1, <4>2
    <3>3. QED
      BY <3>1, <3>2
  <2>2. QED
    BY <2>1 DEF EventsInv, EventOK
<1>6. QED
  BY <1>3, <1>4, <1>5

(* The kinds of events that are about jobs and resources only.             *)
Inner == JobKinds \cup {"returned"}

(* The event that happens is the only one about its job, which is neither  *)
(* waiting for a resource nor for a signal.                                *)
LEMMA HeadJob ==
  ASSUME KInv, NEW kind, Happens(kind), NEW x \in Tasks, Concerns(Occurring, x)
  PROVE  /\ jobs[x].at = StateOf(Occurring)
         /\ \A y : Concerns(Occurring, y) => y = x
         /\ \A e \in Evs(Rest) : ~Concerns(e, x)
         /\ \A e \in Upcoming : Concerns(e, x) => e = Occurring
         /\ Engaged(x)
         /\ \A s \in WorkStates : x \notin Range(waiters[s])
         /\ \A r \in Workers : \A i \in DOMAIN suspended[r] :
               suspended[r][i].of = x => suspended[r][i].on
<1>1. /\ EventsInv /\ WaitersInv /\ SignalsInv
  BY Begin DEF LiveInv
<1>2. /\ Upcoming = {Occurring} \cup Evs(Rest) /\ Occurring \in Upcoming
      /\ \A e \in Evs(Rest) : ~Clash(Occurring, e)
  BY BeginAgenda
<1>3. jobs[x].at = StateOf(Occurring)
  BY <1>1, <1>2 DEF EventsInv
<1>4. \A y : Concerns(Occurring, y) => y = x
  BY DEF Concerns, JobKinds
<1>5. \A e \in Evs(Rest) : ~Concerns(e, x)
  BY <1>2 DEF Clash
<1>6. Engaged(x)
  BY <1>2 DEF Engaged
<1>7. QED
  BY <1>1, <1>2, <1>3, <1>4, <1>5, <1>6 DEF WaitersInv, SignalsInv

(* A job that there is, spelled out.                                       *)
LEMMA JobFacts ==
  ASSUME KInv, Live, NEW x \in Tasks, jobs[x].at # "none"
  PROVE  /\ jobs[x] \in JobRecords /\ jobs[x].stage \in WorkStates
         /\ jobs[x].batch \in Seq(Tasks) /\ jobs[x].todo \in Seq(Tasks)
         /\ jobs[x].pooled \in BOOLEAN /\ jobs[x].failed \in BOOLEAN
         /\ jobs[x].batch # <<>> /\ Head(jobs[x].batch) = x /\ x \in Range(jobs[x].batch)
         /\ IsInjective(jobs[x].batch) /\ IsInjective(jobs[x].todo)
         /\ jobs[x].at \notin {"routing", "done"} =>
              jobs[x].todo = jobs[x].batch /\ Holds(x) = Range(jobs[x].batch)
         /\ ~Windowed(setting.cadence, jobs[x].stage) => jobs[x].batch = <<x>>
         /\ jobs[x].at # "waiting" =>
              /\ jobs[x].resource \in Range(Team[jobs[x].stage]) /\ jobs[x].resource \in Workers
              /\ At(x) = jobs[x].stage
         /\ JobOK(x)
<1>1. JobOK(x)
  BY DEF KInv, LiveInv, JobsInv
<1>2. ResourcesTypeOK
  BY DEF KInv, TypeInv, WorkflowTypeOK
<1>3. /\ jobs[x].stage \in WorkStates /\ jobs[x].batch \in Seq(Tasks) /\ jobs[x].todo \in Seq(Tasks)
      /\ jobs[x].pooled \in BOOLEAN /\ jobs[x].failed \in BOOLEAN
  BY <1>2, JobFields
<1>4. jobs[x] \in JobRecords
  <2>1. jobs \in [Tasks -> {NoJob} \cup JobRecords]
    BY TypesNow
  <2>2. jobs[x] # NoJob
    BY DEF NoJob
  <2>3. QED
    BY <2>1, <2>2
<1>5. /\ jobs[x].batch # <<>> /\ Head(jobs[x].batch) = x
      /\ IsInjective(jobs[x].batch) /\ IsInjective(jobs[x].todo)
      /\ jobs[x].at \notin {"routing", "done"} =>  jobs[x].todo = jobs[x].batch
      /\ ~Windowed(setting.cadence, jobs[x].stage) => Len(jobs[x].batch) = 1
      /\ jobs[x].at # "waiting" => jobs[x].resource \in Range(Team[jobs[x].stage])
  BY <1>1 DEF JobOK
<1>6. x \in Range(jobs[x].batch)
  <2>1. Range(jobs[x].batch) = {Head(jobs[x].batch)} \cup Range(Tail(jobs[x].batch))
    BY <1>3, <1>5, TailFacts
  <2>2. QED
    BY <1>5, <2>1
<1>7. ~Windowed(setting.cadence, jobs[x].stage) => jobs[x].batch = <<x>>
  <2> SUFFICES ASSUME ~Windowed(setting.cadence, jobs[x].stage)  PROVE jobs[x].batch = <<x>>
    OBVIOUS
  <2>1. Len(jobs[x].batch) = 1
    BY <1>5
  <2> DEFINE b == jobs[x].batch
  <2>2. b \in Seq(Tasks) /\ Len(b) = 1 /\ Head(b) = x
    BY <1>3, <1>5, <2>1
  <2> HIDE DEF b
  <2>3. DOMAIN b = {1} /\ b[1] = Head(b)
    BY <2>2, SingleSeq
  <2>4. b = <<x>>
    BY <2>2, <2>3
  <2>5. QED
    BY <2>4 DEF b
<1>8. jobs[x].at # "waiting" => jobs[x].resource \in Workers
  BY <1>3, <1>5, TaskFacts
<1>9. jobs[x].at \notin {"routing", "done"} => Holds(x) = Range(jobs[x].batch)
  BY DEF Holds
<1>10. jobs[x].at # "waiting" => At(x) = jobs[x].stage
  BY DEF At
<1>11. QED
  BY <1>1, <1>3, <1>4, <1>5, <1>6, <1>7, <1>8, <1>9, <1>10

(* A step that is not delayed finds no timer due now.                      *)
LEMMA TimerLate ==
  ASSUME KInv, NEW kind, Happens(kind), kind \notin Delayed,
         \A a \in Range(agenda') : a.ev.kind = "timer" => a \in Range(Rest)
  PROVE  TimerInv'
<1>1. \A y \in Range(Rest) : y.due \in Nat /\ (y.ev.kind = "timer" => y.due > 0)
  BY BeginAgenda
<1>2. \A a \in Range(agenda') : a.ev.kind = "timer" => a.due # 0
  BY <1>1
<1>3. QED
  BY <1>2 DEF TimerInv

(* Steps about jobs that do not wait keep the requests right.              *)
LEMMA WaitersFrame ==
  ASSUME WaitersInv, waiters' = waiters, NEW X, X \subseteq Tasks,
         \A y \in Tasks : y \notin X => jobs'[y] = jobs[y] /\ (Engaged(y)' <=> Engaged(y)),
         \A y \in X, s \in WorkStates : y \notin Range(waiters[s]),
         waiters \in [WorkStates -> Seq(Tasks)]
  PROVE  WaitersInv'
<1>1. ASSUME NEW s \in WorkStates, NEW y \in Range(waiters[s])
      PROVE  jobs'[y].at = "waiting" /\ jobs'[y].stage = s /\ ~Engaged(y)'
  <2>1. y \in Tasks /\ y \notin X
    BY <1>1, RangeOfSeq
  <2>2. QED
    BY <1>1, <2>1 DEF WaitersInv
<1>2. QED
  BY <1>1 DEF WaitersInv

(* Steps about jobs without an open signal keep the stacks right.          *)
LEMMA SignalsFrame ==
  ASSUME SignalsInv, suspended' = suspended, NEW X, X \subseteq Tasks,
         \A y \in Tasks : y \notin X => jobs'[y] = jobs[y] /\ (Engaged(y)' <=> Engaged(y)),
         \A r \in Workers : \A i \in DOMAIN suspended[r] :
               suspended[r][i].of \in X => suspended[r][i].on,
         suspended \in [Workers -> Seq([of : Tasks, on : BOOLEAN])]
  PROVE  SignalsInv'
<1>1. ASSUME NEW r \in Workers, NEW i \in DOMAIN suspended[r], ~suspended[r][i].on
      PROVE  LET y == suspended[r][i].of IN
             /\ jobs'[y].at = "paused" /\ jobs'[y].resource = r /\ ~Engaged(y)'
             /\ \A j \in DOMAIN suspended[r] :
                  suspended[r][j].of = y /\ ~suspended[r][j].on => i = j
  <2>1. suspended[r][i].of \in Tasks
    <3>1. suspended[r] \in Seq([of : Tasks, on : BOOLEAN])
      OBVIOUS
    <3> DEFINE R == [of : Tasks, on : BOOLEAN]
               q == suspended[r]
    <3>2. q \in Seq(R) /\ i \in DOMAIN q
      BY <1>1, <3>1
    <3> HIDE DEF R, q
    <3>3. q[i] \in R
      BY <3>2
    <3>4. QED
      BY <3>3 DEF R, q
  <2>2. QED
    BY <1>1, <2>1 DEF SignalsInv
<1>2. QED
  BY <1>1 DEF SignalsInv

(* A step of one job that moves no task.                                   *)
LEMMA InnerStep ==
  ASSUME KInv, NEW kind, Happens(kind), kind \in Inner, NEW x \in Tasks,
         \A y \in Tasks : Concerns(Occurring, y) => y = x,
         UNCHANGED <<storeVars, setting, phase, arrivals, operatorVars>>,
         agenda' \in Seq(Dated),
         \A e \in Upcoming' : \/ e \in Evs(Rest)
                              \/ (e.kind \in Inner /\ \A y \in Tasks : Concerns(e, y) => y = x),
         \A e \in Evs(Rest) : e \in Upcoming',
         \A y \in Tasks : y # x => jobs'[y] = jobs[y],
         Holds(x)' = Holds(x), At(x)' = At(x) \/ Holds(x) = {},
         JobOK(x)',
         \A e \in Upcoming' : Concerns(e, x) => EventOK(e)'
  PROVE  /\ SpotsInv' /\ SeqsInv' /\ PhaseInv' /\ AlarmInv' /\ JobsInv' /\ EventsInv'
         /\ \A y \in Tasks : y # x => (Engaged(y)' <=> Engaged(y))
<1>1. /\ SpotsInv /\ SeqsInv /\ PhaseInv /\ AlarmInv /\ JobsInv /\ EventsInv
      /\ Occurring.kind = kind
  BY Begin DEF LiveInv
<1>2. /\ Upcoming = {Occurring} \cup Evs(Rest)
  BY BeginAgenda
<1>3. /\ setting' = setting /\ phase' = phase /\ arrivals' = arrivals /\ history' = history
      /\ items' = items /\ alarm' = alarm /\ queue' = queue /\ listening' = listening
      /\ awaiting' = awaiting
  BY DEF storeVars, operatorVars
<1>4. \A e : e.kind \notin Inner => (e \in Upcoming' <=> e \in Upcoming)
  BY <1>1, <1>2
<1>5. \A t \in Tasks, s \in WorkStates :
         /\ In("trigger", s, t)' <=> In("trigger", s, t)
         /\ In("got", s, t)' <=> In("got", s, t)
  BY <1>4 DEF In, Inner, JobKinds
<1>6. \A t \in Tasks : InTrigger(t)' <=> InTrigger(t)
  BY <1>5 DEF InTrigger
<1>7. /\ JobsInv' /\ EventsInv'
      /\ \A y \in Tasks : y # x => /\ Engaged(y)' <=> Engaged(y)
                                   /\ Holds(y)' = Holds(y) /\ At(y)' = At(y)
  <2> DEFINE X == {x}
  <2>1. /\ X \subseteq Tasks
        /\ \A y \in Tasks : y \notin X <=> y # x
    OBVIOUS
  <2>2. /\ \A e \in Upcoming' : e \in Evs(Rest) \/ \A y \in Tasks : Concerns(e, y) => y \in X
        /\ \A e \in Evs(Rest) : e \in Upcoming' \/ \E y \in X : Concerns(e, y)
        /\ \A y \in Tasks : Concerns(Occurring, y) => y \in X
        /\ \A y \in Tasks : y \notin X => jobs'[y] = jobs[y]
        /\ \A y \in X : JobOK(y)'
        /\ \A e \in Upcoming', y \in X : Concerns(e, y) => EventOK(e)'
    OBVIOUS
  <2>3. Upcoming' \subseteq Events
    BY UpcomingTyped
  <2>4. \A y \in Tasks : y # x => Holds(y)' = Holds(y)
    BY DEF Holds
  <2>5. \A y \in Tasks : y \notin X /\ jobs[y].at = "routing" =>
             /\ jobs[y].stage = "deployment" => history'[y].state = history[y].state
             /\ ~InTrigger(y)'
             /\ \A z \in Tasks : y \notin Holds(z)'
    BY <1>1, <1>3, <1>6, <2>4 DEF JobsInv, JobOK
  <2>6. setting' = setting
    BY <1>3
  <2> HIDE DEF X
  <2>7. /\ JobsInv' /\ EventsInv'
        /\ \A y \in Tasks : y \notin X => /\ Engaged(y)' <=> Engaged(y)
                                          /\ Holds(y)' = Holds(y) /\ At(y)' = At(y)
    BY <2>1, <2>2, <2>3, <2>5, <2>6, JobStep
  <2>8. QED
    BY <2>1, <2>7
<1>8. \A y \in Tasks : /\ Holds(y)' = Holds(y)
                       /\ \A t \in Holds(y) : At(y)' = At(y)
  BY <1>7
<1>9. SpotsInv'
  <2>1. ASSUME NEW t \in Tasks, NEW k \in Spots, NEW p \in Wheres
        PROVE  In(k, p, t)' <=> In(k, p, t)
    <3>1. CASE k \in {"store", "queue"}
      BY <1>3, <3>1 DEF In
    <3>2. CASE k \in {"got", "trigger"}
      <4>1. CASE p \in WorkStates
        BY <1>5, <3>2, <4>1
      <4>2. CASE p \notin WorkStates
        BY <3>2, <4>2 DEF In
      <4>3. QED
        BY <4>1, <4>2
    <3>3. CASE k = "job"
      BY <1>8, <3>3 DEF In
    <3>4. QED
      BY <3>1, <3>2, <3>3 DEF Spots
  <2>2. \A t \in Tasks :
           /\ history'[t] = history[t]
           /\ \A k \in Spots, p \in Wheres : In(k, p, t)' <=> In(k, p, t)
           /\ \A p \in Tasks : t \in Holds(p) => At(p)' = At(p)
    BY <1>3, <1>8, <2>1
  <2>3. phase = "stopped" => phase' = "stopped"
    BY <1>3
  <2>4. QED
    BY <1>1, <2>2, <2>3, SpotsMove
<1>10. SeqsInv'
  <2>1. \A e : e \in Upcoming' /\ e.kind = "trigger" => e \in Upcoming
    BY <1>4 DEF Inner, JobKinds
  <2>2. QED
    BY <1>1, <1>3, <2>1 DEF SeqsInv, Windowed
<1>11. PhaseInv'
  <2>1. phase # "seeding"
    BY SeedingHead DEF Inner, JobKinds
  <2>2. \A e \in Upcoming' : e \notin Upcoming =>
            /\ ~OfWorkflow(e) /\ e.kind \notin {"over", "arrival"}
            /\ e.kind = "alarm" => alarm'.signal = "triggered"
            /\ e.kind = "timer" => setting.cadence > 0
            /\ e.kind = "trigger" => e.heard
    BY <1>4 DEF Inner, JobKinds, OfWorkflow
  <2>3. \A e : e.kind \in {"got", "trigger"} => (e \in Upcoming' <=> e \in Upcoming)
    BY <1>4 DEF Inner, JobKinds
  <2>4. \A e \in Upcoming' : e.kind = "got" => e.stage \notin listening'
    BY <1>1, <1>3, <2>3 DEF PhaseInv
  <2>5. phase = "running" => \A s \in WorkStates :
            s \in awaiting' <=> ~\E e \in Upcoming' : e.kind = "trigger" /\ e.stage = s
    BY <1>1, <1>3, <2>3 DEF PhaseInv
  <2>6. /\ phase # "running" => listening' = {} /\ awaiting' = {}
        /\ alarm'.limit = alarm.limit
        /\ alarm'.signal = alarm.signal \/ (alarm.signal = "armed" /\ alarm'.signal = "triggered")
        /\ \A t \in Tasks : history[t] = NoEntry => history'[t] = NoEntry
    BY <1>1, <1>3 DEF PhaseInv
  <2>7. QED
    BY <1>1, <1>3, <2>1, <2>2, <2>4, <2>5, <2>6, PhaseStays
<1>12. AlarmInv'
  BY <1>1, <1>3 DEF AlarmInv
<1>13. QED
  BY <1>7, <1>9, <1>10, <1>11, <1>12

(* A step that starts no process keeps what is known of the processes.     *)
LEMMA ProcessFrame ==
  ASSUME ProcessInv, process' = process, NEW x \in Tasks,
         process \in [Workers -> Processes],
         \A y \in Tasks : y # x => jobs'[y] = jobs[y],
         \A e \in Upcoming : e.kind = "finish" => e \in Upcoming',
         Finish(x) \notin Upcoming,
         \A r \in Range(Team["qa_testing"]) : Busy(r) => process[r].of # x,
         jobs'[x].at # "none" /\ jobs'[x].stage = "qa_testing" =>
            /\ jobs'[x].pooled /\ jobs'[x].at \in {"waiting", "working", "routing", "done"}
            /\ jobs'[x].at = "working" =>
                 process[jobs'[x].resource].of = x /\ Busy(jobs'[x].resource)
  PROVE  ProcessInv'
<1>1. \A r : Busy(r)' <=> Busy(r)
  BY DEF Busy
<1>2. ASSUME NEW r \in Workers, process[r].state = "live"
      PROVE  /\ process[r].of # None
             /\ Finish(process[r].of) \in Upcoming' /\ jobs'[process[r].of].resource = r
  <2>1. /\ process[r].of # None
        /\ Finish(process[r].of) \in Upcoming /\ jobs[process[r].of].resource = r
    BY <1>2 DEF ProcessInv
  <2>2. process[r].of # x /\ process[r].of \in Tasks
    BY <2>1 DEF Processes
  <2>3. Finish(process[r].of) \in Upcoming'
    BY <2>1 DEF Finish
  <2>4. QED
    BY <2>1, <2>2, <2>3
<1>3. ASSUME NEW r \in Range(Team["qa_testing"]), Busy(r)
      PROVE  /\ process[r].of # None
             /\ jobs'[process[r].of].at = "working" /\ jobs'[process[r].of].resource = r
  <2>1. /\ process[r].of # None
        /\ jobs[process[r].of].at = "working" /\ jobs[process[r].of].resource = r
    BY <1>3 DEF ProcessInv
  <2>2. process[r].of # x /\ process[r].of \in Tasks
    BY <1>3, <2>1, TaskFacts, Strings DEF Processes
  <2>3. QED
    BY <2>1, <2>2
<1>4. ASSUME NEW y \in Tasks, jobs'[y].at # "none", jobs'[y].stage = "qa_testing"
      PROVE  /\ jobs'[y].pooled /\ jobs'[y].at \in {"waiting", "working", "routing", "done"}
             /\ jobs'[y].at = "working" =>
                  process[jobs'[y].resource].of = y /\ Busy(jobs'[y].resource)
  <2>1. CASE y = x
    BY <1>4, <2>1
  <2>2. CASE y # x
    BY <1>4, <2>2 DEF ProcessInv
  <2>3. QED
    BY <2>1, <2>2
<1>5. \A r \in Range(Team["development"]) : ~process'[r].failed
  BY DEF ProcessInv
<1>6. QED
  BY <1>1, <1>2, <1>3, <1>4, <1>5 DEF ProcessInv

(* What the agenda tells of the work in progress.                          *)
FlowEvents ==
    /\ \A a \in Range(agenda) : a.ev.kind = "finish" =>
         /\ jobs[a.ev.job].stage = "development" => a.due <= left[a.ev.job]
         /\ jobs[a.ev.job].stage = "qa_testing" => left[a.ev.job] = 0
    /\ \A e \in Upcoming : e.kind = "worked" =>
         /\ jobs[e.job].stage = "development" /\ e.how = "returned" => left[e.job] = 0
         /\ jobs[e.job].stage = "qa_testing" =>
               process[jobs[e.job].resource].failed \/ left[e.job] = 0
         /\ jobs[e.job].stage # "development" => e.how = "returned"

(* A step keeps what the agenda tells of the work of jobs that it is not   *)
(* about.                                                                  *)
LEMMA FlowFrame ==
  ASSUME KInv, NEW kind, Happens(kind), NEW X, X \subseteq Tasks,
         \A y \in Tasks : y \notin X => jobs'[y] = jobs[y],
         \A y \in Tasks : y \notin X /\ jobs[y].at = "working" => left'[y] = left[y],
         \A y \in Tasks : y \notin X /\ jobs[y].at = "working" /\ jobs[y].stage = "qa_testing" =>
            process'[jobs[y].resource].failed = process[jobs[y].resource].failed,
         left' \in [Tasks -> Nat],
         \A a \in Range(agenda') : a.ev.kind = "finish" /\ a.ev.job \notin X => a \in Range(Rest),
         \A e \in Upcoming' : e.kind = "worked" /\ e.job \notin X => e \in Evs(Rest),
         agenda' \in Seq(Dated),
         \A a \in Range(agenda') : a.ev.kind = "finish" /\ a.ev.job \in X =>
            /\ jobs'[a.ev.job].stage = "development" => a.due <= left'[a.ev.job]
            /\ jobs'[a.ev.job].stage = "qa_testing" => left'[a.ev.job] = 0,
         \A e \in Upcoming' : e.kind = "worked" /\ e.job \in X =>
            /\ jobs'[e.job].stage = "development" /\ e.how = "returned" => left'[e.job] = 0
            /\ jobs'[e.job].stage = "qa_testing" =>
                  process'[jobs'[e.job].resource].failed \/ left'[e.job] = 0
            /\ jobs'[e.job].stage # "development" => e.how = "returned"
  PROVE  FlowEvents'
<1>1. FlowInv /\ EventsInv
  BY Begin DEF LiveInv
<1>2. /\ Upcoming = {Occurring} \cup Evs(Rest) /\ Head(agenda).due \in Nat
      /\ \A y \in Range(Rest) : /\ y \in Dated
                                   /\ y.ev \in Evs(Rest) /\ y.due \in Nat
                                   /\ \E x \in Range(agenda) :
                                        x.ev = y.ev /\ x.due = y.due + Head(agenda).due
  BY BeginAgenda
<1>3. left \in [Tasks -> Nat]
  BY TypesNow
<1>4. Upcoming' \subseteq Events
  BY UpcomingTyped
<1>5. ASSUME NEW a \in Range(agenda'), a.ev.kind = "finish"
      PROVE  /\ jobs'[a.ev.job].stage = "development" => a.due <= left'[a.ev.job]
             /\ jobs'[a.ev.job].stage = "qa_testing" => left'[a.ev.job] = 0
  <2>1. CASE a.ev.job \in X
    BY <1>5, <2>1
  <2>2. CASE a.ev.job \notin X
    <3>1. a \in Range(Rest)
      BY <1>5, <2>2
    <3>2. PICK b \in Range(agenda) : b.ev = a.ev /\ b.due = a.due + Head(agenda).due
      BY <1>2, <3>1
    <3>3. a.ev \in Events
      BY <1>2, <3>1 DEF Dated
    <3>4. a.ev.job \in Tasks
      BY <1>5, <3>3, EventFields
    <3>5. a.ev \in Upcoming /\ Concerns(a.ev, a.ev.job)
      BY <1>2, <1>5, <3>1 DEF Concerns, JobKinds
    <3>6. jobs[a.ev.job].at = "working"
      BY <1>1, <1>5, <3>4, <3>5 DEF EventsInv, StateOf
    <3>7. left'[a.ev.job] = left[a.ev.job] /\ jobs'[a.ev.job] = jobs[a.ev.job]
          /\ left[a.ev.job] \in Nat
      BY <1>3, <2>2, <3>4, <3>6
    <3>8. /\ jobs[a.ev.job].stage = "development" => b.due <= left[a.ev.job]
          /\ jobs[a.ev.job].stage = "qa_testing" => left[a.ev.job] = 0
      BY <1>1, <1>5, <3>2 DEF FlowInv
    <3>9. a.due \in Nat /\ Head(agenda).due \in Nat
      BY <1>2, <3>1
    <3>10. a.due <= b.due
      BY <3>2, <3>9
    <3>11. jobs[a.ev.job].stage = "development" => a.due <= left[a.ev.job]
      BY <3>2, <3>7, <3>8, <3>9
    <3>12. QED
      BY <3>7, <3>8, <3>11
  <2>3. QED
    BY <2>1, <2>2
<1>6. ASSUME NEW e \in Upcoming', e.kind = "worked"
      PROVE  /\ jobs'[e.job].stage = "development" /\ e.how = "returned" => left'[e.job] = 0
             /\ jobs'[e.job].stage = "qa_testing" =>
                   process'[jobs'[e.job].resource].failed \/ left'[e.job] = 0
             /\ jobs'[e.job].stage # "development" => e.how = "returned"
  <2>1. CASE e.job \in X
    BY <1>6, <2>1
  <2>2. CASE e.job \notin X
    <3>1. e \in Upcoming /\ e \in Events
      BY <1>2, <1>4, <1>6, <2>2
    <3>2. e.job \in Tasks /\ Concerns(e, e.job)
      BY <1>6, <3>1, EventFields DEF Concerns, JobKinds
    <3>3. jobs[e.job].at = "working"
      BY <1>1, <1>6, <3>1, <3>2 DEF EventsInv, StateOf
    <3>4. left'[e.job] = left[e.job] /\ jobs'[e.job] = jobs[e.job]
      BY <2>2, <3>2, <3>3
    <3>5. jobs[e.job].stage = "qa_testing" =>
              process'[jobs[e.job].resource].failed = process[jobs[e.job].resource].failed
      BY <2>2, <3>2, <3>3
    <3>6. /\ jobs[e.job].stage = "development" /\ e.how = "returned" => left[e.job] = 0
          /\ jobs[e.job].stage = "qa_testing" =>
               process[jobs[e.job].resource].failed \/ left[e.job] = 0
          /\ jobs[e.job].stage # "development" => e.how = "returned"
      BY <1>1, <1>6, <3>1 DEF FlowInv
    <3>7. QED
      BY <3>4, <3>5, <3>6
  <2>3. QED
    BY <2>1, <2>2
<1>7. QED
  BY <1>5, <1>6 DEF FlowEvents

(* If histories and remaining work stay, FlowInv is about the agenda only. *)
LEMMA FlowStays ==
  ASSUME FlowInv, history' = history, left' = left, rework' = rework, FlowEvents'
  PROVE  FlowInv'
BY DEF FlowInv, FlowEvents

(* A team lists every resource once, and no resource is in two teams.      *)
LEMMA TeamFacts ==
  /\ \A s, u \in WorkStates : \A r : r \in Range(Team[s]) /\ r \in Range(Team[u]) => s = u
  /\ \A s \in WorkStates : \A m, n \in 1..Len(Team[s]) : Team[s][m] = Team[s][n] => m = n
  /\ \A s \in WorkStates : \A r : r \in Range(Team[s]) => \E n \in 1..Len(Team[s]) : Team[s][n] = r
  /\ \A s \in WorkStates : /\ Len(Team[s]) \in Nat /\ Team[s] \in Seq(Workers)
                           /\ \A n \in 1..Len(Team[s]) :
                                Team[s][n] \in Range(Team[s]) /\ Team[s][n] \in Workers
<1>1. \A s, u \in WorkStates : \A r : r \in Range(Team[s]) /\ r \in Range(Team[u]) => s = u
  BY ResourcesAssumption
<1>2. ASSUME NEW s \in WorkStates
      PROVE  /\ \A m, n \in 1..Len(Team[s]) : Team[s][m] = Team[s][n] => m = n
             /\ \A r : r \in Range(Team[s]) => \E n \in 1..Len(Team[s]) : Team[s][n] = r
             /\ Len(Team[s]) \in Nat /\ Team[s] \in Seq(Workers)
             /\ \A n \in 1..Len(Team[s]) :
                  Team[s][n] \in Range(Team[s]) /\ Team[s][n] \in Workers
  <2> DEFINE q == Team[s]
             S == Range(Team[s]) \ {None}
  <2>1. q \in Seq(S) /\ IsInjective(q) /\ Range(q) \subseteq Workers /\ S \subseteq Workers
    BY ResourcesAssumption, TaskFacts
  <2>2. Range(q) = Range(Team[s])
    OBVIOUS
  <2> HIDE DEF q, S
  <2>3. Len(q) \in Nat /\ DOMAIN q = 1..Len(q)
    BY <2>1
  <2>4. \A m, n \in 1..Len(q) : q[m] = q[n] => m = n
    BY <2>1, <2>3 DEF IsInjective
  <2>5. \A r : r \in Range(q) => \E n \in 1..Len(q) : q[n] = r
    BY <2>3 DEF Range
  <2>6. \A n \in 1..Len(q) : q[n] \in Range(q)
    BY <2>3 DEF Range
  <2>7. q \in Seq(Workers)
    BY <2>1, SeqWidens
  <2>8. QED
    BY <2>1, <2>2, <2>3, <2>4, <2>5, <2>6, <2>7 DEF q
<1>3. QED
  BY <1>1, <1>2

(* One resource moves between pool, agenda and jobs.                       *)
LEMMA PoolMove ==
  ASSUME PoolInv, NEW s0 \in WorkStates, NEW r0,
         hired \in [WorkStates -> Nat], hired' \in [WorkStates -> Nat],
         \A s \in WorkStates : hired[s] <= hired'[s],
         \A s \in WorkStates : \A r : r # r0 /\ r \in Range(pool'[s]) => r \in Range(pool[s]),
         \A x \in Tasks, r \in Workers : r # r0 =>
             /\ AssignedTo(x, r)' => AssignedTo(x, r)
             /\ HoldsPooled(x, r)' => HoldsPooled(x, r),
         r0 \in Range(Team[s0]),
         \A n \in 1..Len(Team[s0]) : Team[s0][n] = r0 => PoolUse(s0, n, r0)',
         \A s \in WorkStates : /\ IsInjective(pool'[s]) /\ Range(pool'[s]) \subseteq Range(Team[s])
                               /\ hired'[s] <= Len(Team[s]),
         \A x, y \in Range(agenda') : Precedes(agenda', x, y) =>
             ~(x.ev.kind = "assigned" /\ x.ev = y.ev)
  PROVE  PoolInv'
<1>1. ASSUME NEW s \in WorkStates, NEW n \in 1..Len(Team[s])
      PROVE  PoolUse(s, n, Team[s][n])'
  <2>1. Team[s][n] \in Range(Team[s])
    BY TeamFacts
  <2>2. CASE Team[s][n] = r0
    <3>1. s = s0
      BY <2>1, <2>2, TeamFacts
    <3>2. QED
      BY <2>2, <3>1
  <2>3. CASE Team[s][n] # r0
    <3>1. PICK r : r = Team[s][n]
      OBVIOUS
    <3>2. PoolUse(s, n, r) /\ r # r0 /\ r \in Workers
      BY <2>3, <3>1, TeamFacts DEF PoolInv
    <3>3. /\ r \in Range(pool'[s]) => r \in Range(pool[s])
          /\ \A x \in Tasks : /\ AssignedTo(x, r)' => AssignedTo(x, r)
                              /\ HoldsPooled(x, r)' => HoldsPooled(x, r)
      BY <3>2
    <3>4. n > hired'[s] => n > hired[s]
      <4>1. Len(Team[s]) \in Nat /\ n \in Nat /\ hired[s] \in Nat /\ hired'[s] \in Nat
            /\ hired[s] <= hired'[s]
        BY TeamFacts
      <4>2. QED
        BY <4>1
    <3>5. PoolUse(s, n, r)'
      BY <3>2, <3>3, <3>4 DEF PoolUse
    <3>6. QED
      BY <3>1, <3>5
  <2>4. QED
    BY <2>2, <2>3
<1>2. QED
  BY <1>1 DEF PoolInv

-----------------------------------------------------------------------------
(* A job ends, and the pool serves those that wait (pool_manager.py).      *)

(* The job is over; a resource from the pool goes back to it.              *)
LEMMA JobEndsKeeps ==
  ASSUME KInv, JobEnds
  PROVE  KInv' /\ \A t \in Tasks : Moves(t)
<1>1. PICK x : x = Occurring.job
  OBVIOUS
<1>2. /\ Happens("operated")
      /\ jobs' = [jobs EXCEPT ![x] = NoJob]
      /\ pool' = Released(jobs[x])
      /\ agenda' = Schedule(Rest, ReleaseEvents(jobs[x]))
      /\ UNCHANGED <<raised, storeVars, setting, left, rework, process, suspended, failures,
                     phase, arrivals, operatorVars, hired, waiters, owners>>
  BY <1>1 DEF JobEnds
<1>3. /\ Live /\ LiveInv /\ ResourcesTypeOK /\ PoolInv /\ phase # "over"
      /\ Occurring.kind = "operated" /\ OwnersInv
  BY <1>2, Begin
<1>4. /\ SpotsInv /\ ProcessInv /\ FlowInv /\ WaitersInv /\ SignalsInv
  BY <1>3 DEF LiveInv
<1>5. /\ Rest \in Seq(Dated) /\ Occurring \in Events /\ Occurring \in Upcoming
      /\ Upcoming = {Occurring} \cup Evs(Rest) /\ Evs(Rest) \subseteq Events
  BY <1>2, BeginAgenda
<1>6. x \in Tasks /\ Concerns(Occurring, x)
  BY <1>1, <1>3, <1>5, EventFields DEF Concerns, JobKinds
<1>7. /\ jobs[x].at = "done" /\ \A y : Concerns(Occurring, y) => y = x
      /\ \A e \in Evs(Rest) : ~Concerns(e, x)
      /\ \A e \in Upcoming : Concerns(e, x) => e = Occurring
      /\ \A s \in WorkStates : x \notin Range(waiters[s])
      /\ \A r \in Workers : \A i \in DOMAIN suspended[r] :
            suspended[r][i].of = x => suspended[r][i].on
  BY <1>2, <1>3, <1>6, HeadJob DEF StateOf
<1>8. /\ jobs[x].at # "none" /\ jobs[x].at # "waiting"
  BY <1>7
<1>9. /\ jobs[x].stage \in WorkStates /\ jobs[x].resource \in Range(Team[jobs[x].stage])
      /\ jobs[x].resource \in Workers /\ JobOK(x) /\ jobs[x].pooled \in BOOLEAN
  BY <1>3, <1>6, <1>8, JobFacts
<1>10. jobs' = [y \in Tasks |-> IF y = x THEN NoJob ELSE jobs[y]]
  <2>1. jobs \in [Tasks -> {NoJob} \cup JobRecords]
    BY TypesNow
  <2>2. QED
    BY <1>2, <2>1
<1>11. /\ \A y \in Tasks : y # x => jobs'[y] = jobs[y]
       /\ jobs'[x].at = "none"
       /\ jobs' \in [Tasks -> {NoJob} \cup JobRecords]
  <2>1. jobs \in [Tasks -> {NoJob} \cup JobRecords]
    BY TypesNow
  <2>2. QED
    BY <1>6, <1>10, <2>1 DEF NoJob
<1>12. PICK fs : fs = ReleaseEvents(jobs[x])
  OBVIOUS
<1>13. /\ OneOrNone(fs)
       /\ \A e \in Range(fs) : Fits(setting.cadence, Evs(Rest), e)
       /\ \A a \in Range(fs) : a.ev.kind = "returned"
       /\ \A e \in Evs(fs) : e.kind = "returned"
  <2>1. CASE ~jobs[x].pooled
    BY <1>12, <2>1, OneOrNoneFacts DEF ReleaseEvents
  <2>2. CASE jobs[x].pooled
    <3>1. PICK ev : ev = Returned(jobs[x].stage)
      OBVIOUS
    <3>2. ev \in Events /\ ev.kind = "returned"
      BY <1>9, <3>1, EventTypes DEF Returned
    <3>3. fs = <<Now(ev)>>
      BY <1>12, <2>2, <3>1 DEF ReleaseEvents
    <3>4. \A f \in Evs(Rest) : ~Clash(f, ev) /\ ~TooLate(setting.cadence, f, ev)
      BY <3>2 DEF Clash, TooLate, OfWorkflow, OfGenerator, Concerns, JobKinds
    <3>5. Fits(setting.cadence, Evs(Rest), Now(ev))
      BY <3>2, <3>4, FitsNow
    <3>6. QED
      BY <3>2, <3>3, <3>5, NowFacts
  <2>3. QED
    BY <2>1, <2>2
<1>14. /\ agenda' \in Seq(Dated) /\ Orderly(setting.cadence, agenda)' /\ Sorted'
       /\ \A a, b \in Range(agenda') : Precedes(agenda', a, b) =>
                 ~(a.ev.kind = "assigned" /\ a.ev = b.ev)
       /\ Upcoming' = Evs(Rest) \cup Evs(fs)
       /\ Range(agenda') = Range(Rest) \cup Range(fs)
  <2>1. agenda' = Schedule(Rest, fs) /\ setting' = setting
    BY <1>2, <1>12
  <2>2. QED
    BY <1>2, <1>13, <2>1, AgendaOne
<1>15. \A e \in Upcoming' : /\ e \in Evs(Rest) \/ e.kind = "returned"
                            /\ ~Concerns(e, x)
  BY <1>7, <1>13, <1>14 DEF Concerns, JobKinds
<1>16. Holds(x) = {} /\ Holds(x)' = {}
  BY <1>7, <1>9, <1>11, EmptyFacts DEF Holds, JobOK
<1>17. /\ SpotsInv' /\ SeqsInv' /\ PhaseInv' /\ AlarmInv' /\ JobsInv' /\ EventsInv'
       /\ \A y \in Tasks : y # x => (Engaged(y)' <=> Engaged(y))
  <2>1. UNCHANGED <<storeVars, setting, phase, arrivals, operatorVars>>
    BY <1>2
  <2>2. \A e \in Upcoming' : \/ e \in Evs(Rest)
                             \/ (e.kind \in Inner /\ \A y \in Tasks : Concerns(e, y) => y = x)
    BY <1>15 DEF Inner, JobKinds, Concerns
  <2>3. JobOK(x)'
    BY <1>11 DEF JobOK
  <2>4. \A e \in Upcoming' : Concerns(e, x) => EventOK(e)'
    BY <1>15
  <2>5. "operated" \in Inner
    BY DEF Inner, JobKinds
  <2>6. Holds(x)' = Holds(x) /\ (At(x)' = At(x) \/ Holds(x) = {})
    BY <1>16
  <2>7. \A e \in Evs(Rest) : e \in Upcoming'
    BY <1>14
  <2>8. \A y \in Tasks : Concerns(Occurring, y) => y = x
    BY <1>7
  <2>9. \A y \in Tasks : y # x => jobs'[y] = jobs[y]
    BY <1>11
  <2>10. agenda' \in Seq(Dated)
    BY <1>14
  <2>11. QED
    BY <1>2, <1>6, <2>1, <2>2, <2>3, <2>4, <2>5, <2>6, <2>7, <2>8, <2>9, <2>10, InnerStep
<1>18. WaitersInv' /\ SignalsInv'
  <2> DEFINE X == {x}
  <2>1. /\ X \subseteq Tasks
        /\ \A y \in Tasks : y \notin X => jobs'[y] = jobs[y] /\ (Engaged(y)' <=> Engaged(y))
        /\ \A y \in X, s \in WorkStates : y \notin Range(waiters[s])
        /\ \A r \in Workers : \A i \in DOMAIN suspended[r] :
               suspended[r][i].of \in X => suspended[r][i].on
    BY <1>6, <1>7, <1>11, <1>17
  <2>2. /\ waiters \in [WorkStates -> Seq(Tasks)]
        /\ suspended \in [Workers -> Seq([of : Tasks, on : BOOLEAN])]
    BY TypesNow
  <2>3. waiters' = waiters /\ suspended' = suspended
    BY <1>2
  <2> HIDE DEF X
  <2>4. WaitersInv'
    BY <1>4, <2>1, <2>2, <2>3, WaitersFrame
  <2>5. SignalsInv'
    BY <1>4, <2>1, <2>2, <2>3, SignalsFrame
  <2>6. QED
    BY <2>4, <2>5
<1>19. ProcessInv'
  <2>1. process' = process /\ process \in [Workers -> Processes]
    BY <1>2, TypesNow
  <2>2. \A e \in Upcoming : e.kind = "finish" => e \in Upcoming'
    BY <1>3, <1>5, <1>14
  <2>3. Finish(x) \notin Upcoming
    BY <1>3, <1>7 DEF Finish, Concerns, JobKinds
  <2>4. \A r \in Range(Team["qa_testing"]) : Busy(r) => process[r].of # x
    BY <1>4, <1>7 DEF ProcessInv
  <2>5. jobs'[x].at # "none" /\ jobs'[x].stage = "qa_testing" =>
            /\ jobs'[x].pooled /\ jobs'[x].at \in {"waiting", "working", "routing", "done"}
            /\ jobs'[x].at = "working" =>
                 process[jobs'[x].resource].of = x /\ Busy(jobs'[x].resource)
    BY <1>11
  <2>6. QED
    BY <1>4, <1>6, <1>11, <2>1, <2>2, <2>3, <2>4, <2>5, ProcessFrame
<1>20. TimerInv'
  <2>1. "operated" \notin Delayed
    BY DEF Delayed
  <2>2. \A a \in Range(agenda') : a.ev.kind = "timer" => a \in Range(Rest)
    BY <1>13, <1>14
  <2>3. QED
    BY <1>2, <2>1, <2>2, TimerLate
<1>21. FlowInv'
  <2> DEFINE X == {x}
  <2>1. left' = left /\ process' = process /\ history' = history /\ rework' = rework
    BY <1>2 DEF storeVars
  <2>2. left' \in [Tasks -> Nat]
    BY <2>1, TypesNow
  <2>3. \A a \in Range(agenda') : a.ev.kind = "finish" => a \in Range(Rest)
    BY <1>13, <1>14
  <2>4. \A e \in Upcoming' : e.kind = "worked" => e \in Evs(Rest)
    BY <1>13, <1>14
  <2>5. \A a \in Range(agenda') : a.ev.kind = "finish" => a.ev.job # x
    <3>1. ASSUME NEW a \in Range(agenda'), a.ev.kind = "finish", a.ev.job = x  PROVE FALSE
      <4>1. a.ev \in Evs(Rest)
        BY <2>3, <3>1, EvsRange
      <4>2. QED
        BY <1>7, <3>1, <4>1 DEF Concerns, JobKinds
    <3>2. QED
      BY <3>1
  <2>6. \A e \in Upcoming' : e.kind = "worked" => e.job # x
    BY <1>15 DEF Concerns, JobKinds
  <2>7. /\ X \subseteq Tasks
        /\ \A y \in Tasks : y \notin X => jobs'[y] = jobs[y]
        /\ \A a \in Range(agenda') : a.ev.kind = "finish" => a.ev.job \notin X
        /\ \A e \in Upcoming' : e.kind = "worked" => e.job \notin X
    BY <1>6, <1>11, <2>5, <2>6
  <2> HIDE DEF X
  <2>8. FlowEvents'
    BY <1>2, <1>14, <2>1, <2>2, <2>3, <2>4, <2>7, FlowFrame
  <2>9. QED
    BY <1>4, <2>1, <2>8, FlowStays
<1>22. /\ \A y \in Tasks : \A r : AssignedTo(y, r)' => AssignedTo(y, r)
       /\ \A y \in Tasks : \A r : HoldsPooled(y, r)' => HoldsPooled(y, r) /\ y # x
  <2>1. \A e \in Upcoming' : e.kind = "assigned" => e \in Upcoming
    BY <1>5, <1>15
  <2>2. \A y \in Tasks : \A r : AssignedTo(y, r)' => AssignedTo(y, r)
    BY <2>1 DEF AssignedTo
  <2>3. QED
    BY <1>11, <2>2 DEF HoldsPooled
<1>23. /\ hired' = hired /\ hired \in [WorkStates -> Nat] /\ pool \in [WorkStates -> Seq(Workers)]
  BY <1>2, TypesNow
<1>24. PoolInv' /\ pool' \in [WorkStates -> Seq(Workers)]
  <2>1. CASE ~jobs[x].pooled
    <3>1. pool' = pool
      BY <1>2, <2>1 DEF Released
    <3>2. \A y \in Tasks, r \in Workers : HoldsPooled(y, r)' => HoldsPooled(y, r)
      BY <1>22
    <3>3. \A y \in Tasks, r \in Workers : AssignedTo(y, r)' => AssignedTo(y, r)
      BY <1>22
    <3>4. PoolInv'
      BY <1>3, <1>14, <1>23, <3>1, <3>2, <3>3, PoolFrame
    <3>5. QED
      BY <1>23, <3>1, <3>4
  <2>2. CASE jobs[x].pooled
    <3>1. PICK s \in WorkStates : s = jobs[x].stage
      BY <1>9
    <3>2. PICK r \in Workers : r = jobs[x].resource
      BY <1>9
    <3>3. r \in Range(Team[s]) /\ HoldsPooled(x, r)
      BY <1>8, <1>9, <2>2, <3>1, <3>2 DEF HoldsPooled
    <3>4. PICK n \in 1..Len(Team[s]) : Team[s][n] = r
      BY <3>3, TeamFacts
    <3>5. PoolUse(s, n, r)
      BY <1>3, <3>4 DEF PoolInv
    <3>6. /\ r \notin Range(pool[s]) /\ ~(n > hired[s])
          /\ \A y \in Tasks : ~AssignedTo(y, r) /\ (HoldsPooled(y, r) => y = x)
      BY <1>6, <3>3, <3>5 DEF PoolUse
    <3>7. pool' = [pool EXCEPT ![s] = Append(pool[s], r)]
      BY <1>2, <2>2, <3>1, <3>2 DEF Released
    <3>8. /\ pool'[s] = Append(pool[s], r)
          /\ \A u \in WorkStates : u # s => pool'[u] = pool[u]
      BY <1>23, <3>7
    <3>9. pool[s] \in Seq(Workers)
      BY <1>23
    <3>10. /\ Append(pool[s], r) \in Seq(Workers)
           /\ Range(Append(pool[s], r)) = Range(pool[s]) \cup {r}
           /\ IsInjective(pool[s]) /\ r \notin Range(pool[s]) => IsInjective(Append(pool[s], r))
      BY <3>9, AppendFacts
    <3>11. \A u \in WorkStates : IsInjective(pool[u]) /\ Range(pool[u]) \subseteq Range(Team[u])
                                 /\ hired[u] <= Len(Team[u])
      BY <1>3 DEF PoolInv
    <3>12. \A u \in WorkStates : IsInjective(pool'[u]) /\ Range(pool'[u]) \subseteq Range(Team[u])
                                 /\ hired'[u] <= Len(Team[u])
      BY <1>23, <3>3, <3>6, <3>8, <3>10, <3>11
    <3>13. \A y \in Tasks : ~AssignedTo(y, r)' /\ ~HoldsPooled(y, r)'
      BY <1>22, <3>6
    <3>14. PoolUse(s, n, r)'
      BY <1>23, <3>6, <3>13 DEF PoolUse
    <3>15. \A m \in 1..Len(Team[s]) : Team[s][m] = r => PoolUse(s, m, r)'
      <4>1. \A m \in 1..Len(Team[s]) : Team[s][m] = r => m = n
        BY <3>4, TeamFacts
      <4>2. QED
        BY <3>14, <4>1
    <3>16. \A u \in WorkStates : hired[u] <= hired'[u]
      BY <1>23
    <3>17. \A u \in WorkStates : \A q : q # r /\ q \in Range(pool'[u]) => q \in Range(pool[u])
      BY <3>8, <3>10
    <3>18. \A y \in Tasks : \A q : q # r => /\ AssignedTo(y, q)' => AssignedTo(y, q)
                                            /\ HoldsPooled(y, q)' => HoldsPooled(y, q)
      BY <1>22
    <3>19. PoolInv'
      <4>1. PoolInv /\ r \in Range(Team[s])
        BY <1>3, <3>3
      <4>2. hired \in [WorkStates -> Nat] /\ hired' \in [WorkStates -> Nat]
        BY <1>23
      <4>3. \A a, b \in Range(agenda') : Precedes(agenda', a, b) =>
                 ~(a.ev.kind = "assigned" /\ a.ev = b.ev)
        BY <1>14
      <4>4. QED
        BY <3>12, <3>15, <3>16, <3>17, <3>18, <4>1, <4>2, <4>3, PoolMove
    <3>20. pool' \in [WorkStates -> Seq(Workers)]
      BY <1>23, <3>7, <3>10
    <3>21. QED
      BY <3>19, <3>20
  <2>3. QED
    BY <1>9, <2>1, <2>2
<1>25. TypeInv'
  <2>1. /\ setting' = setting /\ failures' = failures /\ raised' = raised /\ items' = items
        /\ history' = history /\ alarm' = alarm /\ phase' = phase /\ arrivals' = arrivals
        /\ queue' = queue /\ listening' = listening /\ awaiting' = awaiting /\ left' = left
        /\ rework' = rework /\ process' = process /\ suspended' = suspended /\ hired' = hired
        /\ waiters' = waiters /\ owners' = owners
    BY <1>2 DEF storeVars, operatorVars
  <2>2. phase' \in {"seeding", "running", "stopped"}
    BY <1>3, <2>1, TypesNow
  <2>3. QED
    BY <1>11, <1>14, <1>24, <2>1, <2>2, TypesNow, TypeStep
<1>26. \A t \in Tasks : Moves(t)
  BY <1>2 DEF Moves, storeVars
<1>27. QED
  BY <1>14, <1>17, <1>18, <1>19, <1>20, <1>21, <1>24, <1>25, <1>26 DEF KInv, LiveInv

(* Nobody waits, or no resource is there.                                  *)
LEMMA NothingServed ==
  ASSUME KInv, Happens("returned"), agenda' = Rest,
         UNCHANGED <<raised, storeVars, resourceVars, phase, arrivals, operatorVars, poolVars>>
  PROVE  KInv' /\ \A t \in Tasks : Moves(t)
<1> DEFINE kind == "returned"
           N == {}
           ND == {}
<1>1. /\ Live /\ LiveInv /\ Occurring.kind = "returned" /\ phase # "over"
  BY Begin
<1>2. /\ setting' = setting /\ jobs' = jobs /\ phase' = phase /\ arrivals' = arrivals
      /\ history' = history /\ items' = items /\ alarm' = alarm /\ queue' = queue
      /\ listening' = listening /\ awaiting' = awaiting
  BY DEF storeVars, resourceVars, operatorVars
<1>3. /\ agenda' \in Seq(Dated) /\ Orderly(setting.cadence, agenda)' /\ Sorted'
      /\ \A x, y \in Range(agenda') : Precedes(agenda', x, y) =>
                ~(x.ev.kind = "assigned" /\ x.ev = y.ev)
      /\ Upcoming' = Evs(Rest) /\ Range(agenda') = Range(Rest)
  BY <1>2, AgendaNone
<1>4. Upcoming = {Occurring} \cup Evs(Rest)
  BY BeginAgenda
<1>5. Neutral(Occurring) /\ \A y : ~Concerns(Occurring, y)
  BY <1>1 DEF Neutral, Concerns, JobKinds
<1>6. \A t \in Tasks : jobs[t].at = "routing" => ~InTrigger(t)'
  <2>1. \A e \in Upcoming' : e \in Upcoming
    BY <1>3, <1>4
  <2>2. \A t \in Tasks : InTrigger(t)' => InTrigger(t)
    BY <2>1 DEF InTrigger, In
  <2>3. QED
    BY <1>1, <2>2 DEF LiveInv, JobsInv, JobOK
<1>7. /\ EventsInv' /\ WaitersInv' /\ SignalsInv' /\ ProcessInv' /\ TimerInv' /\ FlowInv'
      /\ JobsInv' /\ PoolInv' /\ TypeInv'
      /\ \A x \in Tasks : Holds(x)' = Holds(x) /\ At(x)' = At(x)
      /\ \A t \in Tasks : Moves(t)
  <2>1. /\ Happens(kind) /\ Upcoming' = Evs(Rest) \cup N /\ Range(agenda') = Range(Rest) \cup ND
        /\ \A e \in N : e \in Events /\ Neutral(e)
        /\ \A a \in ND : a.ev \in N /\ (a.ev.kind = "timer" => a.due > 0)
    BY <1>3
  <2>2. UNCHANGED <<raised, history, resourceVars, poolVars>>
    BY <1>2
  <2>3. /\ items' \in [Stores -> Seq(Tasks)]
        /\ alarm' \in [limit : Nat, signal : {"off", "armed", "triggered", "processed"}]
        /\ phase' \in {"seeding", "running", "stopped"}
        /\ arrivals' = arrivals
        /\ queue' \in [WorkStates -> Seq(Tasks)]
        /\ listening' \subseteq WorkStates /\ awaiting' \subseteq WorkStates
    BY <1>1, <1>2, TypesNow
  <2> HIDE DEF kind, N, ND
  <2>4. QED
    BY <1>3, <1>5, <1>6, <2>1, <2>2, <2>3, QuietKeeps
<1>8. SpotsInv' /\ SeqsInv' /\ PhaseInv' /\ AlarmInv'
  <2>1. PICK x \in Tasks : x = Backlog[1]
    BY BacklogFacts, InjectiveFacts, TaskFacts
  <2>2. Happens(kind) /\ kind \in Inner
    BY DEF Inner
  <2>3. /\ \A y \in Tasks : Concerns(Occurring, y) => y = x
        /\ \A y \in Tasks : y # x => jobs'[y] = jobs[y]
        /\ \A e \in Evs(Rest) : e \in Upcoming'
    BY <1>2, <1>3, <1>5
  <2>4. \A e \in Upcoming' : \/ e \in Evs(Rest)
                             \/ (e.kind \in Inner /\ \A y \in Tasks : Concerns(e, y) => y = x)
    BY <1>3
  <2>5. Holds(x)' = Holds(x) /\ (At(x)' = At(x) \/ Holds(x) = {})
    BY <1>7, <2>1
  <2>6. JobOK(x)' /\ \A e \in Upcoming' : Concerns(e, x) => EventOK(e)'
    BY <1>7, <2>1 DEF JobsInv, EventsInv, EventOK
  <2>7. UNCHANGED <<storeVars, setting, phase, arrivals, operatorVars>>
    BY <1>2
  <2>8. agenda' \in Seq(Dated)
    BY <1>3
  <2> HIDE DEF kind
  <2>9. QED
    BY <2>1, <2>2, <2>3, <2>4, <2>5, <2>6, <2>7, <2>8, InnerStep
<1>9. QED
  BY <1>3, <1>7, <1>8 DEF KInv, LiveInv

(* The first that waits is given the first resource.                       *)
LEMMA WaiterServed ==
  ASSUME KInv, Happens("returned"), NEW s \in WorkStates, pool[s] # <<>>, waiters[s] # <<>>,
         agenda' = Schedule(Rest, <<Now(Assigned(Head(waiters[s]), Head(pool[s])))>>),
         pool' = [pool EXCEPT ![s] = Tail(@)],
         waiters' = [waiters EXCEPT ![s] = Tail(@)],
         UNCHANGED <<raised, storeVars, resourceVars, phase, arrivals, operatorVars, hired, owners>>
  PROVE  KInv' /\ \A t \in Tasks : Moves(t)
<1>1. /\ Live /\ LiveInv /\ Occurring.kind = "returned" /\ phase # "over" /\ PoolInv
  BY Begin
<1>2. /\ setting' = setting /\ jobs' = jobs /\ phase' = phase /\ arrivals' = arrivals
      /\ history' = history /\ items' = items /\ alarm' = alarm /\ queue' = queue
      /\ listening' = listening /\ awaiting' = awaiting /\ left' = left /\ process' = process
      /\ suspended' = suspended /\ rework' = rework /\ failures' = failures /\ raised' = raised
      /\ hired' = hired /\ owners' = owners
  BY DEF storeVars, resourceVars, operatorVars
<1>3. /\ WaitersInv /\ SignalsInv /\ ProcessInv /\ FlowInv /\ JobsInv /\ EventsInv
  BY <1>1 DEF LiveInv
<1>4. /\ Rest \in Seq(Dated) /\ Upcoming = {Occurring} \cup Evs(Rest) /\ Evs(Rest) \subseteq Events
  BY BeginAgenda
<1>5. \A y : ~Concerns(Occurring, y)
  BY <1>1 DEF Concerns, JobKinds
<1>6. /\ pool \in [WorkStates -> Seq(Workers)] /\ waiters \in [WorkStates -> Seq(Tasks)]
      /\ hired \in [WorkStates -> Nat] /\ process \in [Workers -> Processes]
      /\ suspended \in [Workers -> Seq([of : Tasks, on : BOOLEAN])]
      /\ jobs \in [Tasks -> {NoJob} \cup JobRecords]
  BY TypesNow
<1>7. PICK x : x = Head(waiters[s])
  OBVIOUS
<1>8. PICK r : r = Head(pool[s])
  OBVIOUS
<1>9. /\ x \in Tasks /\ Tail(waiters[s]) \in Seq(Tasks)
      /\ Range(waiters[s]) = {x} \cup Range(Tail(waiters[s]))
      /\ IsInjective(waiters[s]) => IsInjective(Tail(waiters[s])) /\ x \notin Range(Tail(waiters[s]))
  <2>1. waiters[s] \in Seq(Tasks) /\ waiters[s] # <<>>
    BY <1>6
  <2>2. QED
    BY <1>7, <2>1, TailFacts
<1>10. /\ r \in Workers /\ Tail(pool[s]) \in Seq(Workers)
       /\ Range(pool[s]) = {r} \cup Range(Tail(pool[s]))
       /\ IsInjective(pool[s]) => IsInjective(Tail(pool[s])) /\ r \notin Range(Tail(pool[s]))
  <2>1. pool[s] \in Seq(Workers) /\ pool[s] # <<>>
    BY <1>6
  <2>2. QED
    BY <1>8, <2>1, TailFacts
<1>11. /\ jobs[x].at = "waiting" /\ jobs[x].stage = s /\ ~Engaged(x)
       /\ IsInjective(waiters[s]) /\ x \notin Range(Tail(waiters[s]))
  BY <1>3, <1>9 DEF WaitersInv
<1>12. \A e \in Upcoming : ~Concerns(e, x)
  BY <1>11 DEF Engaged
<1>13. /\ r \in Range(Team[s]) /\ IsInjective(Tail(pool[s])) /\ r \notin Range(Tail(pool[s]))
       /\ r \in Range(pool[s])
  BY <1>1, <1>10 DEF PoolInv
<1>14. PICK ev : ev = Assigned(x, r)
  OBVIOUS
<1>15. /\ ev \in Events /\ ev.kind = "assigned" /\ ev.job = x /\ ev.resource = r
  BY <1>9, <1>10, <1>14, EventTypes DEF Assigned
<1>16. PICK fs : fs = <<Now(ev)>>
  OBVIOUS
<1>17. /\ OneOrNone(fs) /\ Range(fs) = {Now(ev)} /\ Evs(fs) = {ev} /\ Now(ev).ev = ev
       /\ \A e \in Range(fs) : Fits(setting.cadence, Evs(Rest), e)
  <2>1. \A f \in Evs(Rest) : ~Clash(f, ev) /\ ~TooLate(setting.cadence, f, ev)
    <3>1. ASSUME NEW f \in Evs(Rest), Clash(f, ev)  PROVE FALSE
      <4>1. PICK t \in Tasks : Concerns(f, t) /\ Concerns(ev, t)
        BY <1>15, <3>1 DEF Clash, OfWorkflow, OfGenerator
      <4>2. t = x
        BY <1>15, <4>1 DEF Concerns, JobKinds
      <4>3. QED
        BY <1>4, <1>12, <4>1, <4>2
    <3>2. \A f : ~TooLate(setting.cadence, f, ev)
      BY <1>15 DEF TooLate
    <3>3. QED
      BY <3>1, <3>2
  <2>2. Fits(setting.cadence, Evs(Rest), Now(ev))
    BY <1>15, <2>1, FitsNow
  <2>3. QED
    BY <1>15, <1>16, <2>2, NowFacts
<1>18. /\ agenda' \in Seq(Dated) /\ Orderly(setting.cadence, agenda)' /\ Sorted'
       /\ \A a, b \in Range(agenda') : Precedes(agenda', a, b) =>
                 ~(a.ev.kind = "assigned" /\ a.ev = b.ev)
       /\ Upcoming' = Evs(Rest) \cup Evs(fs)
       /\ Range(agenda') = Range(Rest) \cup Range(fs)
  <2>1. agenda' = Schedule(Rest, fs) /\ setting' = setting
    BY <1>2, <1>7, <1>8, <1>14, <1>16
  <2>2. QED
    BY <1>17, <2>1, AgendaOne
<1>19. /\ Upcoming' = Evs(Rest) \cup {ev}
       /\ \A a \in Range(agenda') : a.ev.kind # "assigned" => a \in Range(Rest)
       /\ \A e \in Upcoming' : e # ev => ~Concerns(e, x)
  BY <1>4, <1>12, <1>15, <1>17, <1>18
<1>20. /\ SpotsInv' /\ SeqsInv' /\ PhaseInv' /\ AlarmInv' /\ JobsInv' /\ EventsInv'
       /\ \A y \in Tasks : y # x => (Engaged(y)' <=> Engaged(y))
  <2> DEFINE kind == "returned"
  <2>1. UNCHANGED <<storeVars, setting, phase, arrivals, operatorVars>> /\ agenda' \in Seq(Dated)
    BY <1>2, <1>18
  <2>2. \A e \in Upcoming' : \/ e \in Evs(Rest)
                             \/ (e.kind \in Inner /\ \A y \in Tasks : Concerns(e, y) => y = x)
    BY <1>15, <1>19 DEF Inner, JobKinds, Concerns
  <2>3. JobOK(x)'
    <3>1. JobOK(x)
      BY <1>3, <1>9 DEF JobsInv
    <3>2. jobs'[x] = jobs[x] /\ setting' = setting
      BY <1>2
    <3>3. QED
      BY <1>11, <3>1, <3>2 DEF JobOK, Windowed
  <2>4. \A e \in Upcoming' : Concerns(e, x) => EventOK(e)'
    <3>1. EventOK(ev)'
      <4>1. \A y \in Tasks : Concerns(ev, y) => y = x
        BY <1>15 DEF Concerns, JobKinds
      <4>2. jobs'[x].at = "waiting" /\ jobs'[x].stage = s
        BY <1>2, <1>11
      <4>3. QED
        BY <1>13, <1>15, <4>1, <4>2 DEF EventOK, StateOf
    <3>2. QED
      BY <1>19, <3>1
  <2>5. Happens(kind) /\ kind \in Inner
    BY DEF Inner
  <2>6. /\ Holds(x)' = Holds(x) /\ (At(x)' = At(x) \/ Holds(x) = {})
    BY <1>2 DEF Holds, At
  <2>7. /\ \A e \in Evs(Rest) : e \in Upcoming'
        /\ \A y \in Tasks : Concerns(Occurring, y) => y = x
        /\ \A y \in Tasks : y # x => jobs'[y] = jobs[y]
    BY <1>2, <1>5, <1>19
  <2> HIDE DEF kind
  <2>8. QED
    BY <1>9, <2>1, <2>2, <2>3, <2>4, <2>5, <2>6, <2>7, InnerStep
<1>21. /\ waiters'[s] = Tail(waiters[s]) /\ \A u \in WorkStates : u # s => waiters'[u] = waiters[u]
       /\ waiters' \in [WorkStates -> Seq(Tasks)]
  BY <1>6, <1>9
<1>22. WaitersInv'
  <2>1. ASSUME NEW u \in WorkStates
        PROVE  /\ IsInjective(waiters'[u])
               /\ \A y \in Range(waiters'[u]) :
                     jobs'[y].at = "waiting" /\ jobs'[y].stage = u /\ ~Engaged(y)'
    <3>1. IsInjective(waiters'[u]) /\ \A y \in Range(waiters'[u]) : y \in Range(waiters[u]) /\ y # x
      <4>1. CASE u = s
        BY <1>9, <1>11, <1>21, <4>1
      <4>2. CASE u # s
        BY <1>3, <1>11, <1>21, <4>2 DEF WaitersInv
      <4>3. QED
        BY <4>1, <4>2
    <3>2. ASSUME NEW y \in Range(waiters'[u])
          PROVE  jobs'[y].at = "waiting" /\ jobs'[y].stage = u /\ ~Engaged(y)'
      <4>1. y \in Range(waiters[u]) /\ y # x
        BY <3>1
      <4>2. waiters[u] \in Seq(Tasks)
        BY <1>6
      <4>3. y \in Tasks
        BY <4>1, <4>2, RangeOfSeq
      <4>4. QED
        BY <1>2, <1>3, <1>20, <4>1, <4>3 DEF WaitersInv
    <3>3. QED
      BY <3>1, <3>2
  <2>2. QED
    BY <2>1 DEF WaitersInv
<1>23. SignalsInv'
  <2> DEFINE X == {x}
  <2>1. /\ X \subseteq Tasks
        /\ \A y \in Tasks : y \notin X => jobs'[y] = jobs[y] /\ (Engaged(y)' <=> Engaged(y))
        /\ \A q \in Workers : \A i \in DOMAIN suspended[q] :
               suspended[q][i].of \in X => suspended[q][i].on
    BY <1>2, <1>3, <1>9, <1>11, <1>20 DEF SignalsInv
  <2>2. suspended' = suspended
    BY <1>2
  <2> HIDE DEF X
  <2>3. QED
    BY <1>3, <1>6, <2>1, <2>2, SignalsFrame
<1>24. ProcessInv'
  <2>1. process' = process /\ \A y \in Tasks : y # x => jobs'[y] = jobs[y]
    BY <1>2
  <2>2. \A e \in Upcoming : e.kind = "finish" => e \in Upcoming'
    BY <1>1, <1>4, <1>19
  <2>3. Finish(x) \notin Upcoming
    BY <1>12 DEF Finish, Concerns, JobKinds
  <2>4. \A q \in Range(Team["qa_testing"]) : Busy(q) => process[q].of # x
    BY <1>3, <1>11 DEF ProcessInv
  <2>5. jobs'[x].at # "none" /\ jobs'[x].stage = "qa_testing" =>
            /\ jobs'[x].pooled /\ jobs'[x].at \in {"waiting", "working", "routing", "done"}
            /\ jobs'[x].at = "working" =>
                 process[jobs'[x].resource].of = x /\ Busy(jobs'[x].resource)
    BY <1>2, <1>3, <1>9 DEF ProcessInv
  <2>6. QED
    BY <1>3, <1>6, <1>9, <2>1, <2>2, <2>3, <2>4, <2>5, ProcessFrame
<1>25. TimerInv'
  <2>1. "returned" \notin Delayed
    BY DEF Delayed
  <2>2. \A a \in Range(agenda') : a.ev.kind = "timer" => a \in Range(Rest)
    BY <1>19
  <2>3. QED
    BY <2>1, <2>2, TimerLate
<1>26. FlowInv'
  <2> DEFINE X == {}
  <2>1. left' \in [Tasks -> Nat]
    BY <1>2, TypesNow
  <2>2. /\ \A a \in Range(agenda') : a.ev.kind = "finish" => a \in Range(Rest)
        /\ \A e \in Upcoming' : e.kind = "worked" => e \in Evs(Rest)
    BY <1>15, <1>19
  <2>3. /\ X \subseteq Tasks
        /\ \A y \in Tasks : y \notin X
        /\ \A a : a \notin X
    OBVIOUS
  <2> HIDE DEF X
  <2>4. FlowEvents'
    BY <1>2, <1>18, <2>1, <2>2, <2>3, FlowFrame
  <2>5. QED
    BY <1>2, <1>3, <2>4, FlowStays
<1>27. /\ \A y \in Tasks : \A q : AssignedTo(y, q)' => AssignedTo(y, q) \/ (y = x /\ q = r)
       /\ \A y \in Tasks : \A q : HoldsPooled(y, q)' => HoldsPooled(y, q)
  <2>1. \A e \in Upcoming' : e \in Upcoming \/ e = ev
    BY <1>4, <1>19
  <2>2. QED
    BY <1>2, <1>15, <2>1 DEF AssignedTo, HoldsPooled
<1>28. /\ pool'[s] = Tail(pool[s]) /\ \A u \in WorkStates : u # s => pool'[u] = pool[u]
       /\ pool' \in [WorkStates -> Seq(Workers)]
  BY <1>6, <1>10
<1>29. PoolInv'
  <2>1. PICK n \in 1..Len(Team[s]) : Team[s][n] = r
    BY <1>13, TeamFacts
  <2>2. PoolUse(s, n, r)
    BY <1>1, <2>1 DEF PoolInv
  <2>3. /\ ~(n > hired[s])
        /\ \A y \in Tasks : ~AssignedTo(y, r) /\ ~HoldsPooled(y, r)
    BY <1>13, <2>2 DEF PoolUse
  <2>4. \A y \in Tasks : (AssignedTo(y, r)' => y = x) /\ ~HoldsPooled(y, r)'
    BY <1>27, <2>3
  <2>5. r \notin Range(pool'[s]) /\ hired' = hired
    BY <1>2, <1>13, <1>28
  <2>6. PoolUse(s, n, r)'
    BY <2>3, <2>4, <2>5 DEF PoolUse
  <2>7. \A m \in 1..Len(Team[s]) : Team[s][m] = r => PoolUse(s, m, r)'
    <3>1. \A m \in 1..Len(Team[s]) : Team[s][m] = r => m = n
      BY <2>1, TeamFacts
    <3>2. QED
      BY <2>6, <3>1
  <2>8. \A u \in WorkStates : IsInjective(pool[u]) /\ Range(pool[u]) \subseteq Range(Team[u])
                              /\ hired[u] <= Len(Team[u])
    BY <1>1 DEF PoolInv
  <2>9. \A u \in WorkStates : IsInjective(pool'[u]) /\ Range(pool'[u]) \subseteq Range(Team[u])
                              /\ hired'[u] <= Len(Team[u])
    BY <1>10, <1>13, <1>28, <2>5, <2>8
  <2>10. \A u \in WorkStates : \A q : q # r /\ q \in Range(pool'[u]) => q \in Range(pool[u])
    BY <1>10, <1>28
  <2>11. \A y \in Tasks : \A q : q # r => /\ AssignedTo(y, q)' => AssignedTo(y, q)
                                          /\ HoldsPooled(y, q)' => HoldsPooled(y, q)
    BY <1>27
  <2>12. /\ hired \in [WorkStates -> Nat] /\ hired' \in [WorkStates -> Nat]
         /\ \A u \in WorkStates : hired[u] <= hired'[u]
    BY <1>6, <2>5
  <2>13. \A a, b \in Range(agenda') : Precedes(agenda', a, b) =>
                 ~(a.ev.kind = "assigned" /\ a.ev = b.ev)
    BY <1>18
  <2>14. PoolInv /\ r \in Range(Team[s])
    BY <1>1, <1>13
  <2>15. QED
    BY <2>7, <2>9, <2>10, <2>11, <2>12, <2>13, <2>14, PoolMove
<1>30. TypeInv'
  <2>1. phase' \in {"seeding", "running", "stopped"}
    BY <1>1, <1>2, TypesNow
  <2>2. QED
    BY <1>2, <1>18, <1>21, <1>28, <2>1, TypesNow, TypeStep
<1>31. \A t \in Tasks : Moves(t)
  BY <1>2 DEF Moves
<1>32. QED
  BY <1>18, <1>20, <1>22, <1>23, <1>24, <1>25, <1>26, <1>29, <1>30, <1>31 DEF KInv, LiveInv

(* A resource that is returned is given to the first request.              *)
LEMMA PoolServesKeeps ==
  ASSUME KInv, PoolServes
  PROVE  KInv' /\ \A t \in Tasks : Moves(t)
<1>1. PICK s : s = Occurring.stage
  OBVIOUS
<1>2. Happens("returned")
  BY DEF PoolServes
<1>3. s \in WorkStates
  <2>1. Occurring \in Events /\ Occurring.kind = "returned"
    BY <1>2, Begin, BeginAgenda
  <2>2. QED
    BY <1>1, <2>1, EventFields
<1>4. CASE pool[s] # <<>> /\ waiters[s] # <<>>
  <2>1. /\ agenda' = Schedule(Rest, <<Now(Assigned(Head(waiters[s]), Head(pool[s])))>>)
        /\ pool' = [pool EXCEPT ![s] = Tail(@)]
        /\ waiters' = [waiters EXCEPT ![s] = Tail(@)]
        /\ UNCHANGED <<raised, storeVars, resourceVars, phase, arrivals, operatorVars, hired, owners>>
    BY <1>1, <1>4 DEF PoolServes
  <2>2. QED
    BY <1>2, <1>3, <1>4, <2>1, WaiterServed
<1>5. CASE ~(pool[s] # <<>> /\ waiters[s] # <<>>)
  <2>1. agenda' = Rest
        /\ UNCHANGED <<raised, storeVars, resourceVars, phase, arrivals, operatorVars, poolVars>>
    BY <1>1, <1>5 DEF PoolServes, poolVars
  <2>2. QED
    BY <1>2, <2>1, NothingServed
<1>6. QED
  BY <1>4, <1>5

-----------------------------------------------------------------------------
(* How long work takes, and the stack of signals of a resource.            *)

(* The sum over a batch is a number; for one task it is the task's.        *)
LEMMA TotalFacts ==
  ASSUME NEW f, NEW b \in Seq(Tasks), \A t \in Tasks : f[t] \in Nat
  PROVE  /\ Total(f, b) \in Nat
         /\ \A x \in Tasks : b = <<x>> => Total(f, b) = f[x]
<1>1. PICK work : work = [i \in DOMAIN b |-> f[b[i]]]
  OBVIOUS
<1>2. Total(f, b) = SumOf(work, DOMAIN b)
  BY <1>1 DEF Total, SumOf
<1>3. DOMAIN b = 1..Len(b) /\ Len(b) \in Nat /\ IsFiniteSet(DOMAIN b)
  BY FS_Interval
<1>4. \A i \in DOMAIN b : work[i] \in Nat
  BY <1>1, <1>3
<1>5. Total(f, b) \in Nat
  BY <1>2, <1>3, <1>4, SumType
<1>6. ASSUME NEW x \in Tasks, b = <<x>>  PROVE Total(f, b) = f[x]
  <2>1. DOMAIN b = {1} /\ work[1] = f[x]
    BY <1>1, <1>6
  <2>2. IsFiniteSet({1}) /\ IsFiniteSet({}) /\ {1} \ {1} = {} /\ 1 \in {1}
    BY FS_Singleton, FS_EmptySet
  <2>3. SumOf(work, {}) = 0
    BY <2>2, SumEquation
  <2>4. \A i \in {1} : work[i] \in Nat
    BY <1>4, <2>1
  <2>5. SumOf(work, {1}) = work[1] + SumOf(work, {1} \ {1})
    BY <2>2, <2>4, SumRemove
  <2>6. work[1] \in Nat /\ {1} \ {1} = {}
    BY <2>2, <2>4
  <2>8. SumOf(work, {1}) = work[1]
    <3>1. SumOf(work, {1} \ {1}) = 0
      BY <2>3, <2>6
    <3>2. QED
      BY <2>5, <2>6, <3>1
  <2>9. QED
    BY <1>2, <2>1, <2>8
<1>7. QED
  BY <1>5, <1>6

(* The time a work takes is a number: for a developer what is left.        *)
LEMMA WorkTimeFacts ==
  ASSUME KInv, NEW s \in WorkStates, NEW b \in Seq(Tasks)
  PROVE  /\ WorkTime(s, b) \in Nat
         /\ \A x \in Tasks : s = "development" /\ b = <<x>> => WorkTime(s, b) = left[x]
<1>1. left \in [Tasks -> Nat] /\ setting \in Settings
  BY TypesNow
<1>2. Total(left, b) \in Nat /\ \A x \in Tasks : b = <<x>> => Total(left, b) = left[x]
  BY <1>1, TotalFacts
<1>3. PICK f : f = [t \in Tasks |-> Points(t) * setting.testing]
  OBVIOUS
<1>4. ASSUME NEW t \in Tasks  PROVE f[t] \in Nat
  <2>1. Points(t) \in Nat /\ setting.testing \in Nat
    BY <1>1, SettingFacts
  <2>2. \A m, n \in Nat : m * n \in Nat
    OBVIOUS
  <2>3. QED
    BY <1>3, <2>1, <2>2
<1>5. Total(f, b) \in Nat
  BY <1>4, TotalFacts
<1>6. setting.deployment \in Nat
  BY <1>1, SettingFacts
<1>7. QED
  BY <1>2, <1>3, <1>5, <1>6 DEF WorkTime, WorkStates

(* A stack without its top.                                                *)
LEMMA FrontFacts ==
  ASSUME NEW S, NEW q \in Seq(S)
  PROVE  /\ Front(q) \in Seq(S)
         /\ \A i \in DOMAIN Front(q) : i \in DOMAIN q /\ Front(q)[i] = q[i]
<1>1. CASE q = <<>>
  BY <1>1 DEF Front
<1>2. CASE q # <<>>
  BY <1>2 DEF Front
<1>3. QED
  BY <1>1, <1>2

(* The signals, and one that is not triggered.                             *)
SignalRecords == [of : Tasks, on : BOOLEAN]
Off(x) == [of |-> x, on |-> FALSE]

(* A job waits again, with its signal on top of the others.                *)
Resignals(x, r, base) ==
    /\ \A i \in DOMAIN base : i \in DOMAIN suspended[r] /\ base[i] = suspended[r][i]
    /\ suspended' = [suspended EXCEPT ![r] = Append(base, Off(x))]
    /\ \A q \in Workers : \A i \in DOMAIN suspended[q] :
          suspended[q][i].of = x => suspended[q][i].on
    /\ \A y \in Tasks : y # x => jobs'[y] = jobs[y] /\ (Engaged(y)' <=> Engaged(y))
    /\ jobs'[x].at = "paused" /\ jobs'[x].resource = r /\ ~Engaged(x)'

(* The stack has one open signal per paused job.                           *)
LEMMA SignalAdded ==
  ASSUME SignalsInv, NEW x \in Tasks, NEW r \in Workers,
         suspended \in [Workers -> Seq(SignalRecords)],
         NEW base \in Seq(SignalRecords), Resignals(x, r, base)
  PROVE  /\ SignalsInv'
         /\ suspended' \in [Workers -> Seq(SignalRecords)]
<1>0. /\ \A i \in DOMAIN base : i \in DOMAIN suspended[r] /\ base[i] = suspended[r][i]
      /\ suspended' = [suspended EXCEPT ![r] = Append(base, Off(x))]
      /\ \A q \in Workers : \A i \in DOMAIN suspended[q] :
            suspended[q][i].of = x => suspended[q][i].on
      /\ \A y \in Tasks : y # x => jobs'[y] = jobs[y] /\ (Engaged(y)' <=> Engaged(y))
      /\ jobs'[x].at = "paused" /\ jobs'[x].resource = r /\ ~Engaged(x)'
  BY DEF Resignals
<1> DEFINE R == SignalRecords
           e == Off(x)
<1>1. e \in R /\ e.of = x /\ ~e.on
  BY DEF SignalRecords, Off
<1>2. base \in Seq(R) /\ suspended \in [Workers -> Seq(R)]
  OBVIOUS
<1>3. suspended' = [suspended EXCEPT ![r] = Append(base, e)]
  BY <1>0
<1> HIDE DEF R, e
<1>4. Append(base, e) \in Seq(R)
  BY <1>1, <1>2
<1>5. /\ suspended'[r] = Append(base, e) /\ suspended' \in [Workers -> Seq(R)]
      /\ \A q \in Workers : q # r => suspended'[q] = suspended[q]
  BY <1>2, <1>3, <1>4
<1>6. ASSUME NEW q \in Workers, NEW i \in DOMAIN suspended'[q]
      PROVE  \/ i \in DOMAIN suspended[q] /\ suspended'[q][i] = suspended[q][i]
             \/ q = r /\ i = Len(base) + 1 /\ suspended'[q][i] = e
  <2>1. CASE q # r
    BY <1>5, <1>6, <2>1
  <2>2. CASE q = r
    <3>1. i \in 1..Len(base) + 1 /\ Len(base) \in Nat
      BY <1>1, <1>2, <1>5, <1>6, <2>2
    <3>2. CASE i = Len(base) + 1
      BY <1>1, <1>2, <1>5, <2>2, <3>2
    <3>3. CASE i # Len(base) + 1
      <4>1. i \in 1..Len(base) /\ i \in DOMAIN base
        BY <1>2, <3>1, <3>3
      <4>2. suspended'[q][i] = base[i]
        BY <1>1, <1>2, <1>5, <2>2, <4>1
      <4>3. QED
        BY <1>0, <2>2, <4>1, <4>2
    <3>4. QED
      BY <3>2, <3>3
  <2>3. QED
    BY <2>1, <2>2
<1>7. ASSUME NEW q \in Workers, NEW i \in DOMAIN suspended'[q], ~suspended'[q][i].on,
             NEW y, y = suspended'[q][i].of
      PROVE  /\ jobs'[y].at = "paused" /\ jobs'[y].resource = q /\ ~Engaged(y)'
             /\ \A j \in DOMAIN suspended'[q] :
                   suspended'[q][j].of = y /\ ~suspended'[q][j].on => i = j
  <2>1. CASE q = r /\ i = Len(base) + 1 /\ suspended'[q][i] = e
    <3>1. y = x
      BY <1>1, <1>7, <2>1
    <3>2. ASSUME NEW j \in DOMAIN suspended'[q], suspended'[q][j].of = x, ~suspended'[q][j].on
          PROVE  i = j
      BY <1>0, <1>6, <2>1, <3>2
    <3>3. /\ jobs'[x].at = "paused" /\ jobs'[x].resource = q /\ ~Engaged(x)'
      BY <1>0, <2>1
    <3>4. QED
      BY <3>1, <3>2, <3>3
  <2>2. CASE i \in DOMAIN suspended[q] /\ suspended'[q][i] = suspended[q][i]
    <3>1. y = suspended[q][i].of
      BY <1>7, <2>2
    <3>2. y # x
      BY <1>0, <1>7, <2>2, <3>1
    <3>3. suspended[q] \in Seq(R)
      BY <1>2
    <3>4. suspended[q][i] \in R
      <4> DEFINE z == suspended[q]
      <4>1. z \in Seq(R) /\ i \in DOMAIN z
        BY <2>2, <3>3
      <4> HIDE DEF z
      <4>2. z[i] \in R
        BY <4>1
      <4>3. QED
        BY <4>2 DEF z
    <3>5. y \in Tasks
      BY <3>1, <3>4 DEF R, SignalRecords
    <3>6. /\ jobs[y].at = "paused" /\ jobs[y].resource = q /\ ~Engaged(y)
          /\ \A j \in DOMAIN suspended[q] :
                suspended[q][j].of = y /\ ~suspended[q][j].on => i = j
      BY <1>7, <2>2, <3>1 DEF SignalsInv
    <3>7. jobs'[y].at = "paused" /\ jobs'[y].resource = q /\ ~Engaged(y)'
      BY <1>0, <3>2, <3>5, <3>6
    <3>8. ASSUME NEW j \in DOMAIN suspended'[q], suspended'[q][j].of = y, ~suspended'[q][j].on
          PROVE  i = j
      <4>1. suspended'[q][j] # e
        BY <1>1, <3>2, <3>8
      <4>2. j \in DOMAIN suspended[q] /\ suspended'[q][j] = suspended[q][j]
        BY <1>6, <3>8, <4>1
      <4>3. QED
        BY <3>6, <3>8, <4>2
    <3>9. QED
      BY <3>7, <3>8
  <2>3. \/ i \in DOMAIN suspended[q] /\ suspended'[q][i] = suspended[q][i]
        \/ q = r /\ i = Len(base) + 1 /\ suspended'[q][i] = e
    BY <1>6
  <2>4. QED
    BY <2>1, <2>2, <2>3
<1>8. SignalsInv'
  BY <1>7 DEF SignalsInv
<1>9. QED
  BY <1>5, <1>8 DEF R

-----------------------------------------------------------------------------
(* A job waits until what came in between is finished (resource.py).       *)

(* What an event about a job, and the job it is about, are like.           *)
LEMMA JobEvent ==
  ASSUME KInv, NEW kind, Happens(kind), kind \in JobKinds
  PROVE  /\ Occurring.job \in Tasks /\ Concerns(Occurring, Occurring.job)
         /\ Occurring.kind = kind
         /\ \A y : Concerns(Occurring, y) => y = Occurring.job
<1>1. Occurring.kind = kind /\ Occurring \in Events
  BY Begin, BeginAgenda
<1>2. QED
  BY <1>1, EventFields DEF JobKinds, Concerns

(* The job x pauses at its resource r, whose stack is cut back to base.    *)
PauseStep(x, r, base) ==
    /\ x = Occurring.job /\ r = jobs[x].resource /\ jobs[x].stage # "qa_testing"
    /\ \A i \in DOMAIN base : i \in DOMAIN suspended[r] /\ base[i] = suspended[r][i]
    /\ suspended' = [suspended EXCEPT ![r] = Append(base, Off(x))]
    /\ jobs' = [jobs EXCEPT ![x].at = "paused"]
    /\ agenda' = Rest
    /\ raised' \subseteq {"runaway"}
    /\ UNCHANGED <<storeVars, setting, left, rework, process, failures,
                   phase, arrivals, operatorVars, poolVars>>

(* A job pauses, with or without taking a signal from the stack first.     *)
LEMMA Pausing ==
  ASSUME KInv, NEW kind, Happens(kind), kind \in {"worked", "wake"}, NEW x \in Tasks,
         NEW r \in Workers, NEW base \in Seq(SignalRecords), PauseStep(x, r, base)
  PROVE  KInv' /\ \A t \in Tasks : Moves(t)
<1>0. /\ x = Occurring.job /\ r = jobs[x].resource /\ jobs[x].stage # "qa_testing"
      /\ \A i \in DOMAIN base : i \in DOMAIN suspended[r] /\ base[i] = suspended[r][i]
      /\ suspended' = [suspended EXCEPT ![r] = Append(base, Off(x))]
      /\ jobs' = [jobs EXCEPT ![x].at = "paused"]
      /\ agenda' = Rest
      /\ raised' \subseteq {"runaway"}
      /\ UNCHANGED <<storeVars, setting, left, rework, process, failures,
                     phase, arrivals, operatorVars, poolVars>>
  BY DEF PauseStep
<1>1. /\ Live /\ LiveInv /\ Occurring.kind = kind /\ phase # "over" /\ PoolInv
  BY Begin
<1>2. /\ setting' = setting /\ phase' = phase /\ arrivals' = arrivals
      /\ history' = history /\ items' = items /\ alarm' = alarm /\ queue' = queue
      /\ listening' = listening /\ awaiting' = awaiting /\ left' = left /\ process' = process
      /\ rework' = rework /\ failures' = failures
      /\ hired' = hired /\ owners' = owners /\ pool' = pool /\ waiters' = waiters
  BY <1>0 DEF storeVars, operatorVars, poolVars
<1>3. /\ WaitersInv /\ SignalsInv /\ ProcessInv /\ FlowInv /\ JobsInv /\ EventsInv
  BY <1>1 DEF LiveInv
<1>4. /\ Rest \in Seq(Dated) /\ Upcoming = {Occurring} \cup Evs(Rest) /\ Evs(Rest) \subseteq Events
  BY BeginAgenda
<1>5. Concerns(Occurring, x)
  BY <1>0, <1>1 DEF Concerns, JobKinds
<1>6. /\ jobs[x].at \in {"working", "paused"} /\ \A y : Concerns(Occurring, y) => y = x
      /\ \A e \in Evs(Rest) : ~Concerns(e, x)
      /\ \A e \in Upcoming : Concerns(e, x) => e = Occurring
      /\ \A s \in WorkStates : x \notin Range(waiters[s])
      /\ \A q \in Workers : \A i \in DOMAIN suspended[q] :
            suspended[q][i].of = x => suspended[q][i].on
  BY <1>1, <1>5, HeadJob DEF StateOf
<1>7. /\ jobs[x] \in JobRecords /\ jobs[x].stage \in WorkStates
      /\ r \in Range(Team[jobs[x].stage]) /\ JobOK(x)
  BY <1>0, <1>1, <1>6, JobFacts
<1>8. /\ waiters \in [WorkStates -> Seq(Tasks)]
      /\ process \in [Workers -> Processes]
      /\ suspended \in [Workers -> Seq(SignalRecords)]
      /\ jobs \in [Tasks -> {NoJob} \cup JobRecords]
  BY TypesNow DEF SignalRecords
<1>9. PICK job : job = [jobs[x] EXCEPT !.at = "paused"]
  OBVIOUS
<1>10. /\ job \in JobRecords /\ job.at = "paused" /\ job.stage = jobs[x].stage
       /\ job.batch = jobs[x].batch /\ job.todo = jobs[x].todo /\ job.resource = r
       /\ job.pooled = jobs[x].pooled
  BY <1>0, <1>7, <1>9 DEF JobRecords
<1>11. /\ jobs'[x] = job /\ \A y \in Tasks : y # x => jobs'[y] = jobs[y]
       /\ jobs' \in [Tasks -> {NoJob} \cup JobRecords]
  BY <1>0, <1>8, <1>9, <1>10
<1>12. /\ agenda' \in Seq(Dated) /\ Orderly(setting.cadence, agenda)' /\ Sorted'
       /\ \A a, b \in Range(agenda') : Precedes(agenda', a, b) =>
                 ~(a.ev.kind = "assigned" /\ a.ev = b.ev)
       /\ Upcoming' = Evs(Rest) /\ Range(agenda') = Range(Rest)
  BY <1>0, <1>2, AgendaNone
<1>13. \A e \in Upcoming' : e \in Upcoming /\ ~Concerns(e, x)
  BY <1>4, <1>6, <1>12
<1>14. ~Engaged(x)'
  BY <1>13 DEF Engaged
<1>15. JobOK(x)'
  BY <1>0, <1>2, <1>6, <1>7, <1>10, <1>11 DEF JobOK, Windowed
<1>16. /\ SpotsInv' /\ SeqsInv' /\ PhaseInv' /\ AlarmInv' /\ JobsInv' /\ EventsInv'
       /\ \A y \in Tasks : y # x => (Engaged(y)' <=> Engaged(y))
  <2>1. UNCHANGED <<storeVars, setting, phase, arrivals, operatorVars>>
    BY <1>0
  <2>2. /\ \A e \in Upcoming' : \/ e \in Evs(Rest)
                                \/ (e.kind \in Inner /\ \A y \in Tasks : Concerns(e, y) => y = x)
        /\ \A e \in Evs(Rest) : e \in Upcoming'
    BY <1>12
  <2>3. kind \in Inner
    BY DEF Inner, JobKinds
  <2>4. Holds(x)' = Holds(x) /\ (At(x)' = At(x) \/ Holds(x) = {})
    BY <1>6, <1>10, <1>11 DEF Holds, At
  <2>5. \A e \in Upcoming' : Concerns(e, x) => EventOK(e)'
    BY <1>13
  <2>6. /\ agenda' \in Seq(Dated) /\ \A y \in Tasks : Concerns(Occurring, y) => y = x
        /\ \A y \in Tasks : y # x => jobs'[y] = jobs[y]
    BY <1>6, <1>11, <1>12
  <2>7. QED
    BY <1>15, <2>1, <2>2, <2>3, <2>4, <2>5, <2>6, InnerStep
<1>17. WaitersInv'
  <2> DEFINE X == {x}
  <2>1. /\ X \subseteq Tasks
        /\ \A y \in Tasks : y \notin X => jobs'[y] = jobs[y] /\ (Engaged(y)' <=> Engaged(y))
        /\ \A y \in X, s \in WorkStates : y \notin Range(waiters[s])
    BY <1>6, <1>11, <1>16
  <2> HIDE DEF X
  <2>2. QED
    BY <1>2, <1>3, <1>8, <2>1, WaitersFrame
<1>18. SignalsInv' /\ suspended' \in [Workers -> Seq(SignalRecords)]
  <2>1. /\ \A y \in Tasks : y # x => jobs'[y] = jobs[y] /\ (Engaged(y)' <=> Engaged(y))
        /\ jobs'[x].at = "paused" /\ jobs'[x].resource = r
    BY <1>10, <1>11, <1>16
  <2>2. \A q \in Workers : \A i \in DOMAIN suspended[q] :
            suspended[q][i].of = x => suspended[q][i].on
    BY <1>6
  <2>3. SignalsInv /\ suspended \in [Workers -> Seq(SignalRecords)]
    BY <1>3, <1>8
  <2>4. Resignals(x, r, base)
    BY <1>0, <1>14, <2>1, <2>2 DEF Resignals
  <2>5. QED
    BY <2>3, <2>4, SignalAdded
<1>19. ProcessInv'
  <2>1. \A e \in Upcoming : e.kind = "finish" => e \in Upcoming'
    BY <1>1, <1>4, <1>12
  <2>2. Finish(x) \notin Upcoming
    <3>1. Concerns(Finish(x), x) /\ Finish(x).kind = "finish"
      BY DEF Finish, Concerns, JobKinds
    <3>2. QED
      BY <1>1, <1>6, <3>1
  <2>3. \A q \in Range(Team["qa_testing"]) : Busy(q) => process[q].of # x
    <3>1. ASSUME NEW q \in Range(Team["qa_testing"]), Busy(q), process[q].of = x  PROVE FALSE
      <4>1. jobs[x].resource = q
        BY <1>3, <3>1 DEF ProcessInv
      <4>2. QED
        BY <1>0, <1>7, <4>1, TeamFacts, Strings
    <3>2. QED
      BY <3>1
  <2>4. jobs'[x].at # "none" /\ jobs'[x].stage = "qa_testing" =>
            /\ jobs'[x].pooled /\ jobs'[x].at \in {"waiting", "working", "routing", "done"}
            /\ jobs'[x].at = "working" =>
                 process[jobs'[x].resource].of = x /\ Busy(jobs'[x].resource)
    BY <1>0, <1>10, <1>11
  <2>5. QED
    BY <1>2, <1>3, <1>8, <1>11, <2>1, <2>2, <2>3, <2>4, ProcessFrame
<1>20. TimerInv'
  <2>1. kind \notin Delayed
    BY DEF Delayed
  <2>2. \A a \in Range(agenda') : a.ev.kind = "timer" => a \in Range(Rest)
    BY <1>12
  <2>3. QED
    BY <2>1, <2>2, TimerLate
<1>21. FlowInv'
  <2> DEFINE X == {x}
  <2>1. left' \in [Tasks -> Nat]
    BY <1>2, TypesNow
  <2>2. /\ \A a \in Range(agenda') : a.ev.kind = "finish" => a \in Range(Rest)
        /\ \A e \in Upcoming' : e.kind = "worked" => e \in Evs(Rest)
    BY <1>12
  <2>3. \A e \in Upcoming' : e.kind \in {"finish", "worked"} => e.job # x
    BY <1>13 DEF Concerns, JobKinds
  <2>4. \A a \in Range(agenda') : a.ev \in Upcoming'
    BY EvsRange DEF Upcoming
  <2>5. /\ X \subseteq Tasks
        /\ \A y \in Tasks : y \notin X => jobs'[y] = jobs[y]
        /\ \A a \in Range(agenda') : a.ev.kind = "finish" => a.ev.job \notin X
        /\ \A e \in Upcoming' : e.kind = "worked" => e.job \notin X
    BY <1>11, <2>3, <2>4
  <2> HIDE DEF X
  <2>6. FlowEvents'
    BY <1>2, <1>12, <2>1, <2>2, <2>5, FlowFrame
  <2>7. QED
    BY <1>2, <1>3, <2>6, FlowStays
<1>22. PoolInv'
  <2>1. /\ \A y \in Tasks, q \in Workers : AssignedTo(y, q)' => AssignedTo(y, q)
    BY <1>13 DEF AssignedTo
  <2>2. /\ \A y \in Tasks, q \in Workers : HoldsPooled(y, q)' => HoldsPooled(y, q)
    BY <1>0, <1>6, <1>10, <1>11 DEF HoldsPooled
  <2>3. QED
    BY <1>1, <1>2, <1>12, <2>1, <2>2, PoolFrame
<1>23. TypeInv'
  <2>1. phase' \in {"seeding", "running", "stopped"}
    BY <1>1, <1>2, TypesNow
  <2>2. raised' \subseteq {"put after alarm", "interrupts terminated process", "runaway",
                            "signal triggered twice", "value is not available", "unknown owner"}
    BY <1>0
  <2>3. QED
    BY <1>2, <1>11, <1>12, <1>18, <2>1, <2>2, TypesNow, TypeStep DEF SignalRecords
<1>24. \A t \in Tasks : Moves(t)
  BY <1>2 DEF Moves
<1>25. QED
  BY <1>12, <1>16, <1>17, <1>18, <1>19, <1>20, <1>21, <1>22, <1>23, <1>24 DEF KInv, LiveInv

(* operate learns of the interruption and pauses.                          *)
LEMMA InterruptedPausesKeeps ==
  ASSUME KInv, InterruptedPauses, UNCHANGED <<phase, arrivals, operatorVars, poolVars>>
  PROVE  KInv' /\ \A t \in Tasks : Moves(t)
<1>1. PICK x : x = Occurring.job
  OBVIOUS
<1>2. PICK r : r = jobs[x].resource
  OBVIOUS
<1>3. /\ Happens("worked") /\ Occurring.how = "interrupted"
      /\ suspended' = [suspended EXCEPT ![r] = Append(suspended[r], Off(x))]
      /\ raised' = PauseRaises(r)
      /\ jobs' = [jobs EXCEPT ![x].at = "paused"]
      /\ agenda' = Rest
      /\ UNCHANGED <<storeVars, setting, left, rework, process, failures>>
  BY <1>1, <1>2 DEF InterruptedPauses, Pause, Off
<1>4. Live /\ FlowInv /\ Occurring.kind = "worked"
  BY <1>3, Begin DEF LiveInv
<1>5. x \in Tasks /\ Concerns(Occurring, x)
  BY <1>1, <1>3, JobEvent DEF JobKinds
<1>6. jobs[x].at = "working"
  BY <1>3, <1>4, <1>5, HeadJob DEF StateOf
<1>7. Occurring \in Upcoming
  BY <1>3, BeginAgenda
<1>8. jobs[x].stage # "qa_testing"
  BY <1>1, <1>3, <1>4, <1>7 DEF FlowInv
<1>9. r \in Workers
  BY <1>2, <1>4, <1>5, <1>6, JobFacts
<1>10. suspended[r] \in Seq(SignalRecords)
  BY <1>9, TypesNow DEF SignalRecords
<1>11. raised' \subseteq {"runaway"}
  BY <1>3 DEF PauseRaises
<1>12. PICK base : base = suspended[r]
  OBVIOUS
<1>13. /\ base \in Seq(SignalRecords)
       /\ \A i \in DOMAIN base : i \in DOMAIN suspended[r] /\ base[i] = suspended[r][i]
       /\ suspended' = [suspended EXCEPT ![r] = Append(base, Off(x))]
  BY <1>3, <1>10, <1>12
<1>14. PICK kind : kind = "worked"
  OBVIOUS
<1>15. Happens(kind) /\ kind \in {"worked", "wake"}
  BY <1>3, <1>14
<1>16. PauseStep(x, r, base)
  BY <1>1, <1>2, <1>3, <1>8, <1>11, <1>13 DEF PauseStep
<1>17. QED
  BY <1>5, <1>9, <1>13, <1>15, <1>16, Pausing

-----------------------------------------------------------------------------
(* A job goes on without touching its tasks.                               *)

(* A job waits for its next event.                                         *)
JobGoesOn(x, ev, d) ==
    /\ x = Occurring.job
    /\ ev \in Events /\ ev.kind \in {"resumed", "finish", "worked"} /\ ev.job = x
    /\ d \in Nat /\ (ev.kind # "finish" => d = 0)
    /\ agenda' = Schedule(Rest, <<After(d, ev)>>)
    /\ jobs' = [jobs EXCEPT ![x].at = StateOf(ev)]
    /\ UNCHANGED <<storeVars, setting, phase, arrivals, operatorVars, poolVars>>

(* Such a step keeps everything but processes, signals and remaining work. *)
LEMMA GoingOn ==
  ASSUME KInv, NEW kind, Happens(kind), kind \in {"wake", "resumed", "finish"},
         NEW x \in Tasks, NEW ev, NEW d, JobGoesOn(x, ev, d)
  PROVE  /\ agenda' \in Seq(Dated) /\ Orderly(setting.cadence, agenda)' /\ Sorted'
         /\ Upcoming' = Evs(Rest) \cup {ev}
         /\ Range(agenda') = Range(Rest) \cup {After(d, ev)}
         /\ SpotsInv' /\ SeqsInv' /\ PhaseInv' /\ AlarmInv' /\ JobsInv' /\ EventsInv'
         /\ WaitersInv' /\ TimerInv' /\ PoolInv' /\ (suspended' = suspended => SignalsInv')
         /\ \A e \in Evs(Rest) : ~Concerns(e, x)
         /\ jobs[x].at \in {"paused", "resuming", "working"}
         /\ jobs'[x].at = StateOf(ev) /\ jobs'[x].resource = jobs[x].resource
         /\ jobs'[x].stage = jobs[x].stage /\ jobs'[x].pooled = jobs[x].pooled
         /\ \A y \in Tasks : y # x => jobs'[y] = jobs[y] /\ (Engaged(y)' <=> Engaged(y))
         /\ jobs' \in [Tasks -> {NoJob} \cup JobRecords]
         /\ \A q \in Workers : \A i \in DOMAIN suspended[q] :
               suspended[q][i].of = x => suspended[q][i].on
<1>0. /\ x = Occurring.job
      /\ ev \in Events /\ ev.kind \in {"resumed", "finish", "worked"} /\ ev.job = x
      /\ d \in Nat /\ (ev.kind # "finish" => d = 0)
      /\ agenda' = Schedule(Rest, <<After(d, ev)>>)
      /\ jobs' = [jobs EXCEPT ![x].at = StateOf(ev)]
      /\ UNCHANGED <<storeVars, setting, phase, arrivals, operatorVars, poolVars>>
  BY DEF JobGoesOn
<1>1. /\ Live /\ LiveInv /\ Occurring.kind = kind /\ phase # "over" /\ PoolInv
  BY Begin
<1>2. /\ setting' = setting /\ phase' = phase /\ arrivals' = arrivals
      /\ history' = history /\ items' = items /\ alarm' = alarm /\ queue' = queue
      /\ listening' = listening /\ awaiting' = awaiting
      /\ hired' = hired /\ owners' = owners /\ pool' = pool /\ waiters' = waiters
  BY <1>0 DEF storeVars, operatorVars, poolVars
<1>3. /\ WaitersInv /\ SignalsInv /\ ProcessInv /\ FlowInv /\ JobsInv /\ EventsInv
  BY <1>1 DEF LiveInv
<1>4. /\ Rest \in Seq(Dated) /\ Upcoming = {Occurring} \cup Evs(Rest) /\ Evs(Rest) \subseteq Events
  BY BeginAgenda
<1>5. Concerns(Occurring, x)
  BY <1>0, <1>1 DEF Concerns, JobKinds
<1>6. /\ jobs[x].at \in {"working", "paused", "resuming"} /\ \A y : Concerns(Occurring, y) => y = x
      /\ \A e \in Evs(Rest) : ~Concerns(e, x)
      /\ \A s \in WorkStates : x \notin Range(waiters[s])
      /\ \A q \in Workers : \A i \in DOMAIN suspended[q] :
            suspended[q][i].of = x => suspended[q][i].on
  BY <1>1, <1>5, HeadJob DEF StateOf
<1>7. /\ jobs[x] \in JobRecords /\ jobs[x].stage \in WorkStates
      /\ jobs[x].resource \in Range(Team[jobs[x].stage]) /\ JobOK(x)
  BY <1>1, <1>6, JobFacts
<1>8. /\ waiters \in [WorkStates -> Seq(Tasks)]
      /\ process \in [Workers -> Processes]
      /\ suspended \in [Workers -> Seq([of : Tasks, on : BOOLEAN])]
      /\ jobs \in [Tasks -> {NoJob} \cup JobRecords]
  BY TypesNow
<1>9. PICK job : job = [jobs[x] EXCEPT !.at = StateOf(ev)]
  OBVIOUS
<1>10. /\ job \in JobRecords /\ job.at = StateOf(ev) /\ job.stage = jobs[x].stage
       /\ job.batch = jobs[x].batch /\ job.todo = jobs[x].todo
       /\ job.resource = jobs[x].resource /\ job.pooled = jobs[x].pooled
       /\ job.at \in {"resuming", "working"}
  BY <1>0, <1>7, <1>9 DEF JobRecords, StateOf
<1>11. /\ jobs'[x] = job /\ \A y \in Tasks : y # x => jobs'[y] = jobs[y]
       /\ jobs' \in [Tasks -> {NoJob} \cup JobRecords]
  BY <1>0, <1>8, <1>9, <1>10
<1>12. PICK fs : fs = <<After(d, ev)>>
  OBVIOUS
<1>13. /\ OneOrNone(fs) /\ Range(fs) = {After(d, ev)} /\ Evs(fs) = {ev}
       /\ After(d, ev).ev = ev /\ After(d, ev).due = d /\ Now(ev) = After(0, ev)
  BY <1>0, <1>12, OneOrNoneFacts
<1>14. \A e \in Range(fs) : Fits(setting.cadence, Evs(Rest), e)
  <2>1. \A f \in Evs(Rest) : ~Clash(f, ev) /\ ~TooLate(setting.cadence, f, ev)
    <3>1. ASSUME NEW f \in Evs(Rest), Clash(f, ev)  PROVE FALSE
      <4>1. PICK t \in Tasks : Concerns(f, t) /\ Concerns(ev, t)
        BY <1>0, <3>1 DEF Clash, OfWorkflow, OfGenerator
      <4>2. t = x
        BY <1>0, <4>1 DEF Concerns, JobKinds
      <4>3. QED
        BY <1>6, <4>1, <4>2
    <3>2. \A f : ~TooLate(setting.cadence, f, ev)
      BY <1>0 DEF TooLate
    <3>3. QED
      BY <3>1, <3>2
  <2>2. Fits(setting.cadence, Evs(Rest), After(d, ev))
    <3>1. CASE ev.kind = "finish"
      <4>1. ev.kind \in Delayed /\ ev.kind # "timer" /\ d \in Nat /\ ev \in Events
        BY <1>0, <3>1 DEF Delayed
      <4>2. \A f \in Evs(Rest) : ~Clash(f, ev)
        BY <2>1
      <4>3. QED
        BY <4>1, <4>2, FitsAfter
    <3>2. CASE ev.kind # "finish"
      <4>1. Fits(setting.cadence, Evs(Rest), Now(ev))
        BY <1>0, <2>1, FitsNow
      <4>2. QED
        BY <1>0, <1>13, <3>2, <4>1
    <3>3. QED
      BY <3>1, <3>2
  <2>3. QED
    BY <1>13, <2>2
<1>15. /\ agenda' \in Seq(Dated) /\ Orderly(setting.cadence, agenda)' /\ Sorted'
       /\ \A a, b \in Range(agenda') : Precedes(agenda', a, b) =>
                 ~(a.ev.kind = "assigned" /\ a.ev = b.ev)
       /\ Upcoming' = Evs(Rest) \cup Evs(fs)
       /\ Range(agenda') = Range(Rest) \cup Range(fs)
  <2>1. agenda' = Schedule(Rest, fs) /\ setting' = setting
    BY <1>0, <1>2, <1>12
  <2>2. QED
    BY <1>13, <1>14, <2>1, AgendaOne
<1>16. Upcoming' = Evs(Rest) \cup {ev} /\ Range(agenda') = Range(Rest) \cup {After(d, ev)}
  BY <1>13, <1>15
<1>17. JobOK(x)'
  BY <1>2, <1>6, <1>7, <1>10, <1>11 DEF JobOK, Windowed
<1>18. /\ SpotsInv' /\ SeqsInv' /\ PhaseInv' /\ AlarmInv' /\ JobsInv' /\ EventsInv'
       /\ \A y \in Tasks : y # x => (Engaged(y)' <=> Engaged(y))
  <2>1. UNCHANGED <<storeVars, setting, phase, arrivals, operatorVars>>
    BY <1>0
  <2>2. /\ \A e \in Upcoming' : \/ e \in Evs(Rest)
                                \/ (e.kind \in Inner /\ \A y \in Tasks : Concerns(e, y) => y = x)
        /\ \A e \in Evs(Rest) : e \in Upcoming'
    BY <1>0, <1>16 DEF Inner, JobKinds, Concerns
  <2>3. kind \in Inner
    BY DEF Inner, JobKinds
  <2>4. Holds(x)' = Holds(x) /\ (At(x)' = At(x) \/ Holds(x) = {})
    BY <1>6, <1>10, <1>11 DEF Holds, At
  <2>5. \A e \in Upcoming' : Concerns(e, x) => EventOK(e)'
    <3>1. EventOK(ev)'
      <4>1. \A y \in Tasks : Concerns(ev, y) => y = x
        BY <1>0 DEF Concerns, JobKinds
      <4>2. jobs'[x].at = StateOf(ev)
        BY <1>10, <1>11
      <4>3. QED
        BY <1>0, <4>1, <4>2 DEF EventOK, StateOf
    <3>2. QED
      BY <1>6, <1>16, <3>1
  <2>6. /\ agenda' \in Seq(Dated) /\ \A y \in Tasks : Concerns(Occurring, y) => y = x
        /\ \A y \in Tasks : y # x => jobs'[y] = jobs[y]
    BY <1>6, <1>11, <1>15
  <2>7. QED
    BY <1>17, <2>1, <2>2, <2>3, <2>4, <2>5, <2>6, InnerStep
<1>19. WaitersInv' /\ (suspended' = suspended => SignalsInv')
  <2> DEFINE X == {x}
  <2>1. /\ X \subseteq Tasks
        /\ \A y \in Tasks : y \notin X => jobs'[y] = jobs[y] /\ (Engaged(y)' <=> Engaged(y))
        /\ \A y \in X, s \in WorkStates : y \notin Range(waiters[s])
        /\ \A r \in Workers : \A i \in DOMAIN suspended[r] :
               suspended[r][i].of \in X => suspended[r][i].on
    BY <1>6, <1>11, <1>18
  <2> HIDE DEF X
  <2>2. WaitersInv'
    BY <1>2, <1>3, <1>8, <2>1, WaitersFrame
  <2>3. ASSUME suspended' = suspended  PROVE SignalsInv'
    BY <1>3, <1>8, <2>1, <2>3, SignalsFrame
  <2>4. QED
    BY <2>2, <2>3
<1>20. TimerInv'
  <2>1. \A a \in Range(agenda') : a.ev.kind = "timer" => a \in Range(Rest)
    BY <1>0, <1>13, <1>16
  <2>2. CASE kind # "finish"
    <3>1. kind \notin Delayed
      BY <2>2 DEF Delayed
    <3>2. QED
      BY <2>1, <3>1, TimerLate
  <2>3. CASE kind = "finish"
    <3>1. \A a \in Range(Rest) : a.ev.kind = "timer" /\ a.due = 0 =>
            \A y \in Tasks : jobs[y].at \notin {"routing", "done"}
      BY RestTimer
    <3>2. \A y \in Tasks : jobs'[y].at = jobs[y].at \/ jobs'[y].at \notin {"routing", "done"}
      BY <1>10, <1>11
    <3>3. QED
      BY <2>1, <3>1, <3>2 DEF TimerInv
  <2>4. QED
    BY <2>2, <2>3
<1>21. PoolInv'
  <2>1. /\ \A y \in Tasks, q \in Workers : AssignedTo(y, q)' => AssignedTo(y, q)
    BY <1>0, <1>4, <1>16 DEF AssignedTo
  <2>2. /\ \A y \in Tasks, q \in Workers : HoldsPooled(y, q)' => HoldsPooled(y, q)
    BY <1>6, <1>10, <1>11 DEF HoldsPooled
  <2>3. QED
    BY <1>1, <1>2, <1>15, <2>1, <2>2, PoolFrame
<1>22. QED
  BY <1>6, <1>10, <1>11, <1>15, <1>16, <1>18, <1>19, <1>20, <1>21

(* A signal wakes its job, which resumes, or pauses again if its resource  *)
(* has started other work.                                                 *)
LEMMA PauseEndsKeeps ==
  ASSUME KInv, PauseEnds, UNCHANGED <<phase, arrivals, operatorVars, poolVars>>
  PROVE  KInv' /\ \A t \in Tasks : Moves(t)
<1>1. PICK x : x = Occurring.job
  OBVIOUS
<1>2. PICK r : r = jobs[x].resource
  OBVIOUS
<1>3. PICK kind : kind = "wake"
  OBVIOUS
<1>4. /\ Happens(kind) /\ kind \in {"worked", "wake"} /\ kind \in {"wake", "resumed", "finish"}
      /\ kind \in JobKinds
  BY <1>3 DEF PauseEnds, JobKinds
<1>5. UNCHANGED <<raised, storeVars, setting, left, rework, process, failures,
                  phase, arrivals, operatorVars, poolVars>>
  BY DEF PauseEnds
<1>6. /\ Live /\ LiveInv /\ Occurring.kind = "wake" /\ phase # "over" /\ raised = {}
  BY <1>3, <1>4, Begin
<1>7. x \in Tasks /\ Concerns(Occurring, x)
  BY <1>1, <1>4, JobEvent
<1>8. jobs[x].at = "paused"
  BY <1>4, <1>6, <1>7, HeadJob DEF StateOf
<1>9. /\ r \in Workers /\ jobs[x] \in JobRecords /\ r \in Range(Team[jobs[x].stage])
      /\ jobs[x].stage \in WorkStates
  BY <1>2, <1>6, <1>7, <1>8, JobFacts
<1>10. jobs[x].stage # "qa_testing"
  BY <1>6, <1>7, <1>8 DEF LiveInv, ProcessInv
<1>11. /\ suspended \in [Workers -> Seq(SignalRecords)] /\ process \in [Workers -> Processes]
       /\ jobs \in [Tasks -> {NoJob} \cup JobRecords]
  BY TypesNow DEF SignalRecords
<1>12. PICK base : base = Front(suspended[r])
  OBVIOUS
<1>13. base \in Seq(SignalRecords)
       /\ \A i \in DOMAIN base : i \in DOMAIN suspended[r] /\ base[i] = suspended[r][i]
  <2>1. suspended[r] \in Seq(SignalRecords)
    BY <1>9, <1>11
  <2>2. QED
    BY <1>12, <2>1, FrontFacts
<1>14. CASE ~TargetIsNone(r)
  <2>1. /\ suspended' = [suspended EXCEPT ![r] = Append(base, Off(x))]
        /\ agenda' = Rest /\ jobs' = jobs
    BY <1>1, <1>2, <1>12, <1>14 DEF PauseEnds, Off
  <2>2. [jobs EXCEPT ![x].at = "paused"] = jobs
    <3>1. [jobs[x] EXCEPT !.at = "paused"] = jobs[x]
      BY <1>8, <1>9 DEF JobRecords
    <3>2. QED
      BY <1>11, <3>1
  <2>3. raised' \subseteq {"runaway"}
    BY <1>5, <1>6
  <2>4. PauseStep(x, r, base)
    BY <1>1, <1>2, <1>5, <1>10, <1>13, <2>1, <2>2, <2>3 DEF PauseStep
  <2>5. QED
    BY <1>4, <1>7, <1>9, <1>13, <2>4, Pausing
<1>15. CASE TargetIsNone(r)
  <2>1. /\ suspended' = [suspended EXCEPT ![r] = base]
        /\ agenda' = Schedule(Rest, <<Now(Resumed(x))>>)
        /\ jobs' = [jobs EXCEPT ![x].at = "resuming"]
    BY <1>1, <1>2, <1>12, <1>15 DEF PauseEnds
  <2>2. PICK ev : ev = Resumed(x)
    OBVIOUS
  <2>3. ev \in Events /\ ev.kind = "resumed" /\ ev.job = x
    BY <1>7, <2>2, EventTypes DEF Resumed
  <2>4. PICK d : d = 0
    OBVIOUS
  <2>5. Now(ev) = After(d, ev) /\ StateOf(ev) = "resuming"
    BY <2>3, <2>4 DEF Now, After, StateOf
  <2>6. JobGoesOn(x, ev, d)
    BY <1>1, <1>5, <2>1, <2>2, <2>3, <2>4, <2>5 DEF JobGoesOn
  <2>7. /\ agenda' \in Seq(Dated) /\ Orderly(setting.cadence, agenda)' /\ Sorted'
        /\ Upcoming' = Evs(Rest) \cup {ev}
        /\ Range(agenda') = Range(Rest) \cup {After(d, ev)}
        /\ SpotsInv' /\ SeqsInv' /\ PhaseInv' /\ AlarmInv' /\ JobsInv' /\ EventsInv'
        /\ WaitersInv' /\ TimerInv' /\ PoolInv'
        /\ \A e \in Evs(Rest) : ~Concerns(e, x)
        /\ jobs'[x].at = StateOf(ev) /\ jobs'[x].resource = jobs[x].resource
        /\ jobs'[x].stage = jobs[x].stage /\ jobs'[x].pooled = jobs[x].pooled
        /\ \A y \in Tasks : y # x => jobs'[y] = jobs[y] /\ (Engaged(y)' <=> Engaged(y))
        /\ jobs' \in [Tasks -> {NoJob} \cup JobRecords]
        /\ \A q \in Workers : \A i \in DOMAIN suspended[q] :
               suspended[q][i].of = x => suspended[q][i].on
    BY <1>4, <1>7, <2>6, GoingOn
  <2>8. Upcoming = {Occurring} \cup Evs(Rest)
    BY <1>4, BeginAgenda
  <2>9. /\ suspended' \in [Workers -> Seq(SignalRecords)]
        /\ \A q \in Workers : \A i \in DOMAIN suspended'[q] :
              i \in DOMAIN suspended[q] /\ suspended'[q][i] = suspended[q][i]
    <3>1. suspended'[r] = base /\ \A q \in Workers : q # r => suspended'[q] = suspended[q]
      BY <1>9, <1>11, <2>1
    <3>2. suspended' \in [Workers -> Seq(SignalRecords)]
      BY <1>11, <1>13, <2>1
    <3>3. ASSUME NEW q \in Workers, NEW i \in DOMAIN suspended'[q]
          PROVE  i \in DOMAIN suspended[q] /\ suspended'[q][i] = suspended[q][i]
      <4>1. CASE q = r
        BY <1>13, <3>1, <3>3, <4>1
      <4>2. CASE q # r
        BY <3>1, <3>3, <4>2
      <4>3. QED
        BY <4>1, <4>2
    <3>4. QED
      BY <3>2, <3>3
  <2>10. SignalsInv'
    <3>1. ASSUME NEW q \in Workers, NEW i \in DOMAIN suspended'[q], ~suspended'[q][i].on,
                 NEW y, y = suspended'[q][i].of
          PROVE  /\ jobs'[y].at = "paused" /\ jobs'[y].resource = q /\ ~Engaged(y)'
                 /\ \A j \in DOMAIN suspended'[q] :
                       suspended'[q][j].of = y /\ ~suspended'[q][j].on => i = j
      <4>1. i \in DOMAIN suspended[q] /\ suspended'[q][i] = suspended[q][i]
        BY <2>9
      <4>2. y = suspended[q][i].of /\ ~suspended[q][i].on
        BY <3>1, <4>1
      <4>3. y # x
        BY <2>7, <4>1, <4>2
      <4>4. /\ jobs[y].at = "paused" /\ jobs[y].resource = q /\ ~Engaged(y)
            /\ \A j \in DOMAIN suspended[q] :
                  suspended[q][j].of = y /\ ~suspended[q][j].on => i = j
        BY <1>6, <4>1, <4>2 DEF LiveInv, SignalsInv
      <4>5. y \in Tasks
        <5> DEFINE z == suspended[q]
        <5>1. z \in Seq(SignalRecords) /\ i \in DOMAIN z
          BY <1>11, <4>1
        <5> HIDE DEF z
        <5>2. z[i] \in SignalRecords
          BY <5>1
        <5>3. QED
          BY <4>2, <5>2 DEF z, SignalRecords
      <4>6. jobs'[y].at = "paused" /\ jobs'[y].resource = q /\ ~Engaged(y)'
        BY <2>7, <4>3, <4>4, <4>5
      <4>7. \A j \in DOMAIN suspended'[q] :
                       suspended'[q][j].of = y /\ ~suspended'[q][j].on => i = j
        BY <2>9, <4>4
      <4>8. QED
        BY <4>6, <4>7
    <3>2. QED
      BY <3>1 DEF SignalsInv
  <2>11. ProcessInv'
    <3>1. process' = process /\ \A y \in Tasks : y # x => jobs'[y] = jobs[y]
      BY <1>5, <2>7
    <3>2. \A e \in Upcoming : e.kind = "finish" => e \in Upcoming'
      BY <1>6, <2>7, <2>8
    <3>3. Finish(x) \notin Upcoming
      <4>1. Concerns(Finish(x), x) /\ Finish(x).kind = "finish"
        BY DEF Finish, Concerns, JobKinds
      <4>2. QED
        BY <1>6, <2>7, <2>8, <4>1
    <3>4. \A q \in Range(Team["qa_testing"]) : Busy(q) => process[q].of # x
      BY <1>6, <1>8 DEF LiveInv, ProcessInv
    <3>5. jobs'[x].stage # "qa_testing"
      BY <1>10, <2>7
    <3>6. ProcessInv
      BY <1>6 DEF LiveInv
    <3>7. QED
      BY <1>7, <1>11, <3>1, <3>2, <3>3, <3>4, <3>5, <3>6, ProcessFrame
  <2>12. FlowInv'
    <3> DEFINE X == {x}
    <3>1. left' = left /\ process' = process /\ history' = history /\ rework' = rework
      BY <1>5 DEF storeVars
    <3>2. left' \in [Tasks -> Nat]
      BY <3>1, TypesNow
    <3>3. \A e \in Upcoming' : e.kind \in {"finish", "worked"} => e \in Evs(Rest) /\ e.job # x
      BY <2>3, <2>7 DEF Concerns, JobKinds
    <3>4. \A a \in Range(agenda') : a.ev.kind = "finish" => a \in Range(Rest) /\ a.ev.job # x
      <4>1. \A a \in Range(agenda') : a.ev \in Upcoming'
        BY EvsRange DEF Upcoming
      <4>2. After(d, ev).ev = ev
        BY DEF After
      <4>3. QED
        BY <2>3, <2>7, <3>3, <4>1, <4>2
    <3>5. /\ X \subseteq Tasks
          /\ \A y \in Tasks : y \notin X => jobs'[y] = jobs[y]
          /\ \A a \in Range(agenda') : a.ev.kind = "finish" => a.ev.job \notin X /\ a \in Range(Rest)
          /\ \A e \in Upcoming' : e.kind = "worked" => e.job \notin X /\ e \in Evs(Rest)
      BY <1>7, <2>7, <3>3, <3>4
    <3>6. agenda' \in Seq(Dated)
      BY <2>7
    <3> HIDE DEF X
    <3>7. FlowEvents'
      BY <1>4, <3>1, <3>2, <3>5, <3>6, FlowFrame
    <3>8. FlowInv
      BY <1>6 DEF LiveInv
    <3>9. QED
      BY <3>1, <3>7, <3>8, FlowStays
  <2>13. TypeInv'
    <3>1. /\ setting' = setting /\ failures' = failures /\ raised' = raised /\ items' = items
          /\ history' = history /\ alarm' = alarm /\ phase' = phase /\ arrivals' = arrivals
          /\ queue' = queue /\ listening' = listening /\ awaiting' = awaiting /\ left' = left
          /\ rework' = rework /\ process' = process /\ hired' = hired
          /\ waiters' = waiters /\ owners' = owners /\ pool' = pool
      BY <1>5 DEF storeVars, operatorVars, poolVars
    <3>2. phase' \in {"seeding", "running", "stopped"}
      BY <1>6, <3>1, TypesNow
    <3>3. suspended' \in [Workers -> Seq([of : Tasks, on : BOOLEAN])]
      BY <2>9 DEF SignalRecords
    <3>4. QED
      BY <2>7, <3>1, <3>2, <3>3, TypesNow, TypeStep
  <2>14. \A t \in Tasks : Moves(t)
    BY <1>5 DEF Moves, storeVars
  <2>15. QED
    BY <2>7, <2>10, <2>11, <2>12, <2>13, <2>14 DEF KInv, LiveInv
<1>16. QED
  BY <1>14, <1>15

(* A resource starts to work on a job.                                     *)
WorkBegins(x, r) ==
    /\ process' = [process EXCEPT ![r] = [of |-> x, state |-> "live", failed |-> FALSE]]
    /\ jobs'[x].at = "working" /\ jobs'[x].resource = r
    /\ jobs'[x].stage \in WorkStates /\ r \in Range(Team[jobs'[x].stage])
    /\ jobs'[x].stage = "qa_testing" => jobs'[x].pooled
    /\ jobs[x].at # "working" /\ Finish(x) \in Upcoming'
    /\ \A y \in Tasks : y # x => jobs'[y] = jobs[y]
    /\ \A e \in Upcoming : e.kind = "finish" =>
          e \in Upcoming' \/ jobs[e.job].resource = r
    /\ r \in Range(Team["qa_testing"]) => ~Busy(r)

(* The process that a resource starts is live, and the one it replaces has *)
(* no timeout scheduled.                                                   *)
LEMMA ProcessStarts ==
  ASSUME KInv, Live, NEW x \in Tasks, NEW r \in Workers, WorkBegins(x, r)
  PROVE  ProcessInv' /\ process' \in [Workers -> Processes]
<1>0. /\ process' = [process EXCEPT ![r] = [of |-> x, state |-> "live", failed |-> FALSE]]
      /\ jobs'[x].at = "working" /\ jobs'[x].resource = r
      /\ jobs'[x].stage \in WorkStates /\ r \in Range(Team[jobs'[x].stage])
      /\ jobs'[x].stage = "qa_testing" => jobs'[x].pooled
      /\ jobs[x].at # "working" /\ Finish(x) \in Upcoming'
      /\ \A y \in Tasks : y # x => jobs'[y] = jobs[y]
      /\ \A e \in Upcoming : e.kind = "finish" =>
            e \in Upcoming' \/ jobs[e.job].resource = r
      /\ r \in Range(Team["qa_testing"]) => ~Busy(r)
  BY DEF WorkBegins
<1>1. ProcessInv /\ EventsInv
  BY DEF KInv, LiveInv
<1>2. process \in [Workers -> Processes]
  BY TypesNow
<1>3. /\ process' \in [Workers -> Processes]
      /\ process'[r].of = x /\ process'[r].state = "live" /\ process'[r].failed = FALSE
      /\ \A q \in Workers : q # r => process'[q] = process[q]
  BY <1>0, <1>2, TaskFacts DEF Processes
<1>4. \A y \in Tasks : Finish(y).kind = "finish" /\ Finish(y).job = y /\ Concerns(Finish(y), y)
                       /\ StateOf(Finish(y)) = "working"
  BY DEF Finish, Concerns, JobKinds, StateOf
<1>5. ASSUME NEW q \in Workers, process'[q].state = "live"
      PROVE  /\ process'[q].of # None
             /\ Finish(process'[q].of) \in Upcoming' /\ jobs'[process'[q].of].resource = q
  <2>1. CASE q = r
    BY <1>0, <1>3, <2>1, TaskFacts
  <2>2. CASE q # r
    <3>1. PICK y : y = process[q].of
      OBVIOUS
    <3>2. /\ y # None /\ Finish(y) \in Upcoming /\ jobs[y].resource = q
          /\ process'[q] = process[q]
      BY <1>1, <1>3, <1>5, <2>2, <3>1 DEF ProcessInv
    <3>3. y \in Tasks
      BY <1>2, <3>1, <3>2 DEF Processes
    <3>4. y # x
      BY <1>0, <1>1, <1>4, <3>2, <3>3 DEF EventsInv
    <3>5. Finish(y) \in Upcoming'
      BY <1>0, <1>4, <2>2, <3>2, <3>3
    <3>6. jobs'[y] = jobs[y]
      BY <1>0, <3>3, <3>4
    <3>7. QED
      BY <3>1, <3>2, <3>5, <3>6
  <2>3. QED
    BY <2>1, <2>2
<1>6. \A q \in Range(Team["development"]) : ~process'[q].failed
  <2>1. \A q \in Range(Team["development"]) : q \in Workers /\ ~process[q].failed
    BY <1>1, TaskFacts, Strings DEF ProcessInv
  <2>2. QED
    BY <1>3, <2>1
<1>7. ASSUME NEW q \in Range(Team["qa_testing"]), process'[q].state \in {"live", "ended"}
      PROVE  /\ process'[q].of # None
             /\ jobs'[process'[q].of].at = "working" /\ jobs'[process'[q].of].resource = q
  <2>0. q \in Workers
    BY TaskFacts, Strings
  <2>1. CASE q = r
    BY <1>0, <1>3, <2>1, TaskFacts
  <2>2. CASE q # r
    <3>1. PICK y : y = process[q].of
      OBVIOUS
    <3>2. process'[q] = process[q] /\ Busy(q)
      BY <1>3, <1>7, <2>0, <2>2 DEF Busy
    <3>3. y # None /\ jobs[y].at = "working" /\ jobs[y].resource = q
      BY <1>1, <3>1, <3>2 DEF ProcessInv
    <3>4. y \in Tasks
      BY <1>2, <2>0, <3>1, <3>3 DEF Processes
    <3>5. jobs'[y] = jobs[y]
      BY <1>0, <3>3, <3>4
    <3>6. QED
      BY <3>1, <3>2, <3>3, <3>5
  <2>3. QED
    BY <2>1, <2>2
<1>8. ASSUME NEW y \in Tasks, jobs'[y].at # "none", jobs'[y].stage = "qa_testing"
      PROVE  /\ jobs'[y].pooled /\ jobs'[y].at \in {"waiting", "working", "routing", "done"}
             /\ jobs'[y].at = "working" => /\ process'[jobs'[y].resource].of = y
                                           /\ process'[jobs'[y].resource].state \in {"live", "ended"}
  <2>1. CASE y = x
    BY <1>0, <1>3, <1>8, <2>1
  <2>2. CASE y # x
    <3>1. /\ jobs'[y] = jobs[y] /\ jobs[y].at # "none" /\ jobs[y].stage = "qa_testing"
      BY <1>0, <1>8, <2>2
    <3>2. /\ jobs[y].pooled /\ jobs[y].at \in {"waiting", "working", "routing", "done"}
          /\ jobs[y].at = "working" => process[jobs[y].resource].of = y /\ Busy(jobs[y].resource)
      BY <1>1, <3>1 DEF ProcessInv
    <3>3. ASSUME jobs[y].at = "working"
          PROVE  process'[jobs[y].resource] = process[jobs[y].resource]
      <4>1. jobs[y].resource \in Range(Team["qa_testing"]) /\ jobs[y].resource \in Workers
        BY <3>1, <3>3, JobFacts
      <4>2. jobs[y].resource # r
        BY <1>0, <3>2, <3>3, <4>1
      <4>3. QED
        BY <1>3, <4>1, <4>2
    <3>4. QED
      BY <3>1, <3>2, <3>3 DEF Busy
  <2>3. QED
    BY <2>1, <2>2
<1>9. QED
  BY <1>3, <1>5, <1>6, <1>7, <1>8 DEF ProcessInv, Busy

(* operate starts its work again.                                          *)
LEMMA WorkResumesKeeps ==
  ASSUME KInv, WorkResumes, UNCHANGED <<phase, arrivals, operatorVars, poolVars>>
  PROVE  KInv' /\ \A t \in Tasks : Moves(t)
<1>1. PICK x : x = Occurring.job
  OBVIOUS
<1>2. PICK r : r = jobs[x].resource
  OBVIOUS
<1>3. PICK kind : kind = "resumed"
  OBVIOUS
<1>4. /\ Happens(kind) /\ kind \in {"wake", "resumed", "finish"} /\ kind \in JobKinds
  BY <1>3 DEF WorkResumes, JobKinds
<1>5. UNCHANGED <<raised, storeVars, setting, left, rework, suspended, failures,
                  phase, arrivals, operatorVars, poolVars>>
  BY DEF WorkResumes
<1>6. /\ Live /\ LiveInv /\ Occurring.kind = "resumed" /\ phase # "over" /\ raised = {}
  BY <1>3, <1>4, Begin
<1>7. x \in Tasks /\ Concerns(Occurring, x)
  BY <1>1, <1>4, JobEvent
<1>8. jobs[x].at = "resuming"
  BY <1>4, <1>6, <1>7, HeadJob DEF StateOf
<1>9. /\ r \in Workers /\ jobs[x] \in JobRecords /\ r \in Range(Team[jobs[x].stage])
      /\ jobs[x].stage \in WorkStates /\ jobs[x].batch \in Seq(Tasks)
      /\ ~Windowed(setting.cadence, jobs[x].stage) => jobs[x].batch = <<x>>
  BY <1>2, <1>6, <1>7, <1>8, JobFacts
<1>10. jobs[x].stage # "qa_testing"
  BY <1>6, <1>7, <1>8 DEF LiveInv, ProcessInv
<1>11. /\ process \in [Workers -> Processes] /\ left \in [Tasks -> Nat]
       /\ jobs \in [Tasks -> {NoJob} \cup JobRecords]
  BY TypesNow
<1>12. PICK d : d = WorkTime(jobs[x].stage, jobs[x].batch)
  OBVIOUS
<1>13. d \in Nat /\ (jobs[x].stage = "development" => d = left[x])
  BY <1>7, <1>9, <1>12, WorkTimeFacts DEF Windowed
<1>14. PICK ev : ev = Finish(x)
  OBVIOUS
<1>15. ev \in Events /\ ev.kind = "finish" /\ ev.job = x /\ StateOf(ev) = "working"
  BY <1>7, <1>14, EventTypes DEF Finish, StateOf
<1>16. JobGoesOn(x, ev, d)
  <2>1. agenda' = Schedule(Rest, <<After(d, ev)>>) /\ jobs' = [jobs EXCEPT ![x].at = "working"]
    BY <1>1, <1>12, <1>14 DEF WorkResumes, WorkEvents
  <2>2. QED
    BY <1>1, <1>5, <1>13, <1>15, <2>1 DEF JobGoesOn
<1>17. /\ agenda' \in Seq(Dated) /\ Orderly(setting.cadence, agenda)' /\ Sorted'
       /\ Upcoming' = Evs(Rest) \cup {ev}
       /\ Range(agenda') = Range(Rest) \cup {After(d, ev)}
       /\ SpotsInv' /\ SeqsInv' /\ PhaseInv' /\ AlarmInv' /\ JobsInv' /\ EventsInv'
       /\ WaitersInv' /\ TimerInv' /\ PoolInv' /\ (suspended' = suspended => SignalsInv')
       /\ \A e \in Evs(Rest) : ~Concerns(e, x)
       /\ jobs'[x].at = StateOf(ev) /\ jobs'[x].resource = jobs[x].resource
       /\ jobs'[x].stage = jobs[x].stage /\ jobs'[x].pooled = jobs[x].pooled
       /\ \A y \in Tasks : y # x => jobs'[y] = jobs[y] /\ (Engaged(y)' <=> Engaged(y))
       /\ jobs' \in [Tasks -> {NoJob} \cup JobRecords]
  BY <1>4, <1>7, <1>16, GoingOn
<1>18. Upcoming = {Occurring} \cup Evs(Rest)
  BY <1>4, BeginAgenda
<1>19. SignalsInv'
  BY <1>5, <1>17
<1>20. ProcessInv' /\ process' \in [Workers -> Processes]
  <2>1. process' = [process EXCEPT ![r] = [of |-> x, state |-> "live", failed |-> FALSE]]
    BY <1>1, <1>2 DEF WorkResumes, StartWork
  <2>2. r \notin Range(Team["qa_testing"])
    BY <1>9, <1>10, TeamFacts, Strings
  <2>3. \A e \in Upcoming : e.kind = "finish" => e \in Upcoming'
    BY <1>6, <1>17, <1>18
  <2>4. WorkBegins(x, r)
    BY <1>2, <1>8, <1>9, <1>10, <1>14, <1>15, <1>17, <2>1, <2>2, <2>3 DEF WorkBegins
  <2>5. QED
    BY <1>6, <1>7, <1>9, <2>4, ProcessStarts
<1>21. FlowInv'
  <2> DEFINE X == {x}
  <2>1. left' = left /\ history' = history /\ rework' = rework /\ left' \in [Tasks -> Nat]
    BY <1>5, <1>11 DEF storeVars
  <2>2. \A e \in Upcoming' : e.kind = "worked" => e \in Evs(Rest) /\ e.job # x
    BY <1>15, <1>17 DEF Concerns, JobKinds
  <2>3. \A a \in Range(agenda') : a.ev.kind = "finish" /\ a.ev.job # x => a \in Range(Rest)
    <3>1. After(d, ev).ev = ev
      BY DEF After
    <3>2. QED
      BY <1>15, <1>17, <3>1
  <2>4. \A a \in Range(agenda') : a.ev.kind = "finish" /\ a.ev.job = x => a.due = d
    <3>1. \A a \in Range(Rest) : a.ev \in Evs(Rest)
      BY EvsRange
    <3>2. After(d, ev).due = d
      BY DEF After
    <3>3. QED
      BY <1>17, <3>1, <3>2 DEF Concerns, JobKinds
  <2>5. \A y \in Tasks : y # x /\ jobs[y].at = "working" /\ jobs[y].stage = "qa_testing" =>
            process'[jobs[y].resource].failed = process[jobs[y].resource].failed
    <3>1. ASSUME NEW y \in Tasks, jobs[y].at = "working", jobs[y].stage = "qa_testing"
          PROVE  process'[jobs[y].resource] = process[jobs[y].resource]
      <4>1. jobs[y].resource \in Range(Team["qa_testing"]) /\ jobs[y].resource \in Workers
        BY <1>6, <3>1, JobFacts
      <4>0. r \notin Range(Team["qa_testing"])
        BY <1>9, <1>10, TeamFacts, Strings
      <4>2. jobs[y].resource # r
        BY <4>0, <4>1
      <4>3. process' = [process EXCEPT ![r] = [of |-> x, state |-> "live", failed |-> FALSE]]
        BY <1>1, <1>2 DEF WorkResumes, StartWork
      <4>4. QED
        BY <1>9, <1>11, <4>1, <4>2, <4>3
    <3>2. QED
      BY <3>1
  <2>6. X \subseteq Tasks /\ agenda' \in Seq(Dated)
    BY <1>7, <1>17
  <2>7. \A a \in Range(agenda') : a.ev.kind = "finish" /\ a.ev.job \in X =>
            /\ jobs'[a.ev.job].stage = "development" => a.due <= left'[a.ev.job]
            /\ jobs'[a.ev.job].stage = "qa_testing" => left'[a.ev.job] = 0
    <3>1. left[x] \in Nat
      BY <1>7, <1>11
    <3>2. QED
      BY <1>10, <1>13, <1>17, <2>1, <2>4, <3>1
  <2>8. /\ \A y \in Tasks : y \notin X => jobs'[y] = jobs[y]
        /\ \A y \in Tasks : y \notin X /\ jobs[y].at = "working" => left'[y] = left[y]
        /\ \A y \in Tasks : y \notin X /\ jobs[y].at = "working" /\ jobs[y].stage = "qa_testing" =>
             process'[jobs[y].resource].failed = process[jobs[y].resource].failed
        /\ \A a \in Range(agenda') : a.ev.kind = "finish" /\ a.ev.job \notin X => a \in Range(Rest)
        /\ \A e \in Upcoming' : e.kind = "worked" => e.job \notin X /\ e \in Evs(Rest)
    BY <1>17, <2>1, <2>2, <2>3, <2>5
  <2> HIDE DEF X
  <2>9. FlowEvents'
    BY <1>4, <2>1, <2>6, <2>7, <2>8, FlowFrame
  <2>10. FlowInv
    BY <1>6 DEF LiveInv
  <2>11. QED
    BY <2>1, <2>9, <2>10, FlowStays
<1>22. TypeInv'
  <2>1. /\ setting' = setting /\ failures' = failures /\ raised' = raised /\ items' = items
        /\ history' = history /\ alarm' = alarm /\ phase' = phase /\ arrivals' = arrivals
        /\ queue' = queue /\ listening' = listening /\ awaiting' = awaiting /\ left' = left
        /\ rework' = rework /\ suspended' = suspended /\ hired' = hired
        /\ waiters' = waiters /\ owners' = owners /\ pool' = pool
    BY <1>5 DEF storeVars, operatorVars, poolVars
  <2>2. phase' \in {"seeding", "running", "stopped"}
    BY <1>6, <2>1, TypesNow
  <2>3. QED
    BY <1>17, <1>20, <2>1, <2>2, TypesNow, TypeStep
<1>23. \A t \in Tasks : Moves(t)
  BY <1>5 DEF Moves, storeVars
<1>24. QED
  BY <1>17, <1>19, <1>20, <1>21, <1>22, <1>23 DEF KInv, LiveInv

-----------------------------------------------------------------------------
(* The timeout of a work ends.                                             *)

(* What an end of work leaves of the remaining work: nothing for a         *)
(* developer, as much again for a failed test, and the same otherwise.     *)
LEMMA RemainingFacts ==
  ASSUME KInv, Live, NEW x \in Tasks, jobs[x].at = "working", NEW failed \in BOOLEAN,
         failed => jobs[x].stage # "development"
  PROVE  /\ Remaining(jobs[x], failed) \in [Tasks -> Nat]
         /\ \A t \in Tasks :
              /\ t \notin Holds(x) => Remaining(jobs[x], failed)[t] = left[t]
              /\ t \in Holds(x) =>
                   /\ jobs[x].stage = "development" => Remaining(jobs[x], failed)[t] = 0
                   /\ jobs[x].stage = "qa_testing" =>
                        Remaining(jobs[x], failed)[t] <= left[t] + Points(t)
                   /\ (~failed /\ jobs[x].stage # "development") \/ jobs[x].stage = "deployment"
                        => Remaining(jobs[x], failed)[t] = left[t]
<1>1. /\ jobs[x].stage \in WorkStates /\ Holds(x) = Range(jobs[x].batch)
  BY JobFacts
<1>2. left \in [Tasks -> Nat] /\ setting \in Settings
  BY TypesNow
<1>3. /\ setting.failure_cost \in 0..1 /\ \A t \in Tasks : Points(t) \in Nat
  BY <1>2, SettingFacts
<1>4. \A t \in Tasks : /\ Points(t) * setting.failure_cost \in Nat
                       /\ Points(t) * setting.failure_cost <= Points(t)
  <2>1. setting.failure_cost = 0 \/ setting.failure_cost = 1
    BY <1>3
  <2>2. TAKE t \in Tasks
  <2>3. CASE setting.failure_cost = 0
    BY <1>3, <2>3
  <2>4. CASE setting.failure_cost = 1
    BY <1>3, <2>4
  <2>5. QED
    BY <2>1, <2>3, <2>4
<1>5. ASSUME NEW t \in Tasks
      PROVE  /\ left[t] \in Nat /\ Points(t) \in Nat
             /\ Points(t) * setting.failure_cost \in Nat
             /\ Points(t) * setting.failure_cost <= Points(t)
  BY <1>2, <1>3, <1>4
<1>6. ASSUME NEW t \in Tasks
      PROVE  Remaining(jobs[x], failed)[t] =
               (IF t \notin Range(jobs[x].batch) THEN left[t]
                ELSE CASE jobs[x].stage = "development" -> 0
                       [] jobs[x].stage = "qa_testing" /\ failed ->
                              left[t] + Points(t) * setting.failure_cost
                       [] OTHER -> left[t])
  BY DEF Remaining
<1>7. ASSUME NEW t \in Tasks
      PROVE  /\ Remaining(jobs[x], failed)[t] \in Nat
             /\ t \notin Range(jobs[x].batch) => Remaining(jobs[x], failed)[t] = left[t]
             /\ t \in Range(jobs[x].batch) =>
                   /\ jobs[x].stage = "development" => Remaining(jobs[x], failed)[t] = 0
                   /\ jobs[x].stage = "qa_testing" =>
                        Remaining(jobs[x], failed)[t] <= left[t] + Points(t)
                   /\ (~failed /\ jobs[x].stage # "development") \/ jobs[x].stage = "deployment"
                        => Remaining(jobs[x], failed)[t] = left[t]
  <2>1. PICK p, c : p = Points(t) /\ c = Points(t) * setting.failure_cost
    OBVIOUS
  <2>2. left[t] \in Nat /\ p \in Nat /\ c \in Nat /\ c <= p
    BY <1>5, <2>1
  <2>3. CASE t \notin Range(jobs[x].batch)
    <3>1. Remaining(jobs[x], failed)[t] = left[t]
      BY <1>6, <2>3
    <3>2. QED
      BY <2>2, <2>3, <3>1
  <2>4. CASE t \in Range(jobs[x].batch) /\ jobs[x].stage = "development"
    <3>1. Remaining(jobs[x], failed)[t] = 0
      BY <1>6, <2>4
    <3>2. ~failed
      BY <2>4
    <3>3. QED
      BY <2>4, <3>1, <3>2
  <2>5. CASE t \in Range(jobs[x].batch) /\ jobs[x].stage = "qa_testing" /\ failed
    <3>1. Remaining(jobs[x], failed)[t] = left[t] + c
      BY <1>6, <2>1, <2>5
    <3>2. left[t] + c \in Nat /\ left[t] + c <= left[t] + p
      BY <2>2
    <3>3. QED
      BY <2>1, <2>5, <3>1, <3>2
  <2>6. CASE t \in Range(jobs[x].batch) /\ jobs[x].stage # "development"
             /\ ~(jobs[x].stage = "qa_testing" /\ failed)
    <3>1. Remaining(jobs[x], failed)[t] = left[t]
      BY <1>6, <2>6
    <3>2. left[t] <= left[t] + p
      BY <2>2
    <3>3. QED
      BY <2>1, <2>2, <2>6, <3>1, <3>2
  <2>7. QED
    BY <2>3, <2>4, <2>5, <2>6
<1>8. Remaining(jobs[x], failed) \in [Tasks -> Nat]
  <2>1. \E g : Remaining(jobs[x], failed) = [t \in Tasks |-> g[t]]
    <3>1. Remaining(jobs[x], failed) = [t \in Tasks |-> Remaining(jobs[x], failed)[t]]
      BY DEF Remaining
    <3>2. QED
      BY <3>1
  <2>2. QED
    BY <1>7, <2>1
<1>9. QED
  BY <1>1, <1>7, <1>8

(* Two jobs that are worked on have no task in common.                     *)
LEMMA WorkingApart ==
  ASSUME KInv, Live, NEW x \in Tasks, jobs[x].at = "working"
  PROVE  /\ x \in Holds(x)
         /\ \A t \in Tasks : t \in Holds(x) => history[t] = Entry("start", jobs[x].stage)
         /\ \A y \in Tasks : y # x /\ jobs[y].at = "working" => y \notin Holds(x)
<1>1. SpotsInv
  BY DEF KInv, LiveInv
<1>2. \A y \in Tasks : y \in Wheres /\ "job" \in Spots /\ Written("job", y) = Entry("start", At(y))
  BY DEF Wheres, Spots, Written
<1>3. \A y \in Tasks : jobs[y].at = "working" => y \in Holds(y) /\ At(y) = jobs[y].stage
  <2>1. ASSUME NEW y \in Tasks, jobs[y].at = "working"
        PROVE  y \in Holds(y) /\ At(y) = jobs[y].stage
    BY <2>1, JobFacts
  <2>2. QED
    BY <2>1
<1>4. \A y, t \in Tasks : t \in Holds(y) => In("job", y, t)
  BY DEF In
<1>5. \A t \in Tasks : t \in Holds(x) => history[t] = Entry("start", jobs[x].stage)
  <2>1. TAKE t \in Tasks
  <2>2. HAVE t \in Holds(x)
  <2>3. history[t] = Written("job", x)
    BY <1>1, <1>2, <1>4, <2>2 DEF SpotsInv
  <2>4. QED
    BY <1>2, <1>3, <2>3
<1>6. ASSUME NEW y \in Tasks, y # x, jobs[y].at = "working", y \in Holds(x)  PROVE FALSE
  <2>1. In("job", x, y) /\ In("job", y, y)
    BY <1>3, <1>4, <1>6
  <2>2. QED
    BY <1>1, <1>2, <1>6, <2>1 DEF SpotsInv
<1>7. QED
  BY <1>3, <1>5, <1>6

(* The timeout of do_work.                                                 *)
LEMMA DoWorkEndsKeeps ==
  ASSUME KInv, DoWorkEnds, UNCHANGED <<phase, arrivals, operatorVars, poolVars>>
  PROVE  KInv' /\ \A t \in Tasks : Moves(t)
<1>1. PICK x : x = Occurring.job
  OBVIOUS
<1>2. PICK r : r = jobs[x].resource
  OBVIOUS
<1>3. PICK kind : kind = "finish"
  OBVIOUS
<1>4. /\ Happens(kind) /\ kind \in {"wake", "resumed", "finish"} /\ kind \in JobKinds
  BY <1>3 DEF DoWorkEnds, JobKinds
<1>5. UNCHANGED <<raised, storeVars, setting, rework, jobs, suspended,
                  phase, arrivals, operatorVars, poolVars>>
  BY DEF DoWorkEnds
<1>6. PICK failed \in BOOLEAN :
        /\ failed => jobs[x].stage \in setting.failing /\ failures < MaxFailures
        /\ failures' = IF failed THEN failures + 1 ELSE failures
        /\ left' = Remaining(jobs[x], failed)
        /\ process' = IF process[r].of = x
                      THEN [process EXCEPT ![r].state = "ended", ![r].failed = failed]
                      ELSE process
        /\ agenda' = Schedule(Rest, <<Now(Worked(x, "returned"))>>)
  BY <1>1, <1>2 DEF DoWorkEnds
<1>7. /\ Live /\ LiveInv /\ Occurring.kind = "finish" /\ phase # "over" /\ raised = {}
  BY <1>3, <1>4, Begin
<1>8. x \in Tasks /\ Concerns(Occurring, x)
  BY <1>1, <1>4, JobEvent
<1>9. jobs[x].at = "working"
  BY <1>4, <1>7, <1>8, HeadJob DEF StateOf
<1>10. /\ r \in Workers /\ jobs[x] \in JobRecords /\ r \in Range(Team[jobs[x].stage])
       /\ jobs[x].stage \in WorkStates
  BY <1>2, <1>7, <1>8, <1>9, JobFacts
<1>11. /\ process \in [Workers -> Processes] /\ left \in [Tasks -> Nat]
       /\ jobs \in [Tasks -> {NoJob} \cup JobRecords] /\ failures \in 0..MaxFailures
       /\ setting \in Settings /\ MaxFailures \in Nat
  BY TypesNow, ResourcesAssumption
<1>12. failed => jobs[x].stage # "development" /\ failures' \in 0..MaxFailures
  <2>1. setting.failing \subseteq {"qa_testing", "deployment"}
    BY <1>11, ResourcesAssumption
  <2>2. QED
    BY <1>6, <1>11, <2>1
<1>13. /\ left' \in [Tasks -> Nat]
       /\ \A t \in Tasks :
            /\ t \notin Holds(x) => left'[t] = left[t]
            /\ t \in Holds(x) =>
                 /\ jobs[x].stage = "development" => left'[t] = 0
                 /\ jobs[x].stage = "qa_testing" => left'[t] <= left[t] + Points(t)
                 /\ (~failed /\ jobs[x].stage # "development") \/ jobs[x].stage = "deployment"
                      => left'[t] = left[t]
  <2>1. left' = Remaining(jobs[x], failed)
    BY <1>6
  <2>2. failed => jobs[x].stage # "development"
    BY <1>12
  <2>3. QED
    BY <1>7, <1>8, <1>9, <2>1, <2>2, RemainingFacts
<1>14. /\ x \in Holds(x)
       /\ \A t \in Tasks : t \in Holds(x) => history[t] = Entry("start", jobs[x].stage)
       /\ \A y \in Tasks : y # x /\ jobs[y].at = "working" => y \notin Holds(x)
  BY <1>7, <1>8, <1>9, WorkingApart
<1>15. PICK ev : ev = Worked(x, "returned")
  OBVIOUS
<1>16. /\ ev \in Events /\ ev.kind = "worked" /\ ev.job = x /\ ev.how = "returned"
       /\ StateOf(ev) = "working"
  BY <1>8, <1>15, EventTypes DEF Worked, StateOf
<1>17. PICK d : d = 0
  OBVIOUS
<1>18. JobGoesOn(x, ev, d)
  <2>1. jobs' = [jobs EXCEPT ![x].at = "working"]
    <3>1. [jobs[x] EXCEPT !.at = "working"] = jobs[x]
      BY <1>9, <1>10 DEF JobRecords
    <3>2. QED
      BY <1>5, <1>11, <3>1
  <2>2. agenda' = Schedule(Rest, <<After(d, ev)>>)
    BY <1>6, <1>15, <1>17 DEF Now, After
  <2>3. QED
    BY <1>1, <1>5, <1>16, <1>17, <2>1, <2>2 DEF JobGoesOn
<1>19. /\ agenda' \in Seq(Dated) /\ Orderly(setting.cadence, agenda)' /\ Sorted'
       /\ Upcoming' = Evs(Rest) \cup {ev}
       /\ Range(agenda') = Range(Rest) \cup {After(d, ev)}
       /\ SpotsInv' /\ SeqsInv' /\ PhaseInv' /\ AlarmInv' /\ JobsInv' /\ EventsInv'
       /\ WaitersInv' /\ TimerInv' /\ PoolInv' /\ (suspended' = suspended => SignalsInv')
       /\ \A e \in Evs(Rest) : ~Concerns(e, x)
  BY <1>4, <1>8, <1>18, GoingOn
<1>20. Upcoming = {Occurring} \cup Evs(Rest)
  BY <1>4, BeginAgenda
<1>21. /\ process' \in [Workers -> Processes]
       /\ \A q \in Workers : process'[q] = process[q] \/ (q = r /\ process[q].of = x)
       /\ \A q \in Workers : process'[q].of = process[q].of
       /\ process[r].of = x => process'[r].state = "ended" /\ process'[r].failed = failed
  BY <1>6, <1>10, <1>11 DEF Processes
<1>22. ProcessInv'
  <2>1. ProcessInv /\ jobs' = jobs
    BY <1>5, <1>7 DEF LiveInv
  <2>2. ASSUME NEW q \in Workers, process'[q].state = "live"
        PROVE  /\ process'[q].of # None
               /\ Finish(process'[q].of) \in Upcoming' /\ jobs[process'[q].of].resource = q
    <3>1. process'[q] = process[q]
      BY <1>21, <2>2
    <3>2. PICK y : y = process[q].of
      OBVIOUS
    <3>3. y # None /\ Finish(y) \in Upcoming /\ jobs[y].resource = q
      BY <2>1, <2>2, <3>1, <3>2 DEF ProcessInv
    <3>4. y # x
      <4>1. ASSUME y = x  PROVE FALSE
        <5>1. q = r /\ process[r].of = x
          BY <1>2, <3>2, <3>3, <4>1
        <5>2. QED
          BY <1>21, <2>2, <5>1
      <4>2. QED
        BY <4>1
    <3>5. Finish(y) # Occurring
      BY <1>1, <3>4 DEF Finish
    <3>6. QED
      BY <1>19, <1>20, <3>1, <3>2, <3>3, <3>5
  <2>3. \A q \in Range(Team["development"]) : ~process'[q].failed
    <3>1. ASSUME NEW q \in Range(Team["development"])  PROVE ~process'[q].failed
      <4>1. q \in Workers /\ ~process[q].failed
        BY <2>1, TaskFacts, Strings DEF ProcessInv
      <4>2. q = r => jobs[x].stage = "development"
        <5>1. PICK u : u = jobs[x].stage
          OBVIOUS
        <5>2. u \in WorkStates /\ r \in Range(Team[u]) /\ "development" \in WorkStates
          BY <1>10, <5>1, Strings
        <5>3. q = r => u = "development"
          BY <5>2, TeamFacts
        <5>4. QED
          BY <5>1, <5>3
      <4>3. QED
        BY <1>12, <1>21, <4>1, <4>2
    <3>2. QED
      BY <3>1
  <2>4. ASSUME NEW q \in Range(Team["qa_testing"]), process'[q].state \in {"live", "ended"}
        PROVE  /\ process'[q].of # None
               /\ jobs[process'[q].of].at = "working" /\ jobs[process'[q].of].resource = q
    <3>1. q \in Workers
      BY TaskFacts, Strings
    <3>2. CASE process'[q] = process[q]
      BY <2>1, <2>4, <3>2 DEF ProcessInv, Busy
    <3>3. CASE q = r /\ process[q].of = x
      BY <1>2, <1>8, <1>9, <1>21, <3>1, <3>3, TaskFacts
    <3>4. QED
      BY <1>21, <3>1, <3>2, <3>3
  <2>5. ASSUME NEW y \in Tasks, jobs[y].at # "none", jobs[y].stage = "qa_testing"
        PROVE  /\ jobs[y].pooled /\ jobs[y].at \in {"waiting", "working", "routing", "done"}
               /\ jobs[y].at = "working" =>
                    /\ process'[jobs[y].resource].of = y
                    /\ process'[jobs[y].resource].state \in {"live", "ended"}
    <3>1. /\ jobs[y].pooled /\ jobs[y].at \in {"waiting", "working", "routing", "done"}
          /\ jobs[y].at = "working" =>
                    /\ process[jobs[y].resource].of = y
                    /\ process[jobs[y].resource].state \in {"live", "ended"}
      BY <2>1, <2>5 DEF ProcessInv, Busy
    <3>2. jobs[y].at = "working" => jobs[y].resource \in Workers
      BY <1>7, <2>5, JobFacts
    <3>3. QED
      BY <1>21, <3>1, <3>2
  <2>6. QED
    BY <2>1, <2>2, <2>3, <2>4, <2>5 DEF ProcessInv, Busy
<1>23. FlowInv'
  <2> DEFINE X == {x}
  <2>1. history' = history /\ rework' = rework /\ jobs' = jobs
    BY <1>5 DEF storeVars
  <2>2. \A e \in Upcoming' : e.kind = "worked" => e = ev \/ (e \in Evs(Rest) /\ e.job # x)
    BY <1>19 DEF Concerns, JobKinds
  <2>3. \A a \in Range(agenda') : a.ev.kind = "finish" => a \in Range(Rest) /\ a.ev.job # x
    <3>1. After(d, ev).ev = ev
      BY DEF After
    <3>2. \A a \in Range(Rest) : a.ev \in Evs(Rest)
      BY EvsRange
    <3>3. QED
      BY <1>16, <1>19, <3>1, <3>2 DEF Concerns, JobKinds
  <2>4. ASSUME NEW y \in Tasks, y # x, jobs[y].at = "working", jobs[y].stage = "qa_testing"
        PROVE  process'[jobs[y].resource].failed = process[jobs[y].resource].failed
    <3>1. jobs[y].resource \in Workers
      BY <1>7, <2>4, JobFacts
    <3>2. process[jobs[y].resource].of = y
      BY <1>7, <2>4 DEF LiveInv, ProcessInv
    <3>3. QED
      BY <1>21, <2>4, <3>1, <3>2
  <2>5. /\ jobs[x].stage = "development" => left'[x] = 0
        /\ jobs[x].stage = "qa_testing" => process'[r].failed \/ left'[x] = 0
    <3>1. jobs[x].stage = "development" => left'[x] = 0
      BY <1>8, <1>13, <1>14
    <3>2. ASSUME jobs[x].stage = "qa_testing", ~process'[r].failed  PROVE left'[x] = 0
      <4>1. process[r].of = x
        BY <1>2, <1>7, <1>8, <1>9, <3>2 DEF LiveInv, ProcessInv
      <4>2. ~failed
        BY <1>21, <3>2, <4>1
      <4>3. left[x] = 0
        <5>1. Head(agenda) \in Range(agenda) /\ Head(agenda).ev = Occurring
          BY <1>4, BeginAgenda
        <5>2. QED
          BY <1>1, <1>7, <3>2, <5>1 DEF LiveInv, FlowInv
      <4>4. QED
        BY <1>8, <1>13, <1>14, <3>2, <4>2, <4>3
    <3>3. QED
      BY <3>1, <3>2
  <2>6. X \subseteq Tasks /\ agenda' \in Seq(Dated) /\ left' \in [Tasks -> Nat]
    BY <1>8, <1>13, <1>19
  <2>7. \A e \in Upcoming' : e.kind = "worked" /\ e.job \in X =>
            /\ jobs'[e.job].stage = "development" /\ e.how = "returned" => left'[e.job] = 0
            /\ jobs'[e.job].stage = "qa_testing" =>
                  process'[jobs'[e.job].resource].failed \/ left'[e.job] = 0
            /\ jobs'[e.job].stage # "development" => e.how = "returned"
    BY <1>2, <1>16, <2>1, <2>2, <2>5
  <2>8. /\ \A y \in Tasks : y \notin X => jobs'[y] = jobs[y]
        /\ \A y \in Tasks : y \notin X /\ jobs[y].at = "working" => left'[y] = left[y]
        /\ \A y \in Tasks : y \notin X /\ jobs[y].at = "working" /\ jobs[y].stage = "qa_testing" =>
             process'[jobs[y].resource].failed = process[jobs[y].resource].failed
        /\ \A a \in Range(agenda') : a.ev.kind = "finish" => a.ev.job \notin X /\ a \in Range(Rest)
        /\ \A e \in Upcoming' : e.kind = "worked" /\ e.job \notin X => e \in Evs(Rest)
    BY <1>13, <1>14, <1>16, <2>1, <2>2, <2>3, <2>4
  <2> HIDE DEF X
  <2>9. FlowEvents'
    BY <1>4, <2>6, <2>7, <2>8, FlowFrame
  <2>10. FlowInv
    BY <1>7 DEF LiveInv
  <2>11. \A t \in Tasks : history'[t].state = "dev_complete" => left'[t] = 0
    <3>1. ASSUME NEW t \in Tasks, history[t].state = "dev_complete"  PROVE left'[t] = 0
      <4>1. t \notin Holds(x)
        BY <1>10, <1>14, <3>1 DEF Entry, WorkStates
      <4>2. QED
        BY <1>13, <2>10, <3>1, <4>1 DEF FlowInv
    <3>2. QED
      BY <2>1, <3>1
  <2>12. \A t \in Tasks : history'[t].state \in {"dev_complete", "qa_testing"} => t \notin rework'
    BY <2>1, <2>10 DEF FlowInv
  <2>13. QED
    BY <2>9, <2>11, <2>12 DEF FlowInv, FlowEvents
<1>24. TypeInv'
  <2>1. /\ setting' = setting /\ raised' = raised /\ items' = items
        /\ history' = history /\ alarm' = alarm /\ phase' = phase /\ arrivals' = arrivals
        /\ queue' = queue /\ listening' = listening /\ awaiting' = awaiting /\ jobs' = jobs
        /\ rework' = rework /\ suspended' = suspended /\ hired' = hired
        /\ waiters' = waiters /\ owners' = owners /\ pool' = pool
    BY <1>5 DEF storeVars, operatorVars, poolVars
  <2>2. phase' \in {"seeding", "running", "stopped"} /\ failures' \in 0..MaxFailures
    BY <1>6, <1>7, <1>11, <1>12, <2>1, TypesNow
  <2>3. QED
    BY <1>13, <1>19, <1>21, <2>1, <2>2, TypesNow, TypeStep
<1>25. \A t \in Tasks : Moves(t)
  <2>1. history' = history
    BY <1>5 DEF storeVars
  <2>2. ASSUME NEW t \in Tasks, t \notin Holds(x)  PROVE Moves(t)
    BY <1>13, <2>1, <2>2 DEF Moves
  <2>3. ASSUME NEW t \in Tasks, t \in Holds(x)  PROVE Moves(t)
    <3>1. history[t].state = jobs[x].stage /\ history'[t].state = jobs[x].stage
      BY <1>14, <2>1, <2>3 DEF Entry
    <3>2. left[t] \in Nat /\ left'[t] \in Nat
      BY <1>11, <1>13
    <3>3. CASE jobs[x].stage = "development"
      BY <1>13, <2>3, <3>1, <3>2, <3>3 DEF Moves
    <3>4. CASE jobs[x].stage = "qa_testing"
      BY <1>13, <2>3, <3>1, <3>2, <3>4 DEF Moves
    <3>5. CASE jobs[x].stage = "deployment"
      BY <1>13, <2>3, <3>1, <3>2, <3>5 DEF Moves
    <3>6. QED
      BY <1>10, <3>3, <3>4, <3>5 DEF WorkStates
  <2>4. QED
    BY <2>2, <2>3
<1>26. SignalsInv'
  BY <1>5, <1>19
<1>27. QED
  BY <1>19, <1>22, <1>23, <1>24, <1>25, <1>26 DEF KInv, LiveInv
=============================================================================
