------------------------- MODULE SdlcWorkflow_proofs ------------------------
(* The theorems about the simulation kernel: its types and invariant, that *)
(* tasks are in one place, that pools give resources away once, and that   *)
(* it implements TaskFlow. The steps that route tasks and those that start *)
(* jobs come first; the invariant and the other steps are in               *)
(* SdlcKernel_proofs.                                                      *)
EXTENDS SdlcKernel_proofs

-----------------------------------------------------------------------------
(* The tasks of a batch whose work has ended are routed (task_router.py).  *)

(* The put of a process serves a monitor, which takes a task out.          *)
Serves(its, gs) ==
    /\ OneOrNone(gs)
    /\ its \in [Stores -> Seq(Tasks)] /\ \A p \in Stores : IsInjective(its[p])
    /\ \A g \in Evs(gs) :
          /\ g \in Events /\ g.kind = "got" /\ g.stage \in listening /\ g.stage \in WorkStates
          /\ g.task \in Tasks /\ history[g.task] = Entry("start", Source(g.stage))
          /\ \E p \in Stores : g.task \in Range(items[p])
    /\ \A g, h \in Evs(gs) : g = h
    /\ \A p \in Stores, t \in Tasks : t \in Range(its[p]) <=>
          t \in Range(items[p]) /\ ~\E g \in Evs(gs) : g.task = t
    /\ its["delivery"] = items["delivery"]
    /\ \A e \in Range(gs) : Fits(setting.cadence, Evs(Rest), e) /\ e.due = 0 /\ e.ev \in Evs(gs)
    /\ listening' = listening \ {g.stage : g \in Evs(gs)}

(* A step that puts nothing serves nobody.                                 *)
LEMMA ServesNothing ==
  ASSUME KInv, Live, listening' = listening, NEW its, its = items, NEW gs, gs = <<>>
  PROVE  Serves(its, gs)
<1>1. OneOrNone(gs) /\ Range(gs) = {} /\ Evs(gs) = {}
  BY OneOrNoneFacts
<1>2. items \in [Stores -> Seq(Tasks)]
  BY TypesNow
<1>3. \A p \in Stores : IsInjective(items[p])
  BY DEF KInv, LiveInv, SeqsInv
<1>4. QED
  BY <1>1, <1>2, <1>3 DEF Serves

(* Serving the monitors of a store is of that form.                        *)
LEMMA ServesStore ==
  ASSUME KInv, NEW kind, Happens(kind), NEW store \in Stores, Serve(store),
         NEW its, its = ItemsLeft(store), NEW gs, gs = GotEvents(store)
  PROVE  Serves(its, gs)
<1>1. /\ OneOrNone(gs) /\ its \in [Stores -> Seq(Tasks)]
      /\ \A p \in Stores : IsInjective(its[p])
      /\ \A g \in Evs(gs) :
              /\ g \in Events /\ g.kind = "got" /\ g.stage \in listening /\ g.stage \in Served(store)
              /\ Source(g.stage) = store
              /\ g.task \in Range(items[store]) /\ g.task \in Tasks /\ store \in Open
              /\ history[g.task] = Entry("start", store)
      /\ \A g, h \in Evs(gs) : g = h
      /\ \A p \in Stores, t \in Tasks : t \in Range(its[p]) <=>
              t \in Range(items[p]) /\ ~(p = store /\ \E g \in Evs(gs) : g.task = t)
      /\ \A p \in Stores \ {store} : its[p] = items[p]
      /\ \A e \in Range(gs) : Fits(setting.cadence, Evs(Rest), e)
      /\ \A e \in Range(gs) : e.ev \in Evs(gs) /\ e.due = 0
  BY ServeFacts
<1>2. /\ Live /\ LiveInv /\ listening \subseteq WorkStates
  BY Begin DEF WorkflowTypeOK
<1>3. \A p \in Stores, t \in Tasks : t \in Range(its[p]) <=>
              t \in Range(items[p]) /\ ~\E g \in Evs(gs) : g.task = t
  <2>1. ASSUME NEW p \in Stores, NEW g \in Evs(gs), g.task \in Range(items[p])  PROVE p = store
    <3>1. In("store", p, g.task) /\ In("store", store, g.task) /\ g.task \in Tasks
      BY <1>1, <2>1 DEF In
    <3>2. "store" \in Spots /\ p \in Wheres /\ store \in Wheres
      BY DEF Spots, Wheres
    <3>3. QED
      BY <1>2, <3>1, <3>2 DEF LiveInv, SpotsInv
  <2>2. QED
    BY <1>1, <2>1
<1>4. its["delivery"] = items["delivery"]
  <2>1. CASE store # "delivery"
    BY <1>1, <2>1, Strings
  <2>2. CASE store = "delivery"
    <3>1. Served(store) = {}
      BY <1>2, <2>2, Strings DEF Served, Open
    <3>2. QED
      BY <3>1 DEF ItemsLeft
  <2>3. QED
    BY <2>1, <2>2
<1>5. listening' = listening \ {g.stage : g \in Evs(gs)}
  <2>1. ASSUME NEW s \in Served(store)  PROVE \E g \in Evs(gs) : g.stage = s
    <3>1. \A u \in Served(store) : u = s
      BY <1>2, <2>1, Strings DEF Served
    <3>2. PICK e : e = Now(Got(s, Head(items[store])))
      OBVIOUS
    <3>3. {Now(Got(u, Head(items[store]))) : u \in Served(store)} = {e}
      BY <2>1, <3>1, <3>2
    <3>4. gs = <<e>>
      BY <3>3, SetToSeqFacts DEF GotEvents
    <3>5. e.ev \in Evs(gs) /\ e.ev.stage = s
      BY <3>2, <3>4 DEF Evs, Now, Got
    <3>6. QED
      BY <3>5
  <2>2. \A s : s \in Served(store) <=> \E g \in Evs(gs) : g.stage = s
    BY <1>1, <2>1
  <2>3. QED
    BY <2>2 DEF Serve
<1>6. \A g \in Evs(gs) :
          /\ g \in Events /\ g.kind = "got" /\ g.stage \in listening /\ g.stage \in WorkStates
          /\ g.task \in Tasks /\ history[g.task] = Entry("start", Source(g.stage))
          /\ \E p \in Stores : g.task \in Range(items[p])
  BY <1>1, <1>2
<1>7. QED
  BY <1>1, <1>3, <1>4, <1>5, <1>6 DEF Serves

(* The routing of the next task of a job.                                  *)
RouteStep(x, its, gs, failed) ==
    /\ Concerns(Occurring, x) /\ Occurring.kind \in {"worked", "stored"}
    /\ Serves(its, gs)
    /\ jobs[x].todo # <<>> /\ failed \in BOOLEAN
    /\ Route(its, Schedule(Rest, gs), x, jobs[x], failed)
    /\ jobs[x].stage = "development" => ~failed /\ left[Head(jobs[x].todo)] = 0
    /\ jobs[x].stage = "qa_testing" /\ ~failed => left[Head(jobs[x].todo)] = 0
    /\ process' \in [Workers -> Processes]
    /\ \A q \in Workers :
          /\ process'[q].of = process[q].of /\ process'[q].failed = process[q].failed
          /\ \/ process'[q] = process[q]
             \/ process[q].of = x /\ q = jobs[x].resource /\ process'[q].state = "processed"
    /\ jobs[x].at = "working" /\ process[jobs[x].resource].of = x =>
          process'[jobs[x].resource].state = "processed"
    /\ UNCHANGED <<setting, left, suspended, failures, phase, arrivals,
                   queue, awaiting, poolVars>>

(* What is routed, and what its routing does.                              *)
RouteEffect(x, t, store, its, gs, failed) ==
    /\ jobs[x].at \in {"working", "routing"} /\ jobs[x] \in JobRecords
    /\ t = Head(jobs[x].todo) /\ t \in Tasks /\ t \in Holds(x)
    /\ Range(jobs[x].todo) = {t} \cup Range(Tail(jobs[x].todo))
    /\ t \notin Range(Tail(jobs[x].todo)) /\ IsInjective(Tail(jobs[x].todo))
    /\ Tail(jobs[x].todo) \in Seq(Tasks)
    /\ jobs[x].at = "working" => t = x
    /\ ~Windowed(setting.cadence, jobs[x].stage) =>
          t = x /\ Tail(jobs[x].todo) = <<>> /\ jobs[x].at = "working"
    /\ Holds(x) = Range(jobs[x].todo) /\ At(x) = jobs[x].stage
    /\ jobs[x].stage \in WorkStates /\ jobs[x].resource \in Range(Team[jobs[x].stage])
    /\ jobs[x].resource \in Workers
    /\ history[t] = Entry("start", jobs[x].stage)
    /\ \A k \in Spots, p \in Wheres : In(k, p, t) <=> k = "job" /\ p = x
    /\ store = Destination(jobs[x].stage, t, failed) /\ store \in Stores
    /\ IsSupport(t) => jobs[x].stage = "development"
    /\ items' = [its EXCEPT ![store] = Append(@, t)]
    /\ history' = [history EXCEPT ![t] = Written("store", store)]
    /\ raised' = {}
    /\ rework' = IF failed THEN rework \cup {t} ELSE rework \ {t}
    /\ jobs' = [jobs EXCEPT ![x] = [jobs[x] EXCEPT !.at = "routing", !.todo = Tail(@),
                                                   !.failed = failed]]
    /\ alarm' = IF Rings(its, store) THEN [alarm EXCEPT !.signal = "triggered"] ELSE alarm
    /\ agenda' = Schedule(Schedule(Rest, gs), PutEvents(its, store, t, x))
    /\ store = "delivery" =>
          /\ alarm.signal = "armed" /\ phase = "running" /\ alarm.limit = Len(Backlog)
          /\ jobs[x].stage = "deployment"
    /\ alarm.signal \in {"triggered", "processed"} => t \notin DevTasks
    /\ phase # "seeding" /\ phase # "over"
    /\ \A e \in Evs(Rest) : ~Concerns(e, x)
    /\ \A s \in WorkStates : x \notin Range(waiters[s])
    /\ \A r \in Workers : \A i \in DOMAIN suspended[r] :
          suspended[r][i].of = x => suspended[r][i].on
    /\ \A y \in Tasks : Concerns(Occurring, y) => y = x
    /\ x \in Holds(x) => t = x
    /\ jobs[x].at = "routing" => t # x

(* A step that routes has that effect: the task is in the job only, no     *)
(* history operation raises, and no put raises, since the alarm has not    *)
(* rung.                                                                   *)
LEMMA RouteFacts ==
  ASSUME KInv, NEW kind, Happens(kind), NEW x \in Tasks, NEW its, NEW gs, NEW failed,
         RouteStep(x, its, gs, failed)
  PROVE  \E t, store : RouteEffect(x, t, store, its, gs, failed)
<1>0. /\ Concerns(Occurring, x) /\ Occurring.kind \in {"worked", "stored"}
      /\ jobs[x].todo # <<>> /\ failed \in BOOLEAN
      /\ Route(its, Schedule(Rest, gs), x, jobs[x], failed)
      /\ jobs[x].stage = "development" => ~failed
  BY DEF RouteStep
<1>1. /\ Live /\ LiveInv /\ Occurring.kind = kind /\ phase # "over"
  BY Begin
<1>2. /\ jobs[x].at \in {"working", "routing"}
      /\ \A y : Concerns(Occurring, y) => y = x
      /\ \A e \in Evs(Rest) : ~Concerns(e, x)
      /\ \A s \in WorkStates : x \notin Range(waiters[s])
      /\ \A r \in Workers : \A i \in DOMAIN suspended[r] :
            suspended[r][i].of = x => suspended[r][i].on
  <2>1. StateOf(Occurring) \in {"working", "routing"}
    BY <1>0 DEF StateOf
  <2>2. QED
    BY <1>0, <2>1, HeadJob
<1>3. /\ jobs[x] \in JobRecords /\ jobs[x].stage \in WorkStates /\ jobs[x].todo \in Seq(Tasks)
      /\ jobs[x].batch # <<>> /\ Head(jobs[x].batch) = x /\ x \in Range(jobs[x].batch)
      /\ IsInjective(jobs[x].batch) /\ IsInjective(jobs[x].todo)
      /\ jobs[x].at = "working" => jobs[x].todo = jobs[x].batch /\ Holds(x) = Range(jobs[x].batch)
      /\ ~Windowed(setting.cadence, jobs[x].stage) => jobs[x].batch = <<x>>
      /\ jobs[x].resource \in Range(Team[jobs[x].stage]) /\ jobs[x].resource \in Workers
      /\ At(x) = jobs[x].stage /\ JobOK(x)
  BY <1>1, <1>2, JobFacts
<1>4. Holds(x) = Range(jobs[x].todo)
  BY <1>2, <1>3 DEF Holds
<1>5. PICK t : t = Head(jobs[x].todo)
  OBVIOUS
<1>6. /\ t \in Tasks /\ Tail(jobs[x].todo) \in Seq(Tasks)
      /\ Range(jobs[x].todo) = {t} \cup Range(Tail(jobs[x].todo))
      /\ t \notin Range(Tail(jobs[x].todo)) /\ IsInjective(Tail(jobs[x].todo))
  BY <1>0, <1>3, <1>5, TailFacts
<1>7. t \in Holds(x)
  BY <1>4, <1>6
<1>8. /\ jobs[x].at = "working" => t = x
      /\ jobs[x].at = "routing" => t # x /\ x \notin Holds(x)
      /\ x \in Holds(x) => t = x
  <2>1. jobs[x].at = "working" => t = x
    BY <1>3, <1>5
  <2>2. jobs[x].at = "routing" => x \notin Holds(x)
    BY <1>3 DEF JobOK
  <2>3. QED
    BY <1>2, <1>7, <2>1, <2>2
<1>9. ~Windowed(setting.cadence, jobs[x].stage) =>
          t = x /\ Tail(jobs[x].todo) = <<>> /\ jobs[x].at = "working"
  <2>1. HAVE ~Windowed(setting.cadence, jobs[x].stage)
  <2>2. jobs[x].at = "working"
    BY <1>0, <1>2, <1>3, <2>1 DEF JobOK
  <2>3. jobs[x].todo = <<x>>
    BY <1>3, <2>1, <2>2
  <2>4. Tail(<<x>>) = <<>>
    BY SingleFacts
  <2>5. QED
    BY <1>8, <2>2, <2>3, <2>4
<1>10. /\ \A k \in Spots, p \in Wheres : In(k, p, t) <=> k = "job" /\ p = x
       /\ history[t] = Entry("start", jobs[x].stage)
  <2>1. In("job", x, t) /\ "job" \in Spots /\ x \in Wheres
    BY <1>7 DEF In, Spots, Wheres
  <2>2. SpotsInv
    BY <1>1 DEF LiveInv
  <2>3. history[t] = Written("job", x) /\ Written("job", x) = Entry("start", jobs[x].stage)
    BY <1>3, <1>6, <2>1, <2>2 DEF SpotsInv, Written
  <2>4. QED
    BY <1>6, <2>1, <2>2, <2>3 DEF SpotsInv
<1>11. PICK store : store = Destination(jobs[x].stage, t, failed)
  OBVIOUS
<1>12. history[t].state = jobs[x].stage /\ history[t].type = "start"
  BY <1>10 DEF Entry
<1>13. IsSupport(t) => jobs[x].stage = "development"
  <2>1. IsSupport(t) => history[t].state \in {"none", "pending", "development", "support_complete"}
    BY <1>1, <1>6 DEF LiveInv, AlarmInv
  <2>2. QED
    BY <1>3, <1>12, <2>1 DEF WorkStates
<1>14. /\ store \in Stores /\ (store = "delivery" => jobs[x].stage = "deployment")
  BY <1>3, <1>11 DEF Destination, WorkStates, Stores, Open, Terminal
<1>15. alarm.signal \in {"triggered", "processed"} => t \notin DevTasks
  <2>1. alarm.signal \in {"triggered", "processed"} /\ t \in DevTasks =>
             history[t] = Entry("terminal", "delivery")
    BY <1>1 DEF LiveInv, AlarmInv
  <2>2. Entry("terminal", "delivery").type = "terminal"
    BY DEF Entry
  <2>3. QED
    BY <1>12, <2>1, <2>2
<1>16. phase # "seeding"
  <2>1. ~OfWorkflow(Occurring)
    BY <1>0, TaskFacts DEF OfWorkflow, Concerns, JobKinds
  <2>2. QED
    BY <2>1, SeedingHead
<1>17. store = "delivery" =>
          /\ alarm.signal = "armed" /\ phase = "running" /\ alarm.limit = Len(Backlog)
          /\ jobs[x].stage = "deployment"
  <2>1. HAVE store = "delivery"
  <2>2. t \in DevTasks
    BY <1>13, <1>14, <2>1 DEF IsSupport
  <2>3. alarm.signal \notin {"triggered", "processed"}
    BY <1>15, <2>2
  <2>4. phase \in {"running", "stopped"}
    BY <1>1, <1>16, TypesNow
  <2>5. PhaseInv
    BY <1>1 DEF LiveInv
  <2>6. QED
    BY <1>14, <2>1, <2>3, <2>4, <2>5 DEF PhaseInv
<1>18. /\ Put(its, store, t, End(history[t], jobs[x].stage))
       /\ agenda' = Schedule(Schedule(Rest, gs), PutEvents(its, store, t, x))
       /\ raised' = PutRaises(store)
       /\ rework' = IF failed THEN rework \cup {t} ELSE rework \ {t}
       /\ jobs' = [jobs EXCEPT ![x] = [jobs[x] EXCEPT !.at = "routing", !.todo = Tail(@),
                                                      !.failed = failed]]
  BY <1>0, <1>5, <1>11 DEF Route
<1>19. ~Blocked(store) /\ PutRaises(store) = {}
  BY <1>17 DEF Blocked, PutRaises
<1>20. Enter(End(history[t], jobs[x].stage), store) = Written("store", store)
  <2>1. End(history[t], jobs[x].stage) = Entry("end", jobs[x].stage)
    BY <1>3, <1>10, EntryFacts
  <2>2. QED
    BY <1>14, <2>1, EntryFacts
<1>21. /\ items' = [its EXCEPT ![store] = Append(@, t)]
       /\ history' = [history EXCEPT ![t] = Written("store", store)]
       /\ alarm' = IF Rings(its, store) THEN [alarm EXCEPT !.signal = "triggered"] ELSE alarm
       /\ raised' = {}
  BY <1>18, <1>19, <1>20 DEF Put
<1>22. RouteEffect(x, t, store, its, gs, failed)
  BY <1>1, <1>2, <1>3, <1>4, <1>5, <1>6, <1>7, <1>8, <1>9, <1>10, <1>11, <1>13, <1>14, <1>15,
     <1>16, <1>17, <1>18, <1>21 DEF RouteEffect
<1>23. QED
  BY <1>22

(* The alarm's event, if the put rings it.                                 *)
RingEvents(its, store) ==
    IF Rings(its, store) THEN {[kind |-> "alarm"]} ELSE {}

(* The agenda after the put: the put's event, and the alarm's, if it       *)
(* rings.                                                                  *)
LEMMA RouteAgenda ==
  ASSUME KInv, NEW kind, Happens(kind), NEW x \in Tasks, NEW its, NEW gs, NEW failed,
         RouteStep(x, its, gs, failed), NEW t, NEW store,
         RouteEffect(x, t, store, its, gs, failed)
  PROVE  /\ agenda' \in Seq(Dated) /\ Orderly(setting.cadence, agenda)' /\ Sorted'
         /\ \A a, b \in Range(agenda') : Precedes(agenda', a, b) =>
                ~(a.ev.kind = "assigned" /\ a.ev = b.ev)
         /\ Upcoming' = Evs(Rest) \cup Evs(gs) \cup {Stored(store, t, x)} \cup RingEvents(its, store)
         /\ \A a \in Range(agenda') : \/ a \in Range(Rest)
               \/ a.ev \in Evs(gs) \cup {Stored(store, t, x)} \cup RingEvents(its, store)
         /\ Stored(store, t, x) \in Events
<1>1. /\ Live /\ LiveInv /\ Occurring.kind = kind /\ setting \in Settings
      /\ SpotsInv /\ PhaseInv
  BY Begin DEF LiveInv
<1>2. /\ Rest \in Seq(Dated) /\ Orderly(setting.cadence, Rest)
      /\ Upcoming = {Occurring} \cup Evs(Rest) /\ Upcoming \subseteq Events
  BY BeginAgenda
<1>3. /\ setting' = setting /\ Serves(its, gs) /\ agenda' = Schedule(Schedule(Rest, gs), PutEvents(its, store, t, x))
      /\ t \in Tasks /\ store \in Stores /\ t \in Holds(x)
      /\ \A e \in Evs(Rest) : ~Concerns(e, x)
  BY DEF RouteStep, RouteEffect
<1>4. /\ OneOrNone(gs) /\ \A e \in Range(gs) : Fits(setting.cadence, Evs(Rest), e)
      /\ \A e \in Range(gs) : e.ev \in Evs(gs)
      /\ \A g \in Evs(gs) : /\ g.kind = "got" /\ g.task \in Tasks
                            /\ \E p \in Stores : g.task \in Range(items[p])
  BY <1>3 DEF Serves
<1>5. PICK st : st = Stored(store, t, x)
  OBVIOUS
<1>6. PICK al : al = [kind |-> "alarm"]
  OBVIOUS
<1>7. /\ st \in Events /\ st.kind = "stored" /\ st.by = x /\ st.task = t
      /\ al \in Events /\ al.kind = "alarm"
  <2>1. x \in Actors
    BY DEF Actors
  <2>2. QED
    BY <1>3, <1>5, <1>6, <2>1, EventTypes DEF Stored
<1>8. PICK fs : fs = <<Now(st)>>
  OBVIOUS
<1>9. PICK hs : hs = IF Rings(its, store) THEN <<Now(al)>> ELSE <<>>
  OBVIOUS
<1>10. /\ OneOrNone(fs) /\ Range(fs) = {Now(st)} /\ Evs(fs) = {st} /\ Now(st).ev = st
  BY <1>7, <1>8, NowFacts
<1>11. /\ OneOrNone(hs) /\ Evs(hs) = RingEvents(its, store)
       /\ \A e \in Range(hs) : e = Now(al) /\ e.ev = al /\ Rings(its, store)
       /\ fs \o hs = PutEvents(its, store, t, x)
  <2>1. CASE Rings(its, store)
    <3>1. hs = <<Now(al)>>
      BY <1>9, <2>1
    <3>2. OneOrNone(hs) /\ Range(hs) = {Now(al)} /\ Evs(hs) = {al} /\ Now(al).ev = al
      BY <1>7, <3>1, NowFacts
    <3>3. fs \o hs = PutEvents(its, store, t, x)
      BY <1>5, <1>6, <1>8, <2>1, <3>1 DEF PutEvents, Stored
    <3>4. QED
      BY <1>6, <2>1, <3>2, <3>3 DEF RingEvents
  <2>2. CASE ~Rings(its, store)
    <3>1. hs = <<>>
      BY <1>9, <2>2
    <3>2. OneOrNone(hs) /\ Range(hs) = {} /\ Evs(hs) = {}
      BY <3>1, OneOrNoneFacts
    <3>3. fs \o hs = PutEvents(its, store, t, x)
      BY <1>5, <1>8, <2>2, <3>1 DEF PutEvents, Stored
    <3>4. QED
      BY <2>2, <3>2, <3>3 DEF RingEvents
  <2>3. QED
    BY <2>1, <2>2
<1>12. \A e \in Range(fs) : Fits(setting.cadence, Evs(Rest) \cup Evs(gs), e)
  <2>1. ASSUME NEW f \in Evs(Rest) \cup Evs(gs)
        PROVE  ~Clash(f, st) /\ ~TooLate(setting.cadence, f, st)
    <3>1. f.kind = "got" => f.task # t
      <4>1. CASE f \in Evs(gs)
        <5>1. PICK p \in Stores : f.task \in Range(items[p])
          BY <1>4, <4>1
        <5>2. In("store", p, f.task) /\ "store" \in Spots /\ p \in Wheres
          BY <5>1 DEF In, Spots, Wheres
        <5>3. \A k \in Spots, q \in Wheres : In(k, q, t) <=> k = "job" /\ q = x
          BY DEF RouteEffect
        <5>4. QED
          BY <5>2, <5>3
      <4>2. CASE f \in Evs(Rest) /\ f.kind = "got"
        <5>1. f \in Upcoming /\ f.stage \in WorkStates
          BY <1>2, <4>2, EventFields
        <5>2. In("got", f.stage, f.task) /\ "got" \in Spots /\ f.stage \in Wheres
          BY <4>2, <5>1 DEF In, Spots, Wheres
        <5>3. \A k \in Spots, q \in Wheres : In(k, q, t) <=> k = "job" /\ q = x
          BY DEF RouteEffect
        <5>4. QED
          BY <5>2, <5>3
      <4>3. QED
        BY <4>1, <4>2
    <3>2. ~Concerns(f, x)
      BY <1>3, <1>4 DEF Concerns, JobKinds
    <3>3. ~TooLate(setting.cadence, f, st)
      BY <1>7, <3>1 DEF TooLate
    <3>4. \A u \in Tasks : Concerns(st, u) => u = x
      BY <1>7 DEF Concerns, JobKinds
    <3>5. ~OfWorkflow(st) /\ ~OfGenerator(st)
      BY <1>7, TaskFacts DEF OfWorkflow, OfGenerator
    <3>6. ~Clash(f, st)
      BY <1>7, <3>2, <3>4, <3>5 DEF Clash
    <3>7. QED
      BY <3>3, <3>6
  <2>2. Fits(setting.cadence, Evs(Rest) \cup Evs(gs), Now(st))
    BY <1>7, <2>1, FitsNow
  <2>3. QED
    BY <1>10, <2>2
<1>13. \A e \in Range(hs) : Fits(setting.cadence, Evs(Rest) \cup Evs(gs) \cup Evs(fs), e)
  <2>1. ASSUME Rings(its, store), NEW f \in Evs(Rest) \cup Evs(gs) \cup Evs(fs)
        PROVE  ~Clash(f, al) /\ ~TooLate(setting.cadence, f, al)
    <3>1. f.kind # "alarm"
      <4>1. f \in Evs(Rest) => f \in Upcoming
        BY <1>2
      <4>2. alarm.signal # "triggered"
        BY <2>1 DEF Rings
      <4>3. QED
        BY <1>1, <1>4, <1>7, <1>10, <4>1, <4>2 DEF PhaseInv
    <3>2. ~Clash(f, al)
      BY <1>7, <3>1 DEF Clash, OfWorkflow, OfGenerator, Concerns, JobKinds
    <3>3. ~TooLate(setting.cadence, f, al)
      BY <1>7 DEF TooLate
    <3>4. QED
      BY <3>2, <3>3
  <2>2. ASSUME Rings(its, store)
        PROVE  Fits(setting.cadence, Evs(Rest) \cup Evs(gs) \cup Evs(fs), Now(al))
    BY <1>7, <2>1, <2>2, FitsNow
  <2>3. QED
    BY <1>11, <2>2
<1>14. PICK q1, q2 : q1 = Schedule(Rest, gs) /\ q2 = Schedule(q1, fs)
  OBVIOUS
<1>15. /\ q1 \in Seq(Dated) /\ Orderly(setting.cadence, q1)
       /\ Range(q1) = Range(Rest) \cup Range(gs) /\ Evs(q1) = Evs(Rest) \cup Evs(gs)
  BY <1>2, <1>4, <1>14, AgendaGrows
<1>16. /\ q2 \in Seq(Dated) /\ Orderly(setting.cadence, q2)
       /\ Range(q2) = Range(q1) \cup Range(fs) /\ Evs(q2) = Evs(q1) \cup Evs(fs)
  <2>1. \A e \in Range(fs) : Fits(setting.cadence, Evs(q1), e)
    BY <1>12, <1>15
  <2>2. QED
    BY <1>10, <1>14, <1>15, <2>1, AgendaGrows
<1>17. agenda' = Schedule(q2, hs)
  <2>1. fs \in Seq(Dated) /\ hs \in Seq(Dated) /\ (hs = <<>> \/ \E e \in Dated : hs = <<e>>)
    BY <1>10, <1>11 DEF OneOrNone
  <2>2. Schedule(q1, fs \o hs) = Schedule(Schedule(q1, fs), hs)
    BY <2>1, ScheduleMore
  <2>3. QED
    BY <1>3, <1>11, <1>14, <2>2
<1>18. /\ agenda' \in Seq(Dated) /\ Orderly(setting.cadence, agenda')
       /\ Range(agenda') = Range(q2) \cup Range(hs) /\ Evs(agenda') = Evs(q2) \cup Evs(hs)
  <2>1. \A e \in Range(hs) : Fits(setting.cadence, Evs(q2), e)
    BY <1>13, <1>15, <1>16
  <2>2. PICK q3 : q3 = Schedule(q2, hs)
    OBVIOUS
  <2>3. /\ q3 \in Seq(Dated) /\ Orderly(setting.cadence, q3)
        /\ Range(q3) = Range(q2) \cup Range(hs) /\ Evs(q3) = Evs(q2) \cup Evs(hs)
    <3>1. OneOrNone(hs)
      BY <1>11
    <3>2. q2 \in Seq(Dated) /\ Orderly(setting.cadence, q2)
      BY <1>16
    <3>3. QED
      BY <2>1, <2>2, <3>1, <3>2, AgendaGrows
  <2>4. QED
    BY <1>17, <2>2, <2>3
<1>19. /\ Orderly(setting.cadence, agenda)' /\ Sorted'
       /\ \A a, b \in Range(agenda') : Precedes(agenda', a, b) =>
                ~(a.ev.kind = "assigned" /\ a.ev = b.ev)
  BY <1>3, <1>18, OrderlyAgenda
<1>20. Upcoming' = Evs(Rest) \cup Evs(gs) \cup {Stored(store, t, x)} \cup RingEvents(its, store)
  <2>1. Upcoming' = Evs(agenda')
    BY DEF Upcoming, Evs
  <2>2. QED
    BY <1>5, <1>10, <1>11, <1>15, <1>16, <1>18, <2>1
<1>21. \A a \in Range(agenda') : \/ a \in Range(Rest)
               \/ a.ev \in Evs(gs) \cup {Stored(store, t, x)} \cup RingEvents(its, store)
  <2>1. Range(agenda') = Range(Rest) \cup Range(gs) \cup Range(fs) \cup Range(hs)
    BY <1>15, <1>16, <1>18
  <2>2. \A a \in Range(hs) : a.ev \in RingEvents(its, store)
    BY <1>6, <1>11 DEF RingEvents
  <2>3. \A a \in Range(fs) : a.ev = Stored(store, t, x)
    BY <1>5, <1>10
  <2>4. QED
    BY <1>4, <2>1, <2>2, <2>3
<1>22. QED
  BY <1>5, <1>7, <1>18, <1>19, <1>20, <1>21

(* What is stored after the put.                                           *)
LEMMA RouteItems ==
  ASSUME KInv, NEW kind, Happens(kind), NEW x \in Tasks, NEW its, NEW gs, NEW failed,
         RouteStep(x, its, gs, failed), NEW t, NEW store,
         RouteEffect(x, t, store, its, gs, failed)
  PROVE  /\ items' \in [Stores -> Seq(Tasks)] /\ \A p \in Stores : IsInjective(items'[p])
         /\ \A p \in Stores, u \in Tasks : u \in Range(items'[p]) <=>
               \/ p = store /\ u = t
               \/ u \in Range(items[p]) /\ ~\E g \in Evs(gs) : g.task = u
         /\ history' \in [Tasks -> Entries] /\ history'[t] = Written("store", store)
         /\ history'[t].state = store /\ \A u \in Tasks : u # t => history'[u] = history[u]
         /\ \A u \in Tasks : history'[u] # Invalid
         /\ \A u \in Tasks : history[u] = NoEntry => history'[u] = NoEntry
         /\ \A g \in Evs(gs) : g.task # t
<1>1. Serves(its, gs)
  BY DEF RouteStep
<1>2. /\ t \in Tasks /\ store \in Stores
      /\ items' = [its EXCEPT ![store] = Append(@, t)]
      /\ history' = [history EXCEPT ![t] = Written("store", store)]
      /\ \A k \in Spots, q \in Wheres : In(k, q, t) <=> k = "job" /\ q = x
      /\ history[t] = Entry("start", jobs[x].stage) /\ jobs[x].stage \in WorkStates
  BY DEF RouteEffect
<1>3. /\ its \in [Stores -> Seq(Tasks)] /\ \A p \in Stores : IsInjective(its[p])
      /\ \A p \in Stores, u \in Tasks : u \in Range(its[p]) <=>
            u \in Range(items[p]) /\ ~\E g \in Evs(gs) : g.task = u
      /\ \A g \in Evs(gs) : g.task \in Tasks /\ \E p \in Stores : g.task \in Range(items[p])
  BY <1>1 DEF Serves
<1>4. \A p \in Stores : t \notin Range(items[p])
  BY <1>2 DEF In, Spots, Wheres
<1>5. t \notin Range(its[store])
  BY <1>2, <1>3, <1>4
<1>6. PICK z : z = its[store]
  OBVIOUS
<1>7. /\ Append(z, t) \in Seq(Tasks) /\ Range(Append(z, t)) = Range(z) \cup {t}
      /\ IsInjective(Append(z, t))
  <2>1. z \in Seq(Tasks) /\ IsInjective(z) /\ t \notin Range(z)
    BY <1>2, <1>3, <1>5, <1>6
  <2>2. QED
    BY <1>2, <2>1, AppendFacts
<1>8. items'[store] = Append(z, t) /\ \A p \in Stores : p # store => items'[p] = its[p]
  BY <1>2, <1>3, <1>6
<1>9. items' \in [Stores -> Seq(Tasks)] /\ \A p \in Stores : IsInjective(items'[p])
  <2>1. items' = [its EXCEPT ![store] = Append(z, t)]
    BY <1>2, <1>6
  <2>2. QED
    BY <1>2, <1>3, <1>7, <1>8, <2>1
<1>10. \A p \in Stores, u \in Tasks : u \in Range(items'[p]) <=>
               \/ p = store /\ u = t
               \/ u \in Range(items[p]) /\ ~\E g \in Evs(gs) : g.task = u
  <2>1. ASSUME NEW p \in Stores, NEW u \in Tasks
        PROVE u \in Range(items'[p]) <=> \/ p = store /\ u = t
                                         \/ u \in Range(its[p])
    <3>1. CASE p = store
      BY <1>6, <1>7, <1>8, <3>1
    <3>2. CASE p # store
      <4>1. items'[p] = its[p]
        BY <1>8, <3>2
      <4>2. QED
        BY <3>2, <4>1
    <3>3. QED
      BY <3>1, <3>2
  <2>2. QED
    BY <1>3, <2>1
<1>11. /\ Written("store", store) \in Entries /\ Written("store", store) # Invalid
       /\ Written("store", store).state = store
  BY <1>2, EntryFacts DEF Stores
<1>12. /\ history \in [Tasks -> Entries] /\ \A u \in Tasks : history[u] # Invalid
  BY TypesNow
<1>13. history[t] # NoEntry
  BY <1>2, EntryFacts
<1>14. /\ history' \in [Tasks -> Entries] /\ history'[t] = Written("store", store)
       /\ \A u \in Tasks : u # t => history'[u] = history[u]
  BY <1>2, <1>11, <1>12
<1>15. QED
  BY <1>3, <1>4, <1>9, <1>10, <1>11, <1>12, <1>13, <1>14

(* The last task rings the alarm: everything is then delivered.            *)
LEMMA AllDelivered ==
  ASSUME NEW q \in Seq(Tasks), IsInjective(q), Len(q) = Len(Backlog),
         \A u \in Range(q) : u \in DevTasks
  PROVE  DevTasks \subseteq Range(q)
<1>1. PICK n : n = Len(Backlog)
  OBVIOUS
<1>2. n \in Nat /\ Backlog \in Seq(Tasks)
  BY <1>1, BacklogFacts
<1>3. IsFiniteSet(1..n) /\ Cardinality(1..n) = n
  <2>1. IsFiniteSet(1..n) /\ Cardinality(1..n) = IF 1 > n THEN 0 ELSE n - 1 + 1
    BY <1>2, FS_Interval
  <2>2. QED
    BY <1>2, <2>1
<1>4. IsFiniteSet(DevTasks) /\ Cardinality(DevTasks) <= n
  <2>1. PICK f : f = [i \in 1..n |-> Backlog[i]]
    OBVIOUS
  <2>2. f \in Surjection(1..n, DevTasks)
    BY <1>1, <2>1, InjectiveFacts DEF Surjection
  <2>3. QED
    BY <1>3, <2>2, FS_Surjection
<1>5. IsFiniteSet(Range(q)) /\ Cardinality(Range(q)) = n
  <2>1. PICK f : f = [i \in 1..n |-> q[i]]
    OBVIOUS
  <2>2. f \in Surjection(1..n, Range(q)) /\ f \in Injection(1..n, Range(q))
    <3>1. DOMAIN q = 1..n
      BY <1>1
    <3>2. f \in [1..n -> Range(q)]
      BY <2>1, <3>1 DEF Range
    <3>3. \A i, j \in 1..n : f[i] = f[j] => i = j
      BY <2>1, <3>1 DEF IsInjective
    <3>4. \A v \in Range(q) : \E i \in 1..n : f[i] = v
      BY <2>1, <3>1 DEF Range
    <3>5. f \in Surjection(1..n, Range(q))
      BY <3>2, <3>4 DEF Surjection
    <3>6. f \in Injection(1..n, Range(q))
      BY <3>2, <3>3 DEF Injection, IsInjective
    <3>7. QED
      BY <3>5, <3>6
  <2>3. QED
    BY <1>3, <2>2, FS_Surjection
<1>6. QED
  <2>1. Range(q) \subseteq DevTasks
    BY DEF Range
  <2>2. Cardinality(DevTasks) \in Nat
    BY <1>4, FS_CardinalityType
  <2>3. Cardinality(Range(q)) <= Cardinality(DevTasks) /\
        (Cardinality(DevTasks) = Cardinality(Range(q)) => Range(q) = DevTasks)
    BY <1>4, <2>1, FS_Subset
  <2>4. QED
    BY <1>2, <1>4, <1>5, <2>2, <2>3

(* The routed job, and the events of the step.                             *)
Routed(x, t, store, gs, failed) ==
    /\ jobs'[x] \in JobRecords /\ jobs'[x].at = "routing" /\ jobs'[x].stage = jobs[x].stage
    /\ jobs'[x].batch = jobs[x].batch /\ jobs'[x].resource = jobs[x].resource
    /\ jobs'[x].pooled = jobs[x].pooled /\ jobs'[x].todo = Tail(jobs[x].todo)
    /\ \A y \in Tasks : y # x => jobs'[y] = jobs[y]
    /\ jobs' \in [Tasks -> {NoJob} \cup JobRecords]
    /\ \A y \in Tasks : y # x => Holds(y)' = Holds(y) /\ At(y)' = At(y)
    /\ At(x)' = At(x)
    /\ \A u \in Tasks : u \in Holds(x)' <=> u \in Holds(x) /\ u # t
    /\ \A e \in Upcoming' : \/ e \in Evs(Rest) \/ e \in Evs(gs)
                            \/ e = Stored(store, t, x) \/ e.kind = "alarm"
    /\ \A e \in Evs(Rest) : e \in Upcoming'
    /\ \A e \in Evs(gs) : e \in Upcoming' /\ e.kind = "got"
    /\ Stored(store, t, x) \in Upcoming'
    /\ \A e : e.kind = "trigger" => (e \in Upcoming' <=> e \in Upcoming)
    /\ \A e : e.kind = "got" => (e \in Upcoming' <=> e \in Upcoming \/ e \in Evs(gs))

(* So are they after a step that routes.                                   *)
LEMMA RoutedFacts ==
  ASSUME KInv, NEW kind, Happens(kind), NEW x \in Tasks, NEW its, NEW gs, NEW failed,
         RouteStep(x, its, gs, failed), NEW t, NEW store,
         RouteEffect(x, t, store, its, gs, failed)
  PROVE  Routed(x, t, store, gs, failed)
<1>1. /\ jobs[x].at \in {"working", "routing"} /\ jobs[x] \in JobRecords
      /\ Range(jobs[x].todo) = {t} \cup Range(Tail(jobs[x].todo))
      /\ t \notin Range(Tail(jobs[x].todo)) /\ Tail(jobs[x].todo) \in Seq(Tasks)
      /\ Holds(x) = Range(jobs[x].todo) /\ At(x) = jobs[x].stage
      /\ jobs' = [jobs EXCEPT ![x] = [jobs[x] EXCEPT !.at = "routing", !.todo = Tail(@),
                                                     !.failed = failed]]
  BY DEF RouteEffect
<1>2. /\ failed \in BOOLEAN /\ Occurring.kind \in {"worked", "stored"} /\ Serves(its, gs)
  BY DEF RouteStep
<1>3. jobs \in [Tasks -> {NoJob} \cup JobRecords]
  BY TypesNow
<1>4. PICK job : job = [jobs[x] EXCEPT !.at = "routing", !.todo = Tail(@), !.failed = failed]
  OBVIOUS
<1>5. /\ job \in JobRecords /\ job.at = "routing" /\ job.stage = jobs[x].stage
      /\ job.batch = jobs[x].batch /\ job.resource = jobs[x].resource
      /\ job.pooled = jobs[x].pooled /\ job.todo = Tail(jobs[x].todo)
  BY <1>1, <1>2, <1>4 DEF JobRecords
<1>6. /\ jobs'[x] = job /\ \A y \in Tasks : y # x => jobs'[y] = jobs[y]
      /\ jobs' \in [Tasks -> {NoJob} \cup JobRecords]
  BY <1>1, <1>3, <1>4, <1>5
<1>7. \A y \in Tasks : y # x => Holds(y)' = Holds(y) /\ At(y)' = At(y)
  BY <1>6 DEF Holds, At
<1>8. At(x)' = At(x) /\ Holds(x)' = Range(Tail(jobs[x].todo))
  BY <1>1, <1>5, <1>6 DEF Holds, At
<1>9. \A u \in Tasks : u \in Holds(x)' <=> u \in Holds(x) /\ u # t
  BY <1>1, <1>8
<1>10. Upcoming' = Evs(Rest) \cup Evs(gs) \cup {Stored(store, t, x)} \cup RingEvents(its, store)
  BY RouteAgenda
<1>11. Upcoming = {Occurring} \cup Evs(Rest)
  BY BeginAgenda
<1>12. \A e \in RingEvents(its, store) : e.kind = "alarm"
  BY DEF RingEvents
<1>13. \A e \in Evs(gs) : e.kind = "got"
  BY <1>2 DEF Serves
<1>14. Stored(store, t, x).kind = "stored"
  BY DEF Stored
<1>15. /\ \A e \in Upcoming' : \/ e \in Evs(Rest) \/ e \in Evs(gs)
                            \/ e = Stored(store, t, x) \/ e.kind = "alarm"
       /\ \A e \in Evs(Rest) : e \in Upcoming'
       /\ \A e \in Evs(gs) : e \in Upcoming' /\ e.kind = "got"
       /\ Stored(store, t, x) \in Upcoming'
  BY <1>10, <1>12, <1>13
<1>16. /\ \A e : e.kind = "trigger" => (e \in Upcoming' <=> e \in Upcoming)
       /\ \A e : e.kind = "got" => (e \in Upcoming' <=> e \in Upcoming \/ e \in Evs(gs))
  BY <1>2, <1>11, <1>13, <1>14, <1>15
<1>17. QED
  BY <1>5, <1>6, <1>7, <1>8, <1>9, <1>15, <1>16 DEF Routed

(* The task is in the store it was put to, and nowhere else.               *)
LEMMA RouteSpots ==
  ASSUME KInv, NEW kind, Happens(kind), NEW x \in Tasks, NEW its, NEW gs, NEW failed,
         RouteStep(x, its, gs, failed), NEW t, NEW store,
         RouteEffect(x, t, store, its, gs, failed)
  PROVE  SpotsInv' /\ SeqsInv'
<1>1. Routed(x, t, store, gs, failed)
  BY RoutedFacts
<1>2. /\ \A p \in Stores : IsInjective(items'[p])
      /\ \A p \in Stores, u \in Tasks : u \in Range(items'[p]) <=>
               \/ p = store /\ u = t
               \/ u \in Range(items[p]) /\ ~\E g \in Evs(gs) : g.task = u
      /\ history'[t] = Written("store", store)
      /\ \A u \in Tasks : u # t => history'[u] = history[u]
      /\ \A g \in Evs(gs) : g.task # t
  BY RouteItems
<1>3. /\ t \in Tasks /\ store \in Stores /\ phase # "seeding"
      /\ \A k \in Spots, p \in Wheres : In(k, p, t) <=> k = "job" /\ p = x
  BY DEF RouteEffect
<1>4. /\ Serves(its, gs) /\ setting' = setting /\ phase' = phase /\ queue' = queue
  BY DEF RouteStep
<1>5. Live /\ SpotsInv /\ SeqsInv
  BY Begin DEF LiveInv
<1>6. \A g \in Evs(gs) :
          /\ g.kind = "got" /\ g.stage \in WorkStates
          /\ g.task \in Tasks /\ history[g.task] = Entry("start", Source(g.stage))
          /\ \E p \in Stores : g.task \in Range(items[p])
  BY <1>4 DEF Serves
<1>7. \A g, h \in Evs(gs) : g = h
  BY <1>4 DEF Serves
<1>8. ASSUME NEW u \in Tasks, NEW k \in Spots, NEW p \in Wheres
      PROVE  In(k, p, u)' <=>
               \/ In(k, p, u) /\ u # t /\ ~(k = "store" /\ \E g \in Evs(gs) : g.task = u)
               \/ k = "got" /\ \E g \in Evs(gs) : g.stage = p /\ g.task = u
               \/ u = t /\ k = "store" /\ p = store
  <2>1. CASE k = "store"
    <3>1. In(k, p, u)' <=> p \in Stores /\ u \in Range(items'[p])
      BY <2>1 DEF In
    <3>2. In(k, p, u) <=> p \in Stores /\ u \in Range(items[p])
      BY <2>1 DEF In
    <3>3. u = t => ~In(k, p, u)
      BY <1>3, <2>1
    <3>4. QED
      BY <1>2, <1>3, <2>1, <3>1, <3>2, <3>3
  <2>2. CASE k = "queue"
    <3>1. u = t => ~In(k, p, u)
      BY <1>3, <2>2
    <3>2. In(k, p, u)' <=> In(k, p, u)
      BY <1>4, <2>2 DEF In
    <3>3. QED
      BY <2>2, <3>1, <3>2
  <2>3. CASE k = "got"
    <3>1. In(k, p, u)' <=> p \in WorkStates /\ \E e \in Upcoming' : e.kind = "got" /\ e.stage = p /\ e.task = u
      BY <2>3 DEF In
    <3>2. In(k, p, u) <=> p \in WorkStates /\ \E e \in Upcoming : e.kind = "got" /\ e.stage = p /\ e.task = u
      BY <2>3 DEF In
    <3>3. u = t => ~In(k, p, u)
      BY <1>3, <2>3
    <3>4. \A e : e.kind = "got" => (e \in Upcoming' <=> e \in Upcoming \/ e \in Evs(gs))
      BY <1>1 DEF Routed
    <3>5. In(k, p, u)' <=> In(k, p, u) \/ \E g \in Evs(gs) : g.stage = p /\ g.task = u
      BY <1>6, <3>1, <3>2, <3>4
    <3>6. QED
      BY <2>3, <3>3, <3>5
  <2>4. CASE k = "trigger"
    <3>1. u = t => ~In(k, p, u)
      BY <1>3, <2>4
    <3>2. \A e : e.kind = "trigger" => (e \in Upcoming' <=> e \in Upcoming)
      BY <1>1 DEF Routed
    <3>3. In(k, p, u)' <=> In(k, p, u)
      BY <2>4, <3>2 DEF In
    <3>4. QED
      BY <2>4, <3>1, <3>3
  <2>5. CASE k = "job"
    <3>1. In(k, p, u) <=> p \in Tasks /\ u \in Holds(p)
      BY <2>5 DEF In
    <3>2. In(k, p, u)' <=> p \in Tasks /\ u \in Holds(p)'
      BY <2>5 DEF In
    <3>3. /\ \A y \in Tasks : y # x => Holds(y)' = Holds(y)
          /\ u \in Holds(x)' <=> u \in Holds(x) /\ u # t
      BY <1>1 DEF Routed
    <3>4. u = t => (In(k, p, u) <=> p = x)
      BY <1>3, <2>5
    <3>5. QED
      BY <2>5, <3>1, <3>2, <3>3, <3>4
  <2>6. QED
    BY <2>1, <2>2, <2>3, <2>4, <2>5 DEF Spots
<1>9. ASSUME NEW u \in Tasks
      PROVE  \/ /\ history'[u] = history[u]
                /\ \A k \in Spots, p \in Wheres : In(k, p, u)' <=> In(k, p, u)
                /\ \A p \in Tasks : u \in Holds(p) => At(p)' = At(p)
             \/ \E k1 \in Spots, p1 \in Wheres :
                   /\ history'[u] = Written(k1, p1)'
                   /\ \A k \in Spots, p \in Wheres : In(k, p, u)' <=> k = k1 /\ p = p1
  <2>1. CASE u = t
    <3>1. "store" \in Spots /\ store \in Wheres
      BY <1>3 DEF Spots, Wheres
    <3>2. history'[u] = Written("store", store)'
      BY <1>2, <2>1 DEF Written
    <3>3. \A k \in Spots, p \in Wheres : In(k, p, u)' <=> k = "store" /\ p = store
      BY <1>2, <1>8, <2>1
    <3>4. QED
      BY <3>1, <3>2, <3>3
  <2>2. ASSUME NEW g \in Evs(gs), g.task = u
        PROVE  \E k1 \in Spots, p1 \in Wheres :
                     /\ history'[u] = Written(k1, p1)'
                     /\ \A k \in Spots, p \in Wheres : In(k, p, u)' <=> k = k1 /\ p = p1
    <3>1. u # t
      BY <1>2, <2>2
    <3>2. g.stage \in WorkStates /\ g.stage \in Wheres /\ "got" \in Spots
      BY <1>6 DEF Wheres, Spots
    <3>3. PICK q \in Stores : u \in Range(items[q])
      BY <1>6, <2>2
    <3>4. In("store", q, u) /\ "store" \in Spots /\ q \in Wheres
      BY <3>3 DEF In, Spots, Wheres
    <3>5. \A k \in Spots, p \in Wheres : In(k, p, u) => k = "store"
      BY <1>5, <3>4 DEF SpotsInv
    <3>6. \A k \in Spots, p \in Wheres : In(k, p, u)' <=> k = "got" /\ p = g.stage
      BY <1>7, <1>8, <2>2, <3>1, <3>5
    <3>7. history'[u] = Written("got", g.stage)'
      BY <1>2, <1>6, <2>2, <3>1 DEF Written
    <3>8. QED
      BY <3>2, <3>6, <3>7
  <2>3. CASE u # t /\ ~\E g \in Evs(gs) : g.task = u
    <3>1. \A k \in Spots, p \in Wheres : In(k, p, u)' <=> In(k, p, u)
      BY <1>8, <2>3
    <3>2. history'[u] = history[u]
      BY <1>2, <2>3
    <3>3. \A p \in Tasks : At(p)' = At(p)
      BY <1>1 DEF Routed
    <3>4. QED
      BY <3>1, <3>2, <3>3
  <2>4. QED
    BY <2>1, <2>2, <2>3
<1>10. phase = "stopped" => phase' = "stopped"
  BY <1>4
<1>11. SpotsInv'
  BY <1>5, <1>9, <1>10, SpotsMove
<1>12. SeqsInv'
  <2>1. \A e \in Upcoming' : e.kind = "trigger" => e \in Upcoming
    BY <1>1 DEF Routed
  <2>2. QED
    BY <1>2, <1>4, <1>5, <2>1 DEF SeqsInv, Windowed
<1>13. QED
  BY <1>11, <1>12

(* The alarm rings if all are delivered.                                   *)
LEMMA RouteAlarm ==
  ASSUME KInv, NEW kind, Happens(kind), NEW x \in Tasks, NEW its, NEW gs, NEW failed,
         RouteStep(x, its, gs, failed), NEW t, NEW store,
         RouteEffect(x, t, store, its, gs, failed)
  PROVE  /\ AlarmInv'
         /\ alarm' \in [limit : Nat, signal : {"off", "armed", "triggered", "processed"}]
         /\ alarm'.limit = alarm.limit
         /\ alarm'.signal = alarm.signal
              \/ (alarm.signal = "armed" /\ alarm'.signal = "triggered")
         /\ Rings(its, store) => alarm'.signal = "triggered"
<1>1. /\ items' \in [Stores -> Seq(Tasks)] /\ \A p \in Stores : IsInjective(items'[p])
      /\ history'[t] = Written("store", store) /\ history'[t].state = store
      /\ \A u \in Tasks : u # t => history'[u] = history[u]
  BY RouteItems
<1>2. /\ t \in Tasks /\ store \in Stores
      /\ items' = [its EXCEPT ![store] = Append(@, t)]
      /\ alarm' = IF Rings(its, store) THEN [alarm EXCEPT !.signal = "triggered"] ELSE alarm
      /\ store = "delivery" => alarm.signal = "armed" /\ alarm.limit = Len(Backlog)
      /\ alarm.signal \in {"triggered", "processed"} => t \notin DevTasks
      /\ IsSupport(t) => jobs[x].stage = "development"
      /\ store = Destination(jobs[x].stage, t, failed)
  BY DEF RouteEffect
<1>3. its \in [Stores -> Seq(Tasks)] /\ its["delivery"] = items["delivery"]
  BY DEF RouteStep, Serves
<1>4. Live /\ AlarmInv
  BY Begin DEF LiveInv
<1>5. alarm \in [limit : Nat, signal : {"off", "armed", "triggered", "processed"}]
  BY TypesNow
<1>6. /\ Rings(its, store) => /\ alarm'.signal = "triggered" /\ alarm'.limit = alarm.limit
                              /\ alarm.signal = "armed" /\ store = "delivery"
      /\ ~Rings(its, store) => alarm' = alarm
      /\ alarm' \in [limit : Nat, signal : {"off", "armed", "triggered", "processed"}]
  BY <1>2, <1>5 DEF Rings
<1>7. SpotsInv'
  BY RouteSpots
<1>8. \A u \in Tasks : IsSupport(u) =>
         history'[u].state \in {"none", "pending", "development", "support_complete"}
  <2>1. ASSUME NEW u \in Tasks, IsSupport(u)
        PROVE  history'[u].state \in {"none", "pending", "development", "support_complete"}
    <3>1. CASE u = t
      <4>1. store = "support_complete"
        BY <1>2, <2>1, <3>1 DEF Destination
      <4>2. QED
        BY <1>1, <3>1, <4>1
    <3>2. CASE u # t
      BY <1>1, <1>4, <2>1, <3>2 DEF AlarmInv
    <3>3. QED
      BY <3>1, <3>2
  <2>2. QED
    BY <2>1
<1>9. "delivery" \in Stores /\ "delivery" \in Terminal
  BY DEF Stores, Terminal
<1>10. \A u \in Range(items'["delivery"]) : u \in DevTasks /\ history'[u] = Entry("terminal", "delivery")
  <2>1. ASSUME NEW u \in Range(items'["delivery"])
        PROVE  u \in DevTasks /\ history'[u] = Entry("terminal", "delivery")
    <3>1. PICK z : z = items'["delivery"]
      OBVIOUS
    <3>2. z \in Seq(Tasks) /\ u \in Range(z)
      BY <1>1, <1>9, <2>1, <3>1
    <3>3. u \in Tasks
      BY <3>2 DEF Range
    <3>4. In("store", "delivery", u)' /\ "store" \in Spots /\ "delivery" \in Wheres
      BY <1>9, <2>1 DEF In, Spots, Wheres
    <3>5. history'[u] = Written("store", "delivery")'
      BY <1>7, <3>3, <3>4 DEF SpotsInv
    <3>6. history'[u] = Entry("terminal", "delivery")
      BY <1>9, <3>5 DEF Written
    <3>7. history'[u].state = "delivery"
      BY <3>6 DEF Entry
    <3>8. QED
      BY <1>8, <3>3, <3>6, <3>7 DEF IsSupport
  <2>2. QED
    BY <2>1
<1>11. CASE store # "delivery"
  <2>1. items'["delivery"] = items["delivery"]
    BY <1>2, <1>3, <1>9, <1>11
  <2>2. alarm' = alarm
    BY <1>6, <1>11
  <2>3. alarm.signal \in {"triggered", "processed"} => \A u \in DevTasks : history'[u] = history[u]
    BY <1>1, <1>2, TaskFacts
  <2>4. AlarmInv'
    BY <1>4, <1>8, <2>1, <2>2, <2>3 DEF AlarmInv
  <2>5. QED
    BY <1>6, <2>2, <2>4
<1>12. CASE store = "delivery"
  <2>1. PICK z : z = items["delivery"]
    OBVIOUS
  <2>2. z \in Seq(Tasks)
    BY <1>3, <1>9, <2>1
  <2>3. items'["delivery"] = Append(z, t) /\ Len(Append(z, t)) = Len(z) + 1 /\ Len(z) \in Nat
    BY <1>2, <1>3, <1>9, <1>12, <2>1, <2>2
  <2>4. alarm.signal = "armed" /\ alarm.limit = Len(Backlog)
    BY <1>2, <1>12
  <2>5. Len(z) < alarm.limit
    BY <1>4, <2>1, <2>4 DEF AlarmInv
  <2>6. CASE Rings(its, store)
    <3>1. Len(Append(z, t)) = Len(Backlog)
      BY <1>3, <1>12, <2>1, <2>3, <2>4, <2>6 DEF Rings
    <3>2. PICK q : q = items'["delivery"]
      OBVIOUS
    <3>3. q \in Seq(Tasks) /\ IsInjective(q) /\ Len(q) = Len(Backlog) /\ \A u \in Range(q) : u \in DevTasks
      BY <1>1, <1>9, <1>10, <2>3, <3>1, <3>2
    <3>4. DevTasks \subseteq Range(q)
      BY <3>3, AllDelivered
    <3>5. \A u \in DevTasks : history'[u] = Entry("terminal", "delivery")
      BY <1>10, <3>2, <3>4
    <3>6. alarm'.signal = "triggered"
      BY <1>6, <2>6
    <3>7. AlarmInv'
      BY <1>8, <3>5, <3>6 DEF AlarmInv
    <3>8. QED
      BY <1>6, <2>6, <3>7
  <2>7. CASE ~Rings(its, store)
    <3>1. Len(z) + 1 # alarm.limit
      BY <1>3, <1>12, <2>1, <2>4, <2>7 DEF Rings
    <3>2. alarm' = alarm
      BY <1>6, <2>7
    <3>3. Len(z) + 1 < alarm.limit
      <4>1. alarm.limit \in Nat
        BY <1>5
      <4>2. QED
        BY <2>3, <2>5, <3>1, <4>1
    <3>4. AlarmInv'
      BY <1>8, <2>3, <2>4, <3>2, <3>3 DEF AlarmInv
    <3>5. QED
      BY <1>6, <2>7, <3>2, <3>4
  <2>8. QED
    BY <2>6, <2>7
<1>13. QED
  BY <1>11, <1>12

(* The job waits for the put it has made.                                  *)
LEMMA RouteJobs ==
  ASSUME KInv, NEW kind, Happens(kind), NEW x \in Tasks, NEW its, NEW gs, NEW failed,
         RouteStep(x, its, gs, failed), NEW t, NEW store,
         RouteEffect(x, t, store, its, gs, failed)
  PROVE  /\ JobsInv' /\ EventsInv'
         /\ \A y \in Tasks : y # x => (Engaged(y)' <=> Engaged(y))
<1>1. Routed(x, t, store, gs, failed)
  BY RoutedFacts
<1>2. Live /\ JobsInv /\ SpotsInv /\ EventsInv
  BY Begin DEF LiveInv
<1>3. /\ jobs[x].at \in {"working", "routing"} /\ t \in Tasks /\ t \in Holds(x) /\ store \in Stores
      /\ IsInjective(Tail(jobs[x].todo))
      /\ jobs[x].at = "working" => t = x
      /\ ~Windowed(setting.cadence, jobs[x].stage) =>
            t = x /\ Tail(jobs[x].todo) = <<>> /\ jobs[x].at = "working"
      /\ \A k \in Spots, p \in Wheres : In(k, p, t) <=> k = "job" /\ p = x
      /\ \A e \in Evs(Rest) : ~Concerns(e, x)
      /\ \A y \in Tasks : Concerns(Occurring, y) => y = x
      /\ jobs[x].stage \in WorkStates
      /\ store = Destination(jobs[x].stage, t, failed)
  BY DEF RouteEffect
<1>4. setting' = setting
  BY DEF RouteStep
<1>5. /\ history'[t].state = store /\ \A u \in Tasks : u # t => history'[u] = history[u]
  BY RouteItems
<1>6. /\ agenda' \in Seq(Dated)
  BY RouteAgenda
<1>7. /\ jobs'[x].at = "routing" /\ jobs'[x].stage = jobs[x].stage
      /\ jobs'[x].batch = jobs[x].batch /\ jobs'[x].resource = jobs[x].resource
      /\ jobs'[x].pooled = jobs[x].pooled /\ jobs'[x].todo = Tail(jobs[x].todo)
      /\ \A y \in Tasks : y # x => jobs'[y] = jobs[y]
      /\ \A y \in Tasks : y # x => Holds(y)' = Holds(y)
      /\ \A u \in Tasks : u \in Holds(x)' <=> u \in Holds(x) /\ u # t
      /\ \A e \in Upcoming' : \/ e \in Evs(Rest) \/ e \in Evs(gs)
                              \/ e = Stored(store, t, x) \/ e.kind = "alarm"
      /\ \A e \in Evs(Rest) : e \in Upcoming'
      /\ \A e \in Evs(gs) : e.kind = "got"
      /\ Stored(store, t, x) \in Upcoming'
      /\ \A e : e.kind = "trigger" => (e \in Upcoming' <=> e \in Upcoming)
  BY <1>1 DEF Routed
<1>8. \A u \in Tasks : InTrigger(u)' <=> InTrigger(u)
  BY <1>7 DEF InTrigger, In
<1>9. /\ \A u, y \in Tasks : u \in Holds(y)' => u \in Holds(y)
      /\ \A y \in Tasks : t \notin Holds(y)'
  <2>1. \A y \in Tasks : y # x => t \notin Holds(y)
    <3>1. \A y \in Tasks : t \in Holds(y) => In("job", y, t)
      BY DEF In
    <3>2. \A y \in Tasks : y \in Wheres /\ "job" \in Spots
      BY DEF Wheres, Spots
    <3>3. QED
      BY <1>3, <3>1, <3>2
  <2>2. QED
    BY <1>3, <1>7, <2>1
<1>10. ~InTrigger(t)
  <2>1. \A s \in WorkStates : s \in Wheres /\ "trigger" \in Spots
    BY DEF Wheres, Spots
  <2>2. QED
    BY <1>3, <2>1 DEF InTrigger
<1>11. /\ Concerns(Stored(store, t, x), x) /\ Stored(store, t, x).kind = "stored"
       /\ Stored(store, t, x).by = x /\ Stored(store, t, x).task = t
       /\ StateOf(Stored(store, t, x)) = "routing"
       /\ \A y \in Tasks : Concerns(Stored(store, t, x), y) => y = x
  BY DEF Stored, Concerns, StateOf, JobKinds
<1>12. /\ ~InTrigger(x)' /\ \A y \in Tasks : x \notin Holds(y)'
       /\ jobs[x].stage = "deployment" => history'[x].state \in {"qa_complete", "delivery"}
  <2>1. CASE jobs[x].at = "working"
    <3>1. t = x
      BY <1>3, <2>1
    <3>2. jobs[x].stage = "deployment" => store \in {"qa_complete", "delivery"}
      BY <1>3 DEF Destination
    <3>3. QED
      BY <1>5, <1>8, <1>9, <1>10, <3>1, <3>2
  <2>2. CASE jobs[x].at = "routing"
    <3>1. /\ ~InTrigger(x) /\ \A y \in Tasks : x \notin Holds(y)
          /\ jobs[x].stage = "deployment" => history[x].state \in {"qa_complete", "delivery"}
      BY <1>2, <2>2 DEF JobsInv, JobOK
    <3>2. x # t
      BY <1>3, <3>1
    <3>3. QED
      BY <1>5, <1>8, <1>9, <3>1, <3>2
  <2>3. QED
    BY <1>3, <2>1, <2>2
<1>13. JobOK(x)'
  <2>1. JobOK(x)
    BY <1>2 DEF JobsInv
  <2>2. Engaged(x)'
    BY <1>7, <1>11 DEF Engaged
  <2>3. QED
    BY <1>3, <1>4, <1>7, <1>12, <2>1, <2>2 DEF JobOK, Windowed
<1>14. \A y \in Tasks : y # x /\ jobs[y].at = "routing" =>
             /\ jobs[y].stage = "deployment" => history'[y].state = history[y].state
             /\ ~InTrigger(y)'
             /\ \A z \in Tasks : y \notin Holds(z)'
  <2>1. ASSUME NEW y \in Tasks, y # x, jobs[y].at = "routing"
        PROVE  /\ jobs[y].stage = "deployment" => history'[y].state = history[y].state
               /\ ~InTrigger(y)'
               /\ \A z \in Tasks : y \notin Holds(z)'
    <3>1. ~InTrigger(y) /\ \A z \in Tasks : y \notin Holds(z)
      BY <1>2, <2>1 DEF JobsInv, JobOK
    <3>2. y # t
      BY <1>3, <3>1
    <3>3. QED
      BY <1>5, <1>8, <1>9, <3>1, <3>2
  <2>2. QED
    BY <2>1
<1>15. \A e \in Upcoming' : Concerns(e, x) => EventOK(e)'
  <2>1. \A e \in Upcoming' : Concerns(e, x) => e = Stored(store, t, x)
    <3>1. \A e : Concerns(e, x) => e.kind \notin {"got", "alarm"}
      BY DEF Concerns, JobKinds
    <3>2. QED
      BY <1>3, <1>7, <3>1
  <2>2. EventOK(Stored(store, t, x))'
    <3>1. \A y \in Tasks : Concerns(Stored(store, t, x), y) =>
              jobs'[y].at = StateOf(Stored(store, t, x))
      BY <1>7, <1>11
    <3>2. ~Windowed(setting'.cadence, jobs'[x].stage) => t = x
      BY <1>3, <1>4, <1>7
    <3>3. QED
      BY <1>11, <3>1, <3>2 DEF EventOK
  <2>3. QED
    BY <2>1, <2>2
<1>16. /\ JobsInv' /\ EventsInv'
       /\ \A y \in Tasks : y \notin {x} => (Engaged(y)' <=> Engaged(y))
  <2> DEFINE X == {x}
  <2>1. /\ \A e \in Upcoming' : e \in Evs(Rest) \/ \A y \in Tasks : Concerns(e, y) => y \in X
        /\ \A e \in Evs(Rest) : e \in Upcoming' \/ \E y \in X : Concerns(e, y)
        /\ \A y \in Tasks : Concerns(Occurring, y) => y \in X
        /\ \A y \in Tasks : y \notin X => jobs'[y] = jobs[y]
        /\ X \subseteq Tasks
    <3>1. \A e : e.kind \in {"got", "alarm"} => \A y \in Tasks : ~Concerns(e, y)
      BY DEF Concerns, JobKinds
    <3>2. QED
      BY <1>3, <1>7, <1>11, <3>1
  <2>2. \A y \in Tasks : y \notin X /\ jobs[y].at = "routing" =>
             /\ jobs[y].stage = "deployment" => history'[y].state = history[y].state
             /\ ~InTrigger(y)'
             /\ \A z \in Tasks : y \notin Holds(z)'
    BY <1>14
  <2>3. /\ \A y \in X : JobOK(y)'
        /\ \A e \in Upcoming', y \in X : Concerns(e, y) => EventOK(e)'
    BY <1>13, <1>15
  <2>4. Upcoming' \subseteq Events
    BY <1>6, UpcomingTyped
  <2> HIDE DEF X
  <2>5. /\ JobsInv' /\ EventsInv'
        /\ \A y \in Tasks : y \notin X => (Engaged(y)' <=> Engaged(y))
    BY <1>4, <2>1, <2>2, <2>3, <2>4, JobStep
  <2>6. QED
    BY <2>5 DEF X
<1>17. QED
  BY <1>16

(* The process whose value was read has happened, and no other changes.    *)
LEMMA RouteProcess ==
  ASSUME KInv, NEW kind, Happens(kind), NEW x \in Tasks, NEW its, NEW gs, NEW failed,
         RouteStep(x, its, gs, failed), NEW t, NEW store,
         RouteEffect(x, t, store, its, gs, failed)
  PROVE  ProcessInv'
<1>1. Routed(x, t, store, gs, failed)
  BY RoutedFacts
<1>2. Live /\ ProcessInv /\ Occurring.kind = kind
  BY Begin DEF LiveInv
<1>3. /\ jobs'[x].at = "routing" /\ jobs'[x].stage = jobs[x].stage
      /\ jobs'[x].resource = jobs[x].resource /\ jobs'[x].pooled = jobs[x].pooled
      /\ \A y \in Tasks : y # x => jobs'[y] = jobs[y]
      /\ \A e \in Evs(Rest) : e \in Upcoming'
  BY <1>1 DEF Routed
<1>4. /\ Occurring.kind \in {"worked", "stored"}
      /\ \A q \in Workers :
          /\ process'[q].of = process[q].of /\ process'[q].failed = process[q].failed
          /\ \/ process'[q] = process[q]
             \/ process[q].of = x /\ q = jobs[x].resource /\ process'[q].state = "processed"
      /\ jobs[x].at = "working" /\ process[jobs[x].resource].of = x =>
            process'[jobs[x].resource].state = "processed"
  BY DEF RouteStep
<1>5. Upcoming = {Occurring} \cup Evs(Rest)
  BY BeginAgenda
<1>6. jobs[x].at \in {"working", "routing"}
  BY DEF RouteEffect
<1>7. process \in [Workers -> Processes]
  BY TypesNow
<1>8. ASSUME NEW q \in Workers, process'[q].state = "live"
      PROVE  /\ process'[q].of # None
             /\ Finish(process'[q].of) \in Upcoming' /\ jobs'[process'[q].of].resource = q
  <2>1. PICK y : y = process[q].of
    OBVIOUS
  <2>2. y # None /\ Finish(y) \in Upcoming /\ jobs[y].resource = q /\ process'[q].of = y
    BY <1>2, <1>4, <1>8, <2>1 DEF ProcessInv
  <2>3. y \in Tasks
    BY <1>7, <2>1, <2>2 DEF Processes
  <2>4. Finish(y) \in Upcoming'
    BY <1>3, <1>4, <1>5, <2>2 DEF Finish
  <2>5. QED
    BY <1>3, <2>2, <2>3, <2>4
<1>9. \A q \in Range(Team["development"]) : ~process'[q].failed
  <2>1. \A q \in Range(Team["development"]) : q \in Workers
    BY TaskFacts, Strings
  <2>2. QED
    BY <1>2, <1>4, <2>1 DEF ProcessInv
<1>10. ASSUME NEW q \in Range(Team["qa_testing"]), process'[q].state \in {"live", "ended"}
       PROVE  /\ process'[q].of # None
              /\ jobs'[process'[q].of].at = "working" /\ jobs'[process'[q].of].resource = q
  <2>1. q \in Workers
    BY TaskFacts, Strings
  <2>2. PICK y : y = process[q].of
    OBVIOUS
  <2>3. process'[q] = process[q]
    BY <1>4, <1>10, <2>1
  <2>4. y # None /\ jobs[y].at = "working" /\ jobs[y].resource = q /\ process'[q].of = y
    BY <1>2, <1>10, <2>2, <2>3 DEF ProcessInv, Busy
  <2>5. y \in Tasks
    BY <1>7, <2>1, <2>2, <2>4 DEF Processes
  <2>6. y # x
    BY <1>4, <1>10, <2>2, <2>4
  <2>7. QED
    BY <1>3, <2>4, <2>5, <2>6
<1>11. ASSUME NEW y \in Tasks, jobs'[y].at # "none", jobs'[y].stage = "qa_testing"
       PROVE  /\ jobs'[y].pooled /\ jobs'[y].at \in {"waiting", "working", "routing", "done"}
              /\ jobs'[y].at = "working" => /\ process'[jobs'[y].resource].of = y
                                            /\ process'[jobs'[y].resource].state \in {"live", "ended"}
  <2>1. CASE y = x
    <3>1. jobs[x].pooled
      BY <1>2, <1>3, <1>6, <1>11, <2>1 DEF ProcessInv
    <3>2. QED
      BY <1>3, <2>1, <3>1
  <2>2. CASE y # x
    <3>1. /\ jobs'[y] = jobs[y] /\ jobs[y].at # "none" /\ jobs[y].stage = "qa_testing"
      BY <1>3, <1>11, <2>2
    <3>2. /\ jobs[y].pooled /\ jobs[y].at \in {"waiting", "working", "routing", "done"}
          /\ jobs[y].at = "working" =>
                process[jobs[y].resource].of = y /\ process[jobs[y].resource].state \in {"live", "ended"}
      BY <1>2, <3>1 DEF ProcessInv, Busy
    <3>3. ASSUME jobs[y].at = "working"
          PROVE  process'[jobs[y].resource] = process[jobs[y].resource]
      <4>1. jobs[y].resource \in Workers
        BY <1>2, <3>3, JobFacts
      <4>2. QED
        BY <1>4, <2>2, <3>2, <3>3, <4>1
    <3>4. QED
      BY <3>1, <3>2, <3>3
  <2>3. QED
    BY <2>1, <2>2
<1>12. QED
  BY <1>8, <1>9, <1>10, <1>11 DEF ProcessInv, Busy

(* The task moves as its work state allows.                                *)
LEMMA RouteFlow ==
  ASSUME KInv, NEW kind, Happens(kind), NEW x \in Tasks, NEW its, NEW gs, NEW failed,
         RouteStep(x, its, gs, failed), NEW t, NEW store,
         RouteEffect(x, t, store, its, gs, failed)
  PROVE  FlowInv' /\ \A u \in Tasks : Moves(u)
<1>1. Routed(x, t, store, gs, failed)
  BY RoutedFacts
<1>2. Live /\ FlowInv /\ Occurring.kind = kind
  BY Begin DEF LiveInv
<1>3. /\ history'[t].state = store /\ \A u \in Tasks : u # t => history'[u] = history[u]
  BY RouteItems
<1>4. /\ agenda' \in Seq(Dated)
      /\ \A a \in Range(agenda') : \/ a \in Range(Rest)
               \/ a.ev \in Evs(gs) \cup {Stored(store, t, x)} \cup RingEvents(its, store)
      /\ \A e \in RingEvents(its, store) : e.kind = "alarm"
  BY RouteAgenda DEF RingEvents
<1>5. /\ t = Head(jobs[x].todo) /\ t \in Tasks /\ history[t] = Entry("start", jobs[x].stage)
      /\ jobs[x].stage \in WorkStates
      /\ store = Destination(jobs[x].stage, t, failed)
      /\ rework' = IF failed THEN rework \cup {t} ELSE rework \ {t}
      /\ \A e \in Evs(Rest) : ~Concerns(e, x)
  BY DEF RouteEffect
<1>6. /\ failed \in BOOLEAN /\ left' = left
      /\ jobs[x].stage = "development" => ~failed /\ left[t] = 0
      /\ jobs[x].stage = "qa_testing" /\ ~failed => left[t] = 0
      /\ \A q \in Workers : process'[q].failed = process[q].failed
  BY <1>5 DEF RouteStep
<1>7. /\ \A y \in Tasks : y # x => jobs'[y] = jobs[y]
      /\ \A e \in Upcoming' : \/ e \in Evs(Rest) \/ e \in Evs(gs)
                              \/ e = Stored(store, t, x) \/ e.kind = "alarm"
      /\ \A e \in Evs(gs) : e.kind = "got"
  BY <1>1 DEF Routed
<1>8. Stored(store, t, x).kind = "stored"
  BY DEF Stored
<1>9. left \in [Tasks -> Nat]
  BY TypesNow
<1>10. FlowEvents'
  <2> DEFINE X == {x}
  <2>1. \A e \in Upcoming' : e.kind \in {"finish", "worked"} => e \in Evs(Rest) /\ e.job # x
    BY <1>5, <1>7, <1>8 DEF Concerns, JobKinds
  <2>2. \A a \in Range(agenda') : a.ev.kind = "finish" => a \in Range(Rest) /\ a.ev.job # x
    <3>1. \A a \in Range(agenda') : a.ev \in Upcoming'
      BY EvsRange DEF Upcoming
    <3>2. QED
      BY <1>4, <1>7, <1>8, <2>1, <3>1
  <2>3. X \subseteq Tasks /\ left' \in [Tasks -> Nat]
    BY <1>6, <1>9
  <2>4. /\ \A y \in Tasks : y \notin X => jobs'[y] = jobs[y]
        /\ \A y \in Tasks : y \notin X /\ jobs[y].at = "working" => left'[y] = left[y]
        /\ \A a \in Range(agenda') : a.ev.kind = "finish" => a.ev.job \notin X /\ a \in Range(Rest)
        /\ \A e \in Upcoming' : e.kind = "worked" => e.job \notin X /\ e \in Evs(Rest)
    BY <1>6, <1>7, <2>1, <2>2
  <2>5. \A y \in Tasks : y \notin X /\ jobs[y].at = "working" /\ jobs[y].stage = "qa_testing" =>
            process'[jobs[y].resource].failed = process[jobs[y].resource].failed
    <3>1. \A y \in Tasks : jobs[y].at = "working" => jobs[y].resource \in Workers
      <4>1. ASSUME NEW y \in Tasks, jobs[y].at = "working"  PROVE jobs[y].resource \in Workers
        BY <1>2, <4>1, JobFacts
      <4>2. QED
        BY <4>1
    <3>2. QED
      BY <1>6, <3>1
  <2> HIDE DEF X
  <2>6. QED
    BY <1>4, <2>3, <2>4, <2>5, FlowFrame
<1>11. history[t].state = jobs[x].stage
  BY <1>5 DEF Entry
<1>12. /\ jobs[x].stage = "development" =>
            store = IF t \in DevTasks THEN "dev_complete" ELSE "support_complete"
       /\ jobs[x].stage = "qa_testing" => store = IF failed THEN "pending" ELSE "qa_complete"
       /\ jobs[x].stage = "deployment" => store = IF failed THEN "qa_complete" ELSE "delivery"
  BY <1>5 DEF Destination, IsSupport
<1>13. \A u \in Tasks : history'[u].state = "dev_complete" => left'[u] = 0
  <2>1. ASSUME NEW u \in Tasks, history'[u].state = "dev_complete"  PROVE left[u] = 0
    <3>1. CASE u = t
      <4>1. jobs[x].stage = "development"
        BY <1>3, <1>5, <1>12, <2>1, <3>1 DEF WorkStates
      <4>2. QED
        BY <1>6, <3>1, <4>1
    <3>2. CASE u # t
      BY <1>2, <1>3, <2>1, <3>2 DEF FlowInv
    <3>3. QED
      BY <3>1, <3>2
  <2>2. QED
    BY <1>6, <2>1
<1>14. \A u \in Tasks : history'[u].state \in {"dev_complete", "qa_testing"} => u \notin rework'
  <2>1. ASSUME NEW u \in Tasks, history'[u].state \in {"dev_complete", "qa_testing"}
        PROVE  u \notin rework'
    <3>1. CASE u = t
      <4>1. jobs[x].stage = "development"
        BY <1>3, <1>5, <1>12, <2>1, <3>1 DEF WorkStates
      <4>2. QED
        BY <1>5, <1>6, <3>1, <4>1
    <3>2. CASE u # t
      BY <1>2, <1>3, <1>5, <2>1, <3>2 DEF FlowInv
    <3>3. QED
      BY <3>1, <3>2
  <2>2. QED
    BY <2>1
<1>15. FlowInv'
  BY <1>10, <1>13, <1>14 DEF FlowInv, FlowEvents
<1>16. ASSUME NEW u \in Tasks  PROVE Moves(u)
  <2>1. CASE u # t
    BY <1>3, <1>6, <2>1 DEF Moves
  <2>2. CASE u = t /\ jobs[x].stage = "development"
    BY <1>3, <1>6, <1>11, <1>12, <2>2 DEF Moves
  <2>3. CASE u = t /\ jobs[x].stage = "qa_testing"
    BY <1>3, <1>6, <1>11, <1>12, <2>3 DEF Moves
  <2>4. CASE u = t /\ jobs[x].stage = "deployment"
    BY <1>3, <1>6, <1>11, <1>12, <2>4 DEF Moves
  <2>5. QED
    BY <1>5, <2>1, <2>2, <2>3, <2>4 DEF WorkStates
<1>17. QED
  BY <1>15, <1>16

(* Together: routing keeps the invariant.                                  *)
LEMMA RouteKeeps ==
  ASSUME KInv, NEW kind, Happens(kind), NEW x \in Tasks, NEW its, NEW gs, NEW failed,
         RouteStep(x, its, gs, failed)
  PROVE  KInv' /\ raised' = {} /\ \A u \in Tasks : Moves(u)
<1>1. PICK t, store : RouteEffect(x, t, store, its, gs, failed)
  BY RouteFacts
<1>2. Routed(x, t, store, gs, failed)
  BY <1>1, RoutedFacts
<1>3. SpotsInv' /\ SeqsInv'
  BY <1>1, RouteSpots
<1>4. /\ AlarmInv'
      /\ alarm' \in [limit : Nat, signal : {"off", "armed", "triggered", "processed"}]
      /\ alarm'.limit = alarm.limit
      /\ alarm'.signal = alarm.signal
           \/ (alarm.signal = "armed" /\ alarm'.signal = "triggered")
      /\ Rings(its, store) => alarm'.signal = "triggered"
  BY <1>1, RouteAlarm
<1>5. /\ JobsInv' /\ EventsInv'
      /\ \A y \in Tasks : y # x => (Engaged(y)' <=> Engaged(y))
  BY <1>1, RouteJobs
<1>6. ProcessInv'
  BY <1>1, RouteProcess
<1>7. FlowInv' /\ \A u \in Tasks : Moves(u)
  BY <1>1, RouteFlow
<1>8. /\ agenda' \in Seq(Dated) /\ Orderly(setting.cadence, agenda)' /\ Sorted'
      /\ \A a, b \in Range(agenda') : Precedes(agenda', a, b) =>
                ~(a.ev.kind = "assigned" /\ a.ev = b.ev)
      /\ Upcoming' = Evs(Rest) \cup Evs(gs) \cup {Stored(store, t, x)} \cup RingEvents(its, store)
      /\ \A a \in Range(agenda') : \/ a \in Range(Rest)
               \/ a.ev \in Evs(gs) \cup {Stored(store, t, x)} \cup RingEvents(its, store)
  BY <1>1, RouteAgenda
<1>9. /\ items' \in [Stores -> Seq(Tasks)] /\ history' \in [Tasks -> Entries]
      /\ \A u \in Tasks : history'[u] # Invalid
      /\ \A u \in Tasks : history[u] = NoEntry => history'[u] = NoEntry
  BY <1>1, RouteItems
<1>10. /\ Serves(its, gs) /\ Occurring.kind \in {"worked", "stored"}
       /\ process' \in [Workers -> Processes]
       /\ UNCHANGED <<setting, left, suspended, failures, phase, arrivals,
                      queue, awaiting, poolVars>>
  BY DEF RouteStep
<1>11. /\ setting' = setting /\ left' = left /\ suspended' = suspended /\ failures' = failures
       /\ phase' = phase /\ arrivals' = arrivals /\ queue' = queue /\ awaiting' = awaiting
       /\ hired' = hired /\ pool' = pool /\ waiters' = waiters /\ owners' = owners
  BY <1>10 DEF poolVars
<1>12. /\ Live /\ LiveInv /\ PoolInv /\ Occurring.kind = kind
  BY Begin
<1>13. /\ raised' = {} /\ phase # "seeding" /\ phase # "over"
       /\ rework' = IF failed THEN rework \cup {t} ELSE rework \ {t}
       /\ t \in Tasks
       /\ \A s \in WorkStates : x \notin Range(waiters[s])
       /\ \A r \in Workers : \A i \in DOMAIN suspended[r] :
             suspended[r][i].of = x => suspended[r][i].on
       /\ jobs[x].at \in {"working", "routing"}
  BY <1>1 DEF RouteEffect
<1>14. /\ jobs'[x].at = "routing" /\ jobs'[x].resource = jobs[x].resource
       /\ jobs'[x].pooled = jobs[x].pooled
       /\ \A y \in Tasks : y # x => jobs'[y] = jobs[y]
       /\ jobs' \in [Tasks -> {NoJob} \cup JobRecords]
       /\ \A e \in Evs(Rest) : e \in Upcoming'
       /\ \A e \in Evs(gs) : e \in Upcoming' /\ e.kind = "got"
       /\ \A e : e.kind = "trigger" => (e \in Upcoming' <=> e \in Upcoming)
       /\ \A e : e.kind = "got" => (e \in Upcoming' <=> e \in Upcoming \/ e \in Evs(gs))
  BY <1>2 DEF Routed
<1>15. /\ \A g \in Evs(gs) : g.stage \in listening
       /\ listening' = listening \ {g.stage : g \in Evs(gs)}
  BY <1>10 DEF Serves
<1>16. Upcoming = {Occurring} \cup Evs(Rest)
  BY BeginAgenda
<1>17. /\ Stored(store, t, x).kind = "stored" /\ Stored(store, t, x).by = x
       /\ \A e \in RingEvents(its, store) : e.kind = "alarm" /\ Rings(its, store)
  BY DEF Stored, RingEvents
<1>18. PhaseInv'
  <2>1. PhaseInv
    BY <1>12 DEF LiveInv
  <2>2. phase # "running" => listening' = {} /\ awaiting' = {}
    BY <1>11, <1>15, <2>1 DEF PhaseInv
  <2>3. ASSUME NEW e \in Upcoming', e \notin Upcoming
        PROVE  /\ ~OfWorkflow(e) /\ e.kind \notin {"over", "arrival"}
               /\ e.kind = "alarm" => alarm'.signal = "triggered"
               /\ e.kind = "timer" => setting.cadence > 0
               /\ e.kind = "trigger" => e.heard
    <3>1. e \in Evs(gs) \/ e = Stored(store, t, x) \/ e \in RingEvents(its, store)
      BY <1>8, <1>16, <2>3
    <3>2. CASE e \in Evs(gs)
      BY <1>14, <3>2 DEF OfWorkflow
    <3>3. CASE e = Stored(store, t, x)
      BY <1>17, <3>3, TaskFacts DEF OfWorkflow
    <3>4. CASE e \in RingEvents(its, store)
      BY <1>4, <1>17, <3>4 DEF OfWorkflow
    <3>5. QED
      BY <3>1, <3>2, <3>3, <3>4
  <2>4. \A e \in Upcoming' : e.kind = "got" => e.stage \notin listening'
    <3>1. \A e \in Upcoming : e.kind = "got" => e.stage \notin listening
      BY <2>1 DEF PhaseInv
    <3>2. QED
      BY <1>14, <1>15, <3>1
  <2>5. phase = "running" => \A s \in WorkStates :
            s \in awaiting' <=> ~\E e \in Upcoming' : e.kind = "trigger" /\ e.stage = s
    <3>1. phase = "running" => \A s \in WorkStates :
            s \in awaiting <=> ~\E e \in Upcoming : e.kind = "trigger" /\ e.stage = s
      BY <2>1 DEF PhaseInv
    <3>2. QED
      BY <1>11, <1>14, <3>1
  <2>6. QED
    BY <1>4, <1>9, <1>11, <1>13, <2>1, <2>2, <2>3, <2>4, <2>5, PhaseStays
<1>19. WaitersInv' /\ SignalsInv'
  <2> DEFINE X == {x}
  <2>1. /\ X \subseteq Tasks
        /\ \A y \in Tasks : y \notin X => jobs'[y] = jobs[y] /\ (Engaged(y)' <=> Engaged(y))
        /\ \A y \in X, s \in WorkStates : y \notin Range(waiters[s])
        /\ \A r \in Workers : \A i \in DOMAIN suspended[r] :
               suspended[r][i].of \in X => suspended[r][i].on
    BY <1>5, <1>13, <1>14
  <2> HIDE DEF X
  <2>2. WaitersInv /\ SignalsInv
    BY <1>12 DEF LiveInv
  <2>3. /\ waiters \in [WorkStates -> Seq(Tasks)]
        /\ suspended \in [Workers -> Seq([of : Tasks, on : BOOLEAN])]
    BY TypesNow
  <2>4. WaitersInv'
    BY <1>11, <2>1, <2>2, <2>3, WaitersFrame
  <2>5. SignalsInv'
    BY <1>11, <2>1, <2>2, <2>3, SignalsFrame
  <2>6. QED
    BY <2>4, <2>5
<1>20. TimerInv'
  <2>1. kind \notin Delayed
    BY <1>10, <1>12 DEF Delayed
  <2>2. \A a \in Range(agenda') : a.ev.kind = "timer" => a \in Range(Rest)
    BY <1>8, <1>14, <1>17
  <2>3. QED
    BY <2>1, <2>2, TimerLate
<1>21. PoolInv'
  <2>1. \A y \in Tasks, q \in Workers : AssignedTo(y, q)' => AssignedTo(y, q)
    BY <1>8, <1>14, <1>16, <1>17 DEF AssignedTo
  <2>2. \A y \in Tasks, q \in Workers : HoldsPooled(y, q)' => HoldsPooled(y, q)
    BY <1>13, <1>14 DEF HoldsPooled
  <2>3. QED
    BY <1>8, <1>11, <1>12, <2>1, <2>2, PoolFrame
<1>22. TypeInv'
  <2>1. phase' \in {"seeding", "running", "stopped"} /\ listening' \subseteq WorkStates
    BY <1>11, <1>13, <1>15, TypesNow
  <2>2. rework' \subseteq Tasks
    BY <1>13, TypesNow
  <2>3. /\ setting' = setting /\ failures' \in 0..MaxFailures /\ arrivals' = arrivals
        /\ queue' \in [WorkStates -> Seq(Tasks)] /\ awaiting' \subseteq WorkStates
        /\ left' \in [Tasks -> Nat]
        /\ suspended' \in [Workers -> Seq([of : Tasks, on : BOOLEAN])]
        /\ hired' \in [WorkStates -> Nat] /\ pool' \in [WorkStates -> Seq(Workers)]
        /\ waiters' \in [WorkStates -> Seq(Tasks)]
        /\ \A s \in WorkStates, u \in Tasks : owners'[s][u] \in Range(Team[s]) \cup {None}
        /\ owners' \in [WorkStates -> [Tasks -> Workers \cup {None}]]
    BY <1>11, TypesNow
  <2>4. raised' \subseteq {"put after alarm", "interrupts terminated process", "runaway",
                         "signal triggered twice", "value is not available", "unknown owner"}
    BY <1>13
  <2>5. QED
    BY <1>4, <1>8, <1>9, <1>10, <1>14, <2>1, <2>2, <2>3, <2>4, TypeStep
<1>23. QED
  BY <1>3, <1>4, <1>5, <1>6, <1>7, <1>8, <1>13, <1>18, <1>19, <1>20, <1>21, <1>22 DEF KInv, LiveInv

(* The first task of the batch is routed when its work has ended. If the   *)
(* resource's process is another one that is live, reading its value       *)
(* raises.                                                                 *)
LEMMA WorkEndsKeeps ==
  ASSUME KInv, WorkEnds
  PROVE  KInv' /\ raised' \subseteq {"value is not available"} /\ \A u \in Tasks : Moves(u)
<1>1. PICK x : x = Occurring.job
  OBVIOUS
<1>2. PICK r : r = jobs[x].resource
  OBVIOUS
<1>3. PICK kind : kind = "worked"
  OBVIOUS
<1>4. Happens(kind) /\ kind \in JobKinds /\ Occurring.how = "returned"
  BY <1>3 DEF WorkEnds, JobKinds
<1>5. UNCHANGED <<setting, left, suspended, failures, phase, arrivals, operatorVars, poolVars>>
  BY DEF WorkEnds
<1>6. /\ Live /\ LiveInv /\ Occurring.kind = "worked" /\ phase # "over" /\ PoolInv
  BY <1>3, <1>4, Begin
<1>7. x \in Tasks /\ Concerns(Occurring, x)
  BY <1>1, <1>4, JobEvent
<1>8. jobs[x].at = "working"
  BY <1>4, <1>6, <1>7, HeadJob DEF StateOf
<1>9. /\ r \in Workers /\ jobs[x].batch # <<>> /\ jobs[x].todo = jobs[x].batch
      /\ Head(jobs[x].batch) = x /\ jobs[x].stage \in WorkStates
      /\ r \in Range(Team[jobs[x].stage])
  BY <1>2, <1>6, <1>7, <1>8, JobFacts
<1>10. process \in [Workers -> Processes]
  BY TypesNow
<1>11. CASE process[r].of # x /\ process[r].state = "live"
  <2>1. /\ raised' = {"value is not available"}
        /\ UNCHANGED <<agenda, storeVars, rework, jobs, process>>
    BY <1>1, <1>2, <1>11 DEF WorkEnds
  <2>2. /\ setting' = setting /\ failures' = failures /\ items' = items
        /\ history' = history /\ alarm' = alarm /\ phase' = phase /\ arrivals' = arrivals
        /\ queue' = queue /\ listening' = listening /\ awaiting' = awaiting /\ left' = left
        /\ rework' = rework /\ process' = process /\ hired' = hired /\ jobs' = jobs
        /\ waiters' = waiters /\ owners' = owners /\ pool' = pool /\ suspended' = suspended
        /\ agenda' = agenda
    BY <1>5, <2>1 DEF storeVars, operatorVars, poolVars
  <2>3. TypeInv'
    <3>1. /\ raised' \subseteq {"put after alarm", "interrupts terminated process", "runaway",
                         "signal triggered twice", "value is not available", "unknown owner"}
          /\ phase' \in {"seeding", "running", "stopped"}
      BY <1>6, <2>1, <2>2, TypesNow
    <3>2. Sorted'
      BY <2>2, TypesNow DEF Sorted
    <3>3. QED
      BY <2>2, <3>1, <3>2, TypesNow, TypeStep
  <2>4. PoolInv'
    <3>1. \A a, b \in Range(agenda') : Precedes(agenda', a, b) =>
               ~(a.ev.kind = "assigned" /\ a.ev = b.ev)
      BY <1>6, <2>2 DEF PoolInv
    <3>2. \A y \in Tasks, q \in Workers : AssignedTo(y, q)' => AssignedTo(y, q)
      BY <2>2 DEF AssignedTo, Upcoming
    <3>3. \A y \in Tasks, q \in Workers : HoldsPooled(y, q)' => HoldsPooled(y, q)
      BY <2>2 DEF HoldsPooled
    <3>4. QED
      BY <1>6, <2>2, <3>1, <3>2, <3>3, PoolFrame
  <2>5. ~Live'
    BY <2>1 DEF Live
  <2>6. \A u \in Tasks : Moves(u)
    BY <2>2 DEF Moves
  <2>7. QED
    BY <2>1, <2>3, <2>4, <2>5, <2>6 DEF KInv
<1>12. CASE ~(process[r].of # x /\ process[r].state = "live")
  <2>1. PICK its, gs : its = items /\ gs = <<>>
    OBVIOUS
  <2>2. PICK failed : failed = process[r].failed
    OBVIOUS
  <2>3. Serves(its, gs)
    <3>1. listening' = listening
      BY <1>5 DEF operatorVars
    <3>2. QED
      BY <1>6, <2>1, <3>1, ServesNothing
  <2>4. Route(its, Schedule(Rest, gs), x, jobs[x], failed)
    <3>1. Schedule(Rest, gs) = Rest
      BY <2>1, ScheduleNone
    <3>2. Route(items, Rest, x, jobs[x], process[r].failed)
      BY <1>1, <1>2, <1>12 DEF WorkEnds
    <3>3. QED
      BY <2>1, <2>2, <3>1, <3>2
  <2>5. process' = IF process[r].of = x
                   THEN [process EXCEPT ![r].state = "processed"] ELSE process
    BY <1>1, <1>2, <1>12 DEF WorkEnds
  <2>6. /\ process' \in [Workers -> Processes]
        /\ \A q \in Workers :
              /\ process'[q].of = process[q].of /\ process'[q].failed = process[q].failed
              /\ \/ process'[q] = process[q]
                 \/ process[q].of = x /\ q = r /\ process'[q].state = "processed"
        /\ process[r].of = x => process'[r].state = "processed"
    BY <1>9, <1>10, <2>5 DEF Processes
  <2>7. failed \in BOOLEAN
    BY <1>9, <1>10, <2>2 DEF Processes
  <2>8. /\ jobs[x].stage = "development" => ~failed /\ left[x] = 0
        /\ jobs[x].stage = "qa_testing" /\ ~failed => left[x] = 0
    <3>1. Occurring \in Upcoming
      BY <1>4, BeginAgenda
    <3>2. FlowInv /\ ProcessInv
      BY <1>6 DEF LiveInv
    <3>3. /\ jobs[x].stage = "development" => left[x] = 0
          /\ jobs[x].stage = "qa_testing" => process[r].failed \/ left[x] = 0
      BY <1>1, <1>2, <1>4, <1>6, <3>1, <3>2 DEF FlowInv
    <3>4. jobs[x].stage = "development" => ~process[r].failed
      BY <1>9, <3>2 DEF ProcessInv
    <3>5. QED
      BY <2>2, <3>3, <3>4
  <2>9. RouteStep(x, its, gs, failed)
    BY <1>2, <1>5, <1>6, <1>7, <1>9, <2>3, <2>4, <2>6, <2>7, <2>8 DEF RouteStep, operatorVars
  <2>10. QED
    BY <1>4, <1>7, <2>9, RouteKeeps
<1>13. QED
  BY <1>11, <1>12

(* The next one is, when the last put has happened.                        *)
LEMMA RouteNextKeeps ==
  ASSUME KInv, RouteNext
  PROVE  KInv' /\ raised' = {} /\ \A u \in Tasks : Moves(u)
<1>1. PICK x : x = Occurring.by
  OBVIOUS
<1>2. PICK store : store = Occurring.store
  OBVIOUS
<1>3. PICK kind : kind = "stored"
  OBVIOUS
<1>4. /\ Happens(kind) /\ x \in Tasks /\ jobs[x].todo # <<>> /\ Serve(store)
      /\ Route(ItemsLeft(store), Schedule(Rest, GotEvents(store)), x, jobs[x], jobs[x].failed)
      /\ UNCHANGED <<setting, left, process, suspended, failures, phase, arrivals,
                     queue, awaiting, poolVars>>
  BY <1>1, <1>2, <1>3 DEF RouteNext
<1>5. Live /\ Occurring.kind = "stored" /\ Occurring \in Events
  BY <1>3, <1>4, Begin, BeginAgenda
<1>6. Concerns(Occurring, x)
  BY <1>1, <1>5 DEF Concerns
<1>7. store \in Stores
  BY <1>2, <1>5, EventFields
<1>8. jobs[x].at = "routing"
  BY <1>4, <1>5, <1>6, HeadJob DEF StateOf
<1>9. /\ jobs[x] \in JobRecords /\ JobOK(x) /\ jobs[x].failed \in BOOLEAN
  BY <1>4, <1>5, <1>8, JobFacts
<1>10. jobs[x].stage = "deployment"
  BY <1>4, <1>8, <1>9 DEF JobOK, Windowed
<1>11. PICK its, gs : its = ItemsLeft(store) /\ gs = GotEvents(store)
  OBVIOUS
<1>12. PICK failed : failed = jobs[x].failed
  OBVIOUS
<1>13. Serves(its, gs)
  BY <1>4, <1>7, <1>11, ServesStore
<1>14. process' = process /\ process \in [Workers -> Processes]
  BY <1>4, TypesNow
<1>15. Route(its, Schedule(Rest, gs), x, jobs[x], failed)
  BY <1>4, <1>11, <1>12
<1>16. RouteStep(x, its, gs, failed)
  BY <1>4, <1>5, <1>6, <1>8, <1>9, <1>10, <1>12, <1>13, <1>14, <1>15 DEF RouteStep
<1>17. QED
  BY <1>4, <1>16, RouteKeeps

-----------------------------------------------------------------------------
(* operate ends: it signals the job that its resource has suspended last.  *)

(* The job whose signal is on top of the stack, and its event.             *)
Woken(r) == IF Len(suspended[r]) = 0 THEN {} ELSE {suspended[r][Len(suspended[r])].of}
WakeEvents(r) ==
    IF Len(suspended[r]) = 0 THEN <<>> ELSE <<Now(Wake(suspended[r][Len(suspended[r])].of))>>

(* operate returns: all of its batch is routed.                            *)
OperateStep(x, r, its, gs) ==
    /\ Occurring.kind = "stored" /\ Occurring.by = x /\ x \in Tasks
    /\ Serves(its, gs) /\ jobs[x].todo = <<>> /\ r = jobs[x].resource
    /\ items' = its
    /\ jobs' = [jobs EXCEPT ![x].at = "done"]
    /\ suspended' = IF Len(suspended[r]) = 0 THEN suspended
                    ELSE [suspended EXCEPT ![r][Len(suspended[r])].on = TRUE]
    /\ agenda' = Schedule(Rest, gs \o WakeEvents(r) \o <<Now(Operated(x))>>)
    /\ UNCHANGED <<history, alarm, setting, left, rework, process, failures,
                   phase, arrivals, queue, awaiting, poolVars>>

(* The signal on top is triggered; the others stay.                        *)
LEMMA SignalOn ==
  ASSUME NEW S, NEW q \in Seq(SignalRecords), S = SignalRecords, Len(q) # 0
  PROVE  /\ [q EXCEPT ![Len(q)].on = TRUE] \in Seq(SignalRecords)
         /\ DOMAIN [q EXCEPT ![Len(q)].on = TRUE] = DOMAIN q
         /\ \A i \in DOMAIN q : i # Len(q) => [q EXCEPT ![Len(q)].on = TRUE][i] = q[i]
         /\ [q EXCEPT ![Len(q)].on = TRUE][Len(q)].on = TRUE
         /\ Len(q) \in DOMAIN q /\ q[Len(q)].of \in Tasks
<1>1. Len(q) \in DOMAIN q /\ q[Len(q)] \in SignalRecords
  OBVIOUS
<1>2. PICK e : e = [q[Len(q)] EXCEPT !.on = TRUE]
  OBVIOUS
<1>3. e \in SignalRecords /\ e.on = TRUE
  BY <1>1, <1>2 DEF SignalRecords
<1>4. [q EXCEPT ![Len(q)].on = TRUE] = [q EXCEPT ![Len(q)] = e]
  BY <1>2
<1>5. [q EXCEPT ![Len(q)] = e] \in Seq(SignalRecords)
  BY <1>1, <1>3
<1>6. QED
  BY <1>1, <1>3, <1>4, <1>5 DEF SignalRecords

(* The job is done, and its tasks have left it.                            *)
LEMMA OperateFacts ==
  ASSUME KInv, NEW kind, Happens(kind), NEW x, NEW r, NEW its, NEW gs,
         OperateStep(x, r, its, gs)
  PROVE  /\ Concerns(Occurring, x) /\ jobs[x].at = "routing" /\ jobs[x] \in JobRecords
         /\ r \in Range(Team[jobs[x].stage]) /\ r \in Workers /\ jobs[x].stage \in WorkStates
         /\ JobOK(x) /\ Holds(x) = {} /\ At(x) = jobs[x].stage
         /\ jobs'[x].at = "done" /\ jobs'[x].stage = jobs[x].stage
         /\ jobs'[x].batch = jobs[x].batch /\ jobs'[x].resource = jobs[x].resource
         /\ jobs'[x].pooled = jobs[x].pooled /\ jobs'[x].todo = jobs[x].todo
         /\ \A y \in Tasks : y # x => jobs'[y] = jobs[y]
         /\ jobs' \in [Tasks -> {NoJob} \cup JobRecords]
         /\ \A y \in Tasks : Holds(y)' = Holds(y) /\ At(y)' = At(y)
         /\ suspended' \in [Workers -> Seq(SignalRecords)]
         /\ \A q \in Workers : DOMAIN suspended'[q] = DOMAIN suspended[q]
         /\ \A q \in Workers : \A i \in DOMAIN suspended[q] :
               \/ suspended'[q][i] = suspended[q][i]
               \/ q = r /\ i = Len(suspended[r]) /\ suspended'[q][i].on
         /\ Len(suspended[r]) # 0 =>
               /\ Len(suspended[r]) \in DOMAIN suspended[r]
               /\ suspended'[r][Len(suspended[r])].on
               /\ suspended[r][Len(suspended[r])].of \in Tasks
         /\ phase # "seeding" /\ phase # "over"
<1>0. /\ Occurring.kind = "stored" /\ Occurring.by = x /\ x \in Tasks
      /\ jobs[x].todo = <<>> /\ r = jobs[x].resource
      /\ jobs' = [jobs EXCEPT ![x].at = "done"]
      /\ suspended' = IF Len(suspended[r]) = 0 THEN suspended
                      ELSE [suspended EXCEPT ![r][Len(suspended[r])].on = TRUE]
  BY DEF OperateStep
<1>1. Live /\ Occurring.kind = kind /\ phase # "over"
  BY Begin
<1>2. Concerns(Occurring, x)
  BY <1>0 DEF Concerns
<1>3. jobs[x].at = "routing"
  BY <1>0, <1>2, HeadJob DEF StateOf
<1>4. /\ jobs[x] \in JobRecords /\ r \in Range(Team[jobs[x].stage]) /\ r \in Workers
      /\ jobs[x].stage \in WorkStates /\ JobOK(x) /\ At(x) = jobs[x].stage
  BY <1>0, <1>1, <1>3, JobFacts
<1>5. jobs \in [Tasks -> {NoJob} \cup JobRecords]
  BY TypesNow
<1>6. PICK job : job = [jobs[x] EXCEPT !.at = "done"]
  OBVIOUS
<1>7. /\ job \in JobRecords /\ job.at = "done" /\ job.stage = jobs[x].stage
      /\ job.batch = jobs[x].batch /\ job.resource = jobs[x].resource
      /\ job.pooled = jobs[x].pooled /\ job.todo = jobs[x].todo
  BY <1>4, <1>6 DEF JobRecords
<1>8. /\ jobs'[x] = job /\ \A y \in Tasks : y # x => jobs'[y] = jobs[y]
      /\ jobs' \in [Tasks -> {NoJob} \cup JobRecords]
  BY <1>0, <1>5, <1>6, <1>7
<1>9. Holds(x) = {}
  BY <1>0, <1>3, EmptyFacts DEF Holds
<1>10. \A y \in Tasks : Holds(y)' = Holds(y) /\ At(y)' = At(y)
  <2>1. Holds(x)' = Holds(x) /\ At(x)' = At(x)
    BY <1>3, <1>7, <1>8 DEF Holds, At
  <2>2. \A y \in Tasks : y # x => Holds(y)' = Holds(y) /\ At(y)' = At(y)
    BY <1>8 DEF Holds, At
  <2>3. QED
    BY <2>1, <2>2
<1>11. suspended \in [Workers -> Seq(SignalRecords)]
  BY TypesNow DEF SignalRecords
<1>12. /\ suspended' \in [Workers -> Seq(SignalRecords)]
       /\ \A q \in Workers : DOMAIN suspended'[q] = DOMAIN suspended[q]
       /\ \A q \in Workers : \A i \in DOMAIN suspended[q] :
               \/ suspended'[q][i] = suspended[q][i]
               \/ q = r /\ i = Len(suspended[r]) /\ suspended'[q][i].on
       /\ Len(suspended[r]) # 0 =>
               /\ Len(suspended[r]) \in DOMAIN suspended[r]
               /\ suspended'[r][Len(suspended[r])].on
               /\ suspended[r][Len(suspended[r])].of \in Tasks
  <2>1. CASE Len(suspended[r]) = 0
    BY <1>0, <1>11, <2>1
  <2>2. CASE Len(suspended[r]) # 0
    <3>1. PICK z : z = suspended[r]
      OBVIOUS
    <3>2. z \in Seq(SignalRecords) /\ Len(z) # 0
      BY <1>4, <1>11, <2>2, <3>1
    <3>3. PICK w : w = [z EXCEPT ![Len(z)].on = TRUE]
      OBVIOUS
    <3>4. /\ w \in Seq(SignalRecords) /\ DOMAIN w = DOMAIN z
          /\ \A i \in DOMAIN z : i # Len(z) => w[i] = z[i]
          /\ w[Len(z)].on = TRUE /\ Len(z) \in DOMAIN z /\ z[Len(z)].of \in Tasks
      BY <3>2, <3>3, SignalOn
    <3>5. suspended' = [suspended EXCEPT ![r] = w]
      BY <1>0, <2>2, <3>1, <3>3
    <3>6. suspended'[r] = w /\ \A q \in Workers : q # r => suspended'[q] = suspended[q]
      BY <1>4, <1>11, <3>5
    <3>7. suspended' \in [Workers -> Seq(SignalRecords)]
      BY <1>11, <3>4, <3>5
    <3>8. \A q \in Workers : DOMAIN suspended'[q] = DOMAIN suspended[q]
      BY <3>1, <3>4, <3>6
    <3>9. \A q \in Workers : \A i \in DOMAIN suspended[q] :
               \/ suspended'[q][i] = suspended[q][i]
               \/ q = r /\ i = Len(suspended[r]) /\ suspended'[q][i].on
      BY <3>1, <3>4, <3>6
    <3>10. QED
      BY <3>1, <3>4, <3>6, <3>7, <3>8, <3>9
  <2>3. QED
    BY <2>1, <2>2
<1>13. phase # "seeding"
  <2>1. ~OfWorkflow(Occurring)
    BY <1>0, TaskFacts DEF OfWorkflow
  <2>2. QED
    BY <2>1, SeedingHead
<1>14. QED
  BY <1>0, <1>1, <1>2, <1>3, <1>4, <1>7, <1>8, <1>9, <1>10, <1>12, <1>13

(* An agenda in the order of time, as Sorted states it.                    *)
LEMMA AscendsAhead ==
  ASSUME NEW q, q \in Seq(Dated), Ascending(q)
  PROVE  \A i \in 2..Len(q) : q[i - 1].due <= q[i].due
<1>1. DOMAIN q = 1..Len(q) /\ Len(q) \in Nat
  BY LenProperties
<1>2. ASSUME NEW i \in 2..Len(q)  PROVE q[i - 1].due <= q[i].due
  <2>1. i - 1 \in DOMAIN q /\ i \in DOMAIN q /\ i - 1 < i
    BY <1>1
  <2>2. QED
    BY <2>1 DEF Ascending
<1>3. QED
  BY <1>2

(* Types, pools and histories, whether or not the signal raises.           *)
LEMMA OperateTypes ==
  ASSUME KInv, NEW kind, Happens(kind), NEW x, NEW r, NEW its, NEW gs,
         OperateStep(x, r, its, gs), raised' \subseteq {"signal triggered twice"}
  PROVE  TypeInv' /\ PoolInv' /\ \A u \in Tasks : Moves(u)
<1>1. /\ Concerns(Occurring, x) /\ jobs[x].at = "routing"
      /\ jobs'[x].at = "done" /\ jobs'[x].resource = jobs[x].resource
      /\ jobs'[x].pooled = jobs[x].pooled
      /\ \A y \in Tasks : y # x => jobs'[y] = jobs[y]
      /\ jobs' \in [Tasks -> {NoJob} \cup JobRecords]
      /\ suspended' \in [Workers -> Seq(SignalRecords)]
      /\ Len(suspended[r]) # 0 => suspended[r][Len(suspended[r])].of \in Tasks
      /\ phase # "seeding" /\ phase # "over"
  BY OperateFacts
<1>2. /\ x \in Tasks /\ Serves(its, gs) /\ items' = its
      /\ agenda' = Schedule(Rest, gs \o WakeEvents(r) \o <<Now(Operated(x))>>)
      /\ UNCHANGED <<history, alarm, setting, left, rework, process, failures,
                     phase, arrivals, queue, awaiting, poolVars>>
  BY DEF OperateStep
<1>3. /\ setting' = setting /\ failures' = failures
      /\ history' = history /\ alarm' = alarm /\ phase' = phase /\ arrivals' = arrivals
      /\ queue' = queue /\ awaiting' = awaiting /\ left' = left
      /\ rework' = rework /\ process' = process /\ hired' = hired
      /\ waiters' = waiters /\ owners' = owners /\ pool' = pool
  BY <1>2 DEF poolVars
<1>4. /\ its \in [Stores -> Seq(Tasks)] /\ OneOrNone(gs)
      /\ listening' \subseteq listening
      /\ \A e \in Range(gs) : e.ev.kind = "got"
      /\ \A g \in Evs(gs) : g.kind = "got"
  BY <1>2 DEF Serves
<1>5. /\ Rest \in Seq(Dated) /\ Ascending(Rest) /\ Upcoming = {Occurring} \cup Evs(Rest)
      /\ Orderly(setting.cadence, Rest)
  BY BeginAgenda
<1>6. PICK fs, hs : fs = WakeEvents(r) /\ hs = <<Now(Operated(x))>>
  OBVIOUS
<1>7. /\ OneOrNone(fs) /\ \A e \in Range(fs) : e.ev.kind = "wake"
      /\ \A e \in Evs(fs) : e.kind = "wake"
  <2>1. CASE Len(suspended[r]) = 0
    BY <1>6, <2>1, OneOrNoneFacts DEF WakeEvents
  <2>2. CASE Len(suspended[r]) # 0
    <3>1. PICK w : w = Wake(suspended[r][Len(suspended[r])].of)
      OBVIOUS
    <3>2. w \in Events /\ w.kind = "wake"
      BY <1>1, <2>2, <3>1, EventTypes DEF Wake
    <3>3. fs = <<Now(w)>>
      BY <1>6, <2>2, <3>1 DEF WakeEvents
    <3>4. /\ OneOrNone(<<Now(w)>>) /\ Range(<<Now(w)>>) = {Now(w)} /\ Evs(<<Now(w)>>) = {w}
          /\ Now(w).ev = w
      BY <3>2, NowFacts
    <3>5. QED
      BY <3>2, <3>3, <3>4
  <2>3. QED
    BY <2>1, <2>2
<1>8. /\ OneOrNone(hs) /\ \A e \in Range(hs) : e.ev.kind = "operated"
      /\ \A e \in Evs(hs) : e.kind = "operated"
  <2>1. PICK w : w = Operated(x)
    OBVIOUS
  <2>2. w \in Events /\ w.kind = "operated"
    BY <1>2, <2>1, EventTypes DEF Operated
  <2>3. /\ OneOrNone(<<Now(w)>>) /\ Range(<<Now(w)>>) = {Now(w)} /\ Evs(<<Now(w)>>) = {w}
        /\ Now(w).ev = w
    BY <2>2, NowFacts
  <2>4. hs = <<Now(w)>>
    BY <1>6, <2>1
  <2>5. QED
    BY <2>2, <2>3, <2>4
<1>9. agenda' = Schedule(Schedule(Schedule(Rest, gs), fs), hs)
  <2>1. /\ gs \in Seq(Dated) /\ fs \in Seq(Dated) /\ hs \in Seq(Dated)
        /\ (fs = <<>> \/ \E e \in Dated : fs = <<e>>) /\ (hs = <<>> \/ \E e \in Dated : hs = <<e>>)
    BY <1>4, <1>7, <1>8 DEF OneOrNone
  <2>a. gs \in Seq(Dated) /\ fs \in Seq(Dated)
    BY <2>1
  <2>b. PICK S : S = Dated
    OBVIOUS
  <2>c. gs \in Seq(S) /\ fs \in Seq(S)
    BY <2>a, <2>b
  <2>d. gs \o fs \in Seq(S)
    BY <2>c, ConcatProperties
  <2>2. gs \o fs \in Seq(Dated)
    BY <2>b, <2>d
  <2>3. PICK es : es = gs \o fs
    OBVIOUS
  <2>4. Schedule(Rest, es \o hs) = Schedule(Schedule(Rest, es), hs)
    BY <2>1, <2>2, <2>3, ScheduleMore
  <2>5. Schedule(Rest, gs \o fs) = Schedule(Schedule(Rest, gs), fs)
    BY <2>1, ScheduleMore
  <2>6. QED
    BY <1>2, <1>6, <2>3, <2>4, <2>5
<1>10. PICK q1, q2, q3 : q1 = Schedule(Rest, gs) /\ q2 = Schedule(q1, fs) /\ q3 = Schedule(q2, hs)
  OBVIOUS
<1>11. /\ q1 \in Seq(Dated) /\ Ascending(q1) /\ Evs(q1) = Evs(Rest) \cup Evs(gs)
       /\ \A a, b : Precedes(q1, a, b) =>
              Precedes(Rest, a, b) \/ a \in Range(gs) \/ b \in Range(gs)
  <2>1. gs \in Seq(Dated) /\ (gs = <<>> \/ \E e \in Dated : gs = <<e>>)
    BY <1>4 DEF OneOrNone
  <2>2. QED
    BY <1>5, <1>10, <2>1, ScheduleOne
<1>12. /\ q2 \in Seq(Dated) /\ Ascending(q2) /\ Evs(q2) = Evs(q1) \cup Evs(fs)
       /\ \A a, b : Precedes(q2, a, b) =>
              Precedes(q1, a, b) \/ a \in Range(fs) \/ b \in Range(fs)
  <2>1. fs \in Seq(Dated) /\ (fs = <<>> \/ \E e \in Dated : fs = <<e>>)
    BY <1>7 DEF OneOrNone
  <2>2. q1 \in Seq(Dated) /\ Ascending(q1)
    BY <1>11
  <2>3. QED
    BY <1>10, <2>1, <2>2, ScheduleOne
<1>13. /\ q3 \in Seq(Dated) /\ Ascending(q3) /\ Evs(q3) = Evs(q2) \cup Evs(hs)
       /\ \A a, b : Precedes(q3, a, b) =>
              Precedes(q2, a, b) \/ a \in Range(hs) \/ b \in Range(hs)
  <2>1. hs \in Seq(Dated) /\ (hs = <<>> \/ \E e \in Dated : hs = <<e>>)
    BY <1>8 DEF OneOrNone
  <2>2. q2 \in Seq(Dated) /\ Ascending(q2)
    BY <1>12
  <2>3. QED
    BY <1>10, <2>1, <2>2, ScheduleOne
<1>14. agenda' = q3 /\ agenda' \in Seq(Dated) /\ Upcoming' = Evs(q3)
  BY <1>9, <1>10, <1>13 DEF Upcoming, Evs
<1>15. Sorted'
  <2>1. \A i \in 2..Len(q3) : q3[i - 1].due <= q3[i].due
    BY <1>13, AscendsAhead
  <2>2. QED
    BY <1>14, <2>1 DEF Sorted
<1>16. \A a, b \in Range(agenda') : Precedes(agenda', a, b) =>
                ~(a.ev.kind = "assigned" /\ a.ev = b.ev)
  <2>1. \A a, b \in Range(Rest) : Precedes(Rest, a, b) => ~(a.ev.kind = "assigned" /\ a.ev = b.ev)
    BY <1>5, OneAssignment
  <2>2. \A a, b : Precedes(Rest, a, b) => a \in Range(Rest) /\ b \in Range(Rest)
    BY DEF Precedes, Range
  <2>3. ASSUME NEW a \in Range(agenda'), NEW b \in Range(agenda'), Precedes(agenda', a, b),
               a.ev.kind = "assigned", a.ev = b.ev
        PROVE FALSE
    <3>1. Precedes(q2, a, b)
      BY <1>8, <1>13, <1>14, <2>3
    <3>2. Precedes(q1, a, b)
      BY <1>7, <1>12, <2>3, <3>1
    <3>3. Precedes(Rest, a, b)
      BY <1>4, <1>11, <2>3, <3>2
    <3>4. QED
      BY <2>1, <2>2, <2>3, <3>3
  <2>4. QED
    BY <2>3
<1>17. \A y \in Tasks, q \in Workers : AssignedTo(y, q)' => AssignedTo(y, q)
  <2>1. \A e \in Upcoming' : e.kind = "assigned" => e \in Upcoming
    BY <1>4, <1>5, <1>7, <1>8, <1>11, <1>12, <1>13, <1>14
  <2>2. QED
    BY <2>1 DEF AssignedTo
<1>18. \A y \in Tasks, q \in Workers : HoldsPooled(y, q)' => HoldsPooled(y, q)
  BY <1>1 DEF HoldsPooled
<1>19. PoolInv'
  <2>1. PoolInv
    BY DEF KInv
  <2>2. QED
    BY <1>3, <1>16, <1>17, <1>18, <2>1, PoolFrame
<1>20. TypeInv'
  <2>1. /\ raised' \subseteq {"put after alarm", "interrupts terminated process", "runaway",
                         "signal triggered twice", "value is not available", "unknown owner"}
        /\ phase' \in {"seeding", "running", "stopped"} /\ listening' \subseteq WorkStates
        /\ items' \in [Stores -> Seq(Tasks)]
    BY <1>1, <1>2, <1>3, <1>4, TypesNow
  <2>2. suspended' \in [Workers -> Seq([of : Tasks, on : BOOLEAN])]
    BY <1>1 DEF SignalRecords
  <2>3. QED
    BY <1>1, <1>3, <1>14, <1>15, <2>1, <2>2, TypesNow, TypeStep
<1>21. \A u \in Tasks : Moves(u)
  BY <1>3 DEF Moves
<1>22. QED
  BY <1>19, <1>20, <1>21

(* What operate wakes: a paused job of the same resource.                  *)
LEMMA WokenFacts ==
  ASSUME KInv, NEW kind, Happens(kind), NEW x, NEW r, NEW its, NEW gs,
         OperateStep(x, r, its, gs),
         Len(suspended[r]) = 0 \/ ~suspended[r][Len(suspended[r])].on
  PROVE  /\ \A w \in Woken(r) : /\ w \in Tasks /\ w # x /\ jobs[w].at = "paused"
                                /\ jobs[w].resource = r /\ ~Engaged(w)
         /\ OneOrNone(WakeEvents(r))
         /\ \A e \in Range(WakeEvents(r)) : e.due = 0 /\ e.ev \in Evs(WakeEvents(r))
         /\ \A e \in Evs(WakeEvents(r)) : /\ e \in Events /\ e.kind = "wake" /\ e.job \in Woken(r)
                                          /\ \A y : Concerns(e, y) => y = e.job
                                          /\ \A a \in Range(WakeEvents(r)) : a = Now(e)
         /\ \A w \in Woken(r) : Wake(w) \in Evs(WakeEvents(r)) /\ Concerns(Wake(w), w)
         /\ \A v, w \in Woken(r) : v = w
<1>1. /\ jobs[x].at = "routing" /\ r \in Workers
      /\ Len(suspended[r]) # 0 =>
               /\ Len(suspended[r]) \in DOMAIN suspended[r]
               /\ suspended[r][Len(suspended[r])].of \in Tasks
  BY OperateFacts
<1>2. SignalsInv
  BY Begin DEF LiveInv
<1>3. CASE Len(suspended[r]) = 0
  BY <1>3, OneOrNoneFacts DEF Woken, WakeEvents
<1>4. CASE Len(suspended[r]) # 0
  <2>1. PICK w, i : w = suspended[r][Len(suspended[r])].of /\ i = Len(suspended[r])
    OBVIOUS
  <2>2. /\ Woken(r) = {w} /\ WakeEvents(r) = <<Now(Wake(w))>>
        /\ w \in Tasks /\ i \in DOMAIN suspended[r] /\ ~suspended[r][i].on
        /\ suspended[r][i].of = w
    BY <1>1, <1>4, <2>1 DEF Woken, WakeEvents
  <2>3. jobs[w].at = "paused" /\ jobs[w].resource = r /\ ~Engaged(w)
    BY <1>1, <1>2, <2>2 DEF SignalsInv
  <2>4. w # x
    BY <1>1, <2>3
  <2>5. PICK e : e = Wake(w)
    OBVIOUS
  <2>6. /\ e \in Events /\ e.kind = "wake" /\ e.job = w /\ Concerns(e, w)
        /\ \A y : Concerns(e, y) => y = w
    BY <2>2, <2>5, EventTypes DEF Wake, Concerns, JobKinds
  <2>7. /\ OneOrNone(<<Now(e)>>) /\ Range(<<Now(e)>>) = {Now(e)} /\ Evs(<<Now(e)>>) = {e}
        /\ Now(e).ev = e /\ Now(e).due = 0
    BY <2>6, NowFacts
  <2>8. WakeEvents(r) = <<Now(e)>>
    BY <2>2, <2>5
  <2>9. /\ OneOrNone(WakeEvents(r)) /\ Range(WakeEvents(r)) = {Now(e)} /\ Evs(WakeEvents(r)) = {e}
    BY <2>7, <2>8
  <2>10. QED
    BY <2>2, <2>3, <2>4, <2>5, <2>6, <2>7, <2>9
<1>5. QED
  BY <1>3, <1>4

(* A step that schedules up to three events which fit.                     *)
Threefold(fs, gs, hs) ==
    /\ setting' = setting /\ OneOrNone(fs) /\ OneOrNone(gs) /\ OneOrNone(hs)
    /\ agenda' = Schedule(Rest, fs \o gs \o hs)
    /\ \A e \in Range(fs) : Fits(setting.cadence, Evs(Rest), e)
    /\ \A e \in Range(gs) : Fits(setting.cadence, Evs(Rest) \cup Evs(fs), e)
    /\ \A e \in Range(hs) : Fits(setting.cadence, Evs(Rest) \cup Evs(fs) \cup Evs(gs), e)

(* Its agenda.                                                             *)
LEMMA ThreefoldAgenda ==
  ASSUME KInv, NEW kind, Happens(kind), NEW fs, NEW gs, NEW hs, Threefold(fs, gs, hs)
  PROVE  /\ agenda' \in Seq(Dated) /\ Orderly(setting.cadence, agenda)'
         /\ Upcoming' = Evs(Rest) \cup Evs(fs) \cup Evs(gs) \cup Evs(hs)
         /\ Range(agenda') = Range(Rest) \cup Range(fs) \cup Range(gs) \cup Range(hs)
<1>1. /\ setting' = setting /\ OneOrNone(fs) /\ OneOrNone(gs) /\ OneOrNone(hs)
      /\ agenda' = Schedule(Rest, fs \o gs \o hs)
      /\ \A e \in Range(fs) : Fits(setting.cadence, Evs(Rest), e)
      /\ \A e \in Range(gs) : Fits(setting.cadence, Evs(Rest) \cup Evs(fs), e)
      /\ \A e \in Range(hs) : Fits(setting.cadence, Evs(Rest) \cup Evs(fs) \cup Evs(gs), e)
  BY DEF Threefold
<1>2. /\ agenda' \in Seq(Dated) /\ Orderly(setting.cadence, agenda)' /\ Sorted'
      /\ \A x, y \in Range(agenda') : Precedes(agenda', x, y) =>
             ~(x.ev.kind = "assigned" /\ x.ev = y.ev)
      /\ Upcoming' = Evs(Rest) \cup Evs(fs) \cup Evs(gs) \cup Evs(hs)
      /\ Range(agenda') = Range(Rest) \cup Range(fs) \cup Range(gs) \cup Range(hs)
  BY <1>1, AgendaThree
<1>3. QED
  BY <1>2

(* The agenda: the monitor that is served, the woken job, the job's own    *)
(* end.                                                                    *)
LEMMA OperateAgenda ==
  ASSUME KInv, NEW kind, Happens(kind), NEW x, NEW r, NEW its, NEW gs,
         OperateStep(x, r, its, gs),
         Len(suspended[r]) = 0 \/ ~suspended[r][Len(suspended[r])].on
  PROVE  /\ agenda' \in Seq(Dated) /\ Orderly(setting.cadence, agenda)'
         /\ Upcoming' = Evs(Rest) \cup Evs(gs) \cup Evs(WakeEvents(r)) \cup {Operated(x)}
         /\ Range(agenda') = Range(Rest) \cup Range(gs) \cup Range(WakeEvents(r))
                                \cup {Now(Operated(x))}
         /\ \A e \in Evs(Rest) : ~Concerns(e, x)
         /\ \A e \in Evs(gs) : e.kind = "got" /\ \A y \in Tasks : ~Concerns(e, y)
         /\ \A a \in Range(gs) : a.ev.kind = "got"
         /\ Operated(x).kind = "operated" /\ Operated(x).job = x /\ Concerns(Operated(x), x)
         /\ \A y : Concerns(Operated(x), y) => y = x
<1>1. /\ x \in Tasks /\ Serves(its, gs) /\ setting' = setting
      /\ agenda' = Schedule(Rest, gs \o WakeEvents(r) \o <<Now(Operated(x))>>)
  BY DEF OperateStep
<1>2. /\ Concerns(Occurring, x) /\ jobs[x].at = "routing" /\ JobOK(x)
  BY OperateFacts
<1>3. \A e \in Evs(Rest) : ~Concerns(e, x)
  BY <1>1, <1>2, HeadJob
<1>4. /\ \A w \in Woken(r) : w \in Tasks /\ w # x /\ ~Engaged(w)
      /\ OneOrNone(WakeEvents(r))
      /\ \A e \in Range(WakeEvents(r)) : e.due = 0 /\ e.ev \in Evs(WakeEvents(r))
      /\ \A e \in Evs(WakeEvents(r)) : /\ e \in Events /\ e.kind = "wake" /\ e.job \in Woken(r)
                                       /\ \A y : Concerns(e, y) => y = e.job
                                       /\ \A a \in Range(WakeEvents(r)) : a = Now(e)
  BY WokenFacts
<1>5. /\ OneOrNone(gs)
      /\ \A e \in Evs(gs) : e.kind = "got"
      /\ \A e \in Range(gs) : Fits(setting.cadence, Evs(Rest), e) /\ e.ev \in Evs(gs)
  BY <1>1 DEF Serves
<1>6. \A e \in Evs(gs) : \A y \in Tasks : ~Concerns(e, y)
  BY <1>5 DEF Concerns, JobKinds
<1>7. /\ Upcoming = {Occurring} \cup Evs(Rest) /\ Upcoming \subseteq Events
  BY BeginAgenda
<1>8. PICK ev : ev = Operated(x)
  OBVIOUS
<1>9. /\ ev \in Events /\ ev.kind = "operated" /\ ev.job = x /\ Concerns(ev, x)
      /\ \A y : Concerns(ev, y) => y = x
  BY <1>1, <1>8, EventTypes DEF Operated, Concerns, JobKinds
<1>10. PICK fs, hs : fs = WakeEvents(r) /\ hs = <<Now(ev)>>
  OBVIOUS
<1>11. /\ OneOrNone(hs) /\ Range(hs) = {Now(ev)} /\ Evs(hs) = {ev}
  <2>1. /\ OneOrNone(<<Now(ev)>>) /\ Range(<<Now(ev)>>) = {Now(ev)} /\ Evs(<<Now(ev)>>) = {ev}
    BY <1>9, NowFacts
  <2>2. QED
    BY <1>10, <2>1
<1>12. OneOrNone(fs)
  BY <1>4, <1>10
<1>13. \A a \in Range(fs) : Fits(setting.cadence, Evs(Rest) \cup Evs(gs), a)
  <2>1. ASSUME NEW a \in Range(fs)  PROVE Fits(setting.cadence, Evs(Rest) \cup Evs(gs), a)
    <3>1. PICK e : e = a.ev
      OBVIOUS
    <3>2. /\ e \in Events /\ e.kind = "wake" /\ e.job \in Tasks /\ ~Engaged(e.job) /\ a = Now(e)
          /\ \A y : Concerns(e, y) => y = e.job
      BY <1>4, <1>10, <3>1
    <3>3. PICK c, E : c = setting.cadence /\ E = Evs(Rest) \cup Evs(gs)
      OBVIOUS
    <3>4. \A f \in E : ~Concerns(f, e.job)
      BY <1>6, <1>7, <3>2, <3>3 DEF Engaged
    <3>5. \A f \in E : ~Clash(f, e) /\ ~TooLate(c, f, e)
      BY <3>2, <3>4 DEF Clash, TooLate, OfWorkflow, OfGenerator
    <3>6. e.kind # "timer"
      BY <3>2
    <3>7. Fits(c, E, Now(e))
      BY <3>2, <3>5, <3>6, FitsNow
    <3>8. QED
      BY <3>2, <3>3, <3>7
  <2>2. QED
    BY <2>1
<1>14. \A a \in Range(hs) : Fits(setting.cadence, Evs(Rest) \cup Evs(gs) \cup Evs(fs), a)
  <2>1. PICK c, E : c = setting.cadence /\ E = Evs(Rest) \cup Evs(gs) \cup Evs(fs)
    OBVIOUS
  <2>2. \A f \in E : ~Concerns(f, x)
    BY <1>1, <1>3, <1>4, <1>6, <1>10, <2>1
  <2>3. \A f \in E : ~Clash(f, ev)
    BY <1>9, <2>2 DEF Clash, OfWorkflow, OfGenerator
  <2>4. \A f \in E : ~TooLate(c, f, ev)
    <3>1. ASSUME NEW f \in E, f.kind = "trigger", x \in Range(f.batch)  PROVE FALSE
      <4>1. f \in Upcoming /\ f \in Events
        BY <1>4, <1>5, <1>7, <1>10, <2>1, <3>1
      <4>2. f.stage \in WorkStates
        BY <3>1, <4>1, EventFields
      <4>3. InTrigger(x)
        BY <3>1, <4>1, <4>2 DEF InTrigger, In
      <4>4. QED
        BY <1>2, <4>3 DEF JobOK
    <3>2. QED
      BY <1>9, <3>1 DEF TooLate
  <2>5. ev.kind # "timer"
    BY <1>9
  <2>6. Fits(c, E, Now(ev))
    BY <1>9, <2>3, <2>4, <2>5, FitsNow
  <2>7. QED
    BY <1>11, <2>1, <2>6
<1>15. agenda' = Schedule(Rest, gs \o fs \o hs)
  BY <1>1, <1>8, <1>10
<1>16. \A a \in Range(gs) : Fits(setting.cadence, Evs(Rest), a)
  BY <1>5
<1>17. OneOrNone(gs)
  BY <1>5
<1>18. /\ agenda' \in Seq(Dated) /\ Orderly(setting.cadence, agenda)'
       /\ Upcoming' = Evs(Rest) \cup Evs(gs) \cup Evs(fs) \cup Evs(hs)
       /\ Range(agenda') = Range(Rest) \cup Range(gs) \cup Range(fs) \cup Range(hs)
  <2>1. setting' = setting /\ OneOrNone(hs)
    BY <1>1, <1>11
  <2>2. Threefold(gs, fs, hs)
    BY <2>1, <1>12, <1>13, <1>14, <1>15, <1>16, <1>17 DEF Threefold
  <2>3. QED
    BY <2>2, ThreefoldAgenda
<1>19. QED
  BY <1>3, <1>5, <1>6, <1>8, <1>9, <1>10, <1>11, <1>18

(* What a step of OperateEnds that does not raise does to events and jobs. *)
OperateDoes(x, r, gs) ==
    /\ x \in Tasks /\ r \in Workers /\ jobs[x].at = "routing" /\ r = jobs[x].resource
    /\ Concerns(Occurring, x) /\ Occurring.kind = "stored"
    /\ JobOK(x) /\ jobs[x].todo = <<>>
    /\ jobs'[x].at = "done" /\ jobs'[x].stage = jobs[x].stage
    /\ jobs'[x].batch = jobs[x].batch /\ jobs'[x].resource = jobs[x].resource
    /\ jobs'[x].pooled = jobs[x].pooled /\ jobs'[x].todo = jobs[x].todo
    /\ \A y \in Tasks : y # x => jobs'[y] = jobs[y]
    /\ \A y \in Tasks : Holds(y)' = Holds(y) /\ At(y)' = At(y)
    /\ \A w \in Woken(r) : /\ w \in Tasks /\ w # x /\ jobs[w].at = "paused"
                           /\ jobs[w].resource = r /\ ~Engaged(w)
    /\ \A e \in Upcoming' : \/ e \in Evs(Rest)
                            \/ e \in Evs(gs)
                            \/ e \in Evs(WakeEvents(r))
                            \/ e = Operated(x)
    /\ \A e \in Evs(Rest) : e \in Upcoming' /\ ~Concerns(e, x)
    /\ \A e \in Evs(gs) : e \in Upcoming' /\ e.kind = "got" /\ \A y \in Tasks : ~Concerns(e, y)
    /\ \A e \in Evs(WakeEvents(r)) : /\ e.kind = "wake" /\ e.job \in Woken(r)
                                     /\ \A y : Concerns(e, y) => y = e.job
    /\ Operated(x) \in Upcoming' /\ Operated(x).kind = "operated" /\ Operated(x).job = x
    /\ Concerns(Operated(x), x) /\ \A y : Concerns(Operated(x), y) => y = x
    /\ \A e : e.kind = "trigger" => (e \in Upcoming' <=> e \in Upcoming)
    /\ \A e : e.kind = "got" => (e \in Upcoming' <=> e \in Upcoming \/ e \in Evs(gs))
    /\ Upcoming' \subseteq Events /\ Upcoming = {Occurring} \cup Evs(Rest)
    /\ \A y \in Tasks : Concerns(Occurring, y) => y = x
    /\ \A u \in Tasks : InTrigger(u)' <=> InTrigger(u)

(* A step of operate's end is of that form.                                *)
LEMMA OperateEffect ==
  ASSUME KInv, NEW kind, Happens(kind), NEW x, NEW r, NEW its, NEW gs,
         OperateStep(x, r, its, gs),
         Len(suspended[r]) = 0 \/ ~suspended[r][Len(suspended[r])].on
  PROVE  OperateDoes(x, r, gs)
<1>1. /\ Occurring.kind = "stored" /\ x \in Tasks /\ jobs[x].todo = <<>> /\ r = jobs[x].resource
  BY DEF OperateStep
<1>2. /\ Concerns(Occurring, x) /\ jobs[x].at = "routing" /\ r \in Workers /\ JobOK(x)
      /\ jobs'[x].at = "done" /\ jobs'[x].stage = jobs[x].stage
      /\ jobs'[x].batch = jobs[x].batch /\ jobs'[x].resource = jobs[x].resource
      /\ jobs'[x].pooled = jobs[x].pooled /\ jobs'[x].todo = jobs[x].todo
      /\ \A y \in Tasks : y # x => jobs'[y] = jobs[y]
      /\ \A y \in Tasks : Holds(y)' = Holds(y) /\ At(y)' = At(y)
  BY OperateFacts
<1>3. /\ agenda' \in Seq(Dated)
      /\ Upcoming' = Evs(Rest) \cup Evs(gs) \cup Evs(WakeEvents(r)) \cup {Operated(x)}
      /\ \A e \in Evs(Rest) : ~Concerns(e, x)
      /\ \A e \in Evs(gs) : e.kind = "got" /\ \A y \in Tasks : ~Concerns(e, y)
      /\ Operated(x).kind = "operated" /\ Operated(x).job = x /\ Concerns(Operated(x), x)
      /\ \A y : Concerns(Operated(x), y) => y = x
  BY OperateAgenda
<1>4. /\ \A w \in Woken(r) : /\ w \in Tasks /\ w # x /\ jobs[w].at = "paused"
                             /\ jobs[w].resource = r /\ ~Engaged(w)
      /\ \A e \in Evs(WakeEvents(r)) : /\ e.kind = "wake" /\ e.job \in Woken(r)
                                       /\ \A y : Concerns(e, y) => y = e.job
  BY WokenFacts
<1>5. Upcoming = {Occurring} \cup Evs(Rest)
  BY BeginAgenda
<1>6. /\ \A e : e.kind = "trigger" => (e \in Upcoming' <=> e \in Upcoming)
      /\ \A e : e.kind = "got" => (e \in Upcoming' <=> e \in Upcoming \/ e \in Evs(gs))
  BY <1>1, <1>3, <1>4, <1>5
<1>7. Upcoming' \subseteq Events
  BY <1>3, UpcomingTyped
<1>8. \A u \in Tasks : InTrigger(u)' <=> InTrigger(u)
  BY <1>6 DEF InTrigger, In
<1>9. \A y \in Tasks : Concerns(Occurring, y) => y = x
  BY <1>1, <1>2, HeadJob
<1>10. /\ \A e \in Upcoming' : \/ e \in Evs(Rest)
                               \/ e \in Evs(gs)
                               \/ e \in Evs(WakeEvents(r))
                               \/ e = Operated(x)
       /\ \A e \in Evs(Rest) : e \in Upcoming'
       /\ \A e \in Evs(gs) : e \in Upcoming'
       /\ Operated(x) \in Upcoming'
  BY <1>3
<1>11. QED
  BY <1>1, <1>2, <1>3, <1>4, <1>5, <1>6, <1>7, <1>8, <1>9, <1>10 DEF OperateDoes

(* No task moves but the one a monitor is handed.                          *)
LEMMA OperateSpots ==
  ASSUME KInv, NEW kind, Happens(kind), NEW x, NEW r, NEW its, NEW gs,
         OperateStep(x, r, its, gs), OperateDoes(x, r, gs)
  PROVE  SpotsInv' /\ SeqsInv'
<1>1. /\ \A y \in Tasks : Holds(y)' = Holds(y) /\ At(y)' = At(y)
      /\ \A e : e.kind = "trigger" => (e \in Upcoming' <=> e \in Upcoming)
      /\ \A e : e.kind = "got" => (e \in Upcoming' <=> e \in Upcoming \/ e \in Evs(gs))
  BY DEF OperateDoes
<1>2. /\ Serves(its, gs) /\ items' = its /\ history' = history
      /\ setting' = setting /\ phase' = phase /\ queue' = queue
  BY DEF OperateStep
<1>3. Live /\ SpotsInv /\ SeqsInv
  BY Begin DEF LiveInv
<1>4. \A g \in Evs(gs) :
          /\ g.kind = "got" /\ g.stage \in WorkStates
          /\ g.task \in Tasks /\ history[g.task] = Entry("start", Source(g.stage))
          /\ \E p \in Stores : g.task \in Range(items[p])
  BY <1>2 DEF Serves
<1>5. /\ \A g, h \in Evs(gs) : g = h
      /\ \A p \in Stores : IsInjective(its[p])
      /\ \A p \in Stores, t \in Tasks : t \in Range(its[p]) <=>
            t \in Range(items[p]) /\ ~\E g \in Evs(gs) : g.task = t
  BY <1>2 DEF Serves
<1>6. ASSUME NEW u \in Tasks, NEW k \in Spots, NEW p \in Wheres
      PROVE  In(k, p, u)' <=>
               \/ In(k, p, u) /\ ~(k = "store" /\ \E g \in Evs(gs) : g.task = u)
               \/ k = "got" /\ \E g \in Evs(gs) : g.stage = p /\ g.task = u
  <2>1. CASE k = "store"
    BY <1>2, <1>5, <2>1 DEF In
  <2>2. CASE k = "queue"
    BY <1>2, <2>2 DEF In
  <2>3. CASE k = "got"
    <3>1. In(k, p, u)' <=> p \in WorkStates /\ \E e \in Upcoming' : e.kind = "got" /\ e.stage = p /\ e.task = u
      BY <2>3 DEF In
    <3>2. In(k, p, u) <=> p \in WorkStates /\ \E e \in Upcoming : e.kind = "got" /\ e.stage = p /\ e.task = u
      BY <2>3 DEF In
    <3>3. In(k, p, u)' <=> In(k, p, u) \/ \E g \in Evs(gs) : g.stage = p /\ g.task = u
      BY <1>1, <1>4, <3>1, <3>2
    <3>4. QED
      BY <2>3, <3>3
  <2>4. CASE k = "trigger"
    BY <1>1, <2>4 DEF In
  <2>5. CASE k = "job"
    <3>1. In(k, p, u) <=> p \in Tasks /\ u \in Holds(p)
      BY <2>5 DEF In
    <3>2. In(k, p, u)' <=> p \in Tasks /\ u \in Holds(p)'
      BY <2>5 DEF In
    <3>3. QED
      BY <1>1, <2>5, <3>1, <3>2
  <2>6. QED
    BY <2>1, <2>2, <2>3, <2>4, <2>5 DEF Spots
<1>7. ASSUME NEW u \in Tasks
      PROVE  \/ /\ history'[u] = history[u]
                /\ \A k \in Spots, p \in Wheres : In(k, p, u)' <=> In(k, p, u)
                /\ \A p \in Tasks : u \in Holds(p) => At(p)' = At(p)
             \/ \E k1 \in Spots, p1 \in Wheres :
                   /\ history'[u] = Written(k1, p1)'
                   /\ \A k \in Spots, p \in Wheres : In(k, p, u)' <=> k = k1 /\ p = p1
  <2>2. ASSUME NEW g \in Evs(gs), g.task = u
        PROVE  \E k1 \in Spots, p1 \in Wheres :
                     /\ history'[u] = Written(k1, p1)'
                     /\ \A k \in Spots, p \in Wheres : In(k, p, u)' <=> k = k1 /\ p = p1
    <3>2. g.stage \in WorkStates /\ g.stage \in Wheres /\ "got" \in Spots
      BY <1>4 DEF Wheres, Spots
    <3>3. PICK q \in Stores : u \in Range(items[q])
      BY <1>4, <2>2
    <3>4. In("store", q, u) /\ "store" \in Spots /\ q \in Wheres
      BY <3>3 DEF In, Spots, Wheres
    <3>5. \A k \in Spots, p \in Wheres : In(k, p, u) => k = "store"
      BY <1>3, <3>4 DEF SpotsInv
    <3>6. \A k \in Spots, p \in Wheres : In(k, p, u)' <=> k = "got" /\ p = g.stage
      BY <1>5, <1>6, <2>2, <3>5
    <3>7. history'[u] = Written("got", g.stage)'
      BY <1>2, <1>4, <2>2 DEF Written
    <3>8. QED
      BY <3>2, <3>6, <3>7
  <2>3. CASE ~\E g \in Evs(gs) : g.task = u
    <3>1. \A k \in Spots, p \in Wheres : In(k, p, u)' <=> In(k, p, u)
      BY <1>6, <2>3
    <3>4. QED
      BY <1>1, <1>2, <3>1
  <2>4. QED
    BY <2>2, <2>3
<1>8. phase = "stopped" => phase' = "stopped"
  BY <1>2
<1>9. SpotsInv'
  BY <1>3, <1>7, <1>8, SpotsMove
<1>10. SeqsInv'
  <2>1. \A e \in Upcoming' : e.kind = "trigger" => e \in Upcoming
    BY <1>1
  <2>2. QED
    BY <1>2, <1>3, <1>5, <2>1 DEF SeqsInv, Windowed
<1>11. QED
  BY <1>9, <1>10

(* The job is done, and the woken job has its event.                       *)
LEMMA OperateJobs ==
  ASSUME KInv, NEW kind, Happens(kind), NEW x, NEW r, NEW its, NEW gs,
         OperateStep(x, r, its, gs), OperateDoes(x, r, gs)
  PROVE  /\ JobsInv' /\ EventsInv'
         /\ \A y \in Tasks : y # x /\ y \notin Woken(r) => (Engaged(y)' <=> Engaged(y))
<1>1. /\ x \in Tasks /\ r \in Workers /\ jobs[x].at = "routing"
      /\ JobOK(x) /\ jobs[x].todo = <<>>
      /\ jobs'[x].at = "done" /\ jobs'[x].stage = jobs[x].stage
      /\ jobs'[x].batch = jobs[x].batch /\ jobs'[x].resource = jobs[x].resource
      /\ jobs'[x].pooled = jobs[x].pooled /\ jobs'[x].todo = jobs[x].todo
      /\ \A y \in Tasks : y # x => jobs'[y] = jobs[y]
      /\ \A y \in Tasks : Holds(y)' = Holds(y)
      /\ \A w \in Woken(r) : w \in Tasks /\ w # x /\ jobs[w].at = "paused" /\ ~Engaged(w)
      /\ Upcoming' \subseteq Events /\ Upcoming = {Occurring} \cup Evs(Rest)
      /\ \A y \in Tasks : Concerns(Occurring, y) => y = x
      /\ \A u \in Tasks : InTrigger(u)' <=> InTrigger(u)
  BY DEF OperateDoes
<1>2. /\ \A e \in Upcoming' : \/ e \in Evs(Rest)
                              \/ e \in Evs(gs)
                              \/ e \in Evs(WakeEvents(r))
                              \/ e = Operated(x)
      /\ \A e \in Evs(Rest) : e \in Upcoming' /\ ~Concerns(e, x)
      /\ \A e \in Evs(gs) : \A y \in Tasks : ~Concerns(e, y)
      /\ \A e \in Evs(WakeEvents(r)) : /\ e.kind = "wake" /\ e.job \in Woken(r)
                                       /\ \A y : Concerns(e, y) => y = e.job
      /\ Operated(x) \in Upcoming' /\ Operated(x).kind = "operated" /\ Operated(x).job = x
      /\ Concerns(Operated(x), x) /\ \A y : Concerns(Operated(x), y) => y = x
  BY DEF OperateDoes
<1>3. setting' = setting /\ history' = history
  BY DEF OperateStep
<1>4. JobsInv
  BY Begin DEF LiveInv
<1>5. JobOK(x)'
  <2>1. Engaged(x)'
    BY <1>2 DEF Engaged
  <2>2. QED
    BY <1>1, <1>3, <2>1 DEF JobOK, Windowed
<1>6. \A w \in Woken(r) : JobOK(w)'
  <2>1. ASSUME NEW w \in Woken(r)  PROVE JobOK(w)'
    <3>1. jobs'[w] = jobs[w] /\ jobs[w].at = "paused" /\ JobOK(w)
      BY <1>1, <1>4 DEF JobsInv
    <3>2. QED
      BY <1>3, <3>1 DEF JobOK, Windowed
  <2>2. QED
    BY <2>1
<1>7. \A e \in Upcoming' : Concerns(e, x) => EventOK(e)'
  <2>1. ASSUME NEW e \in Upcoming', Concerns(e, x)  PROVE EventOK(e)'
    <3>1. e = Operated(x)
      BY <1>1, <1>2, <2>1
    <3>2. /\ e.kind = "operated" /\ \A y : Concerns(e, y) => y = x
      BY <1>2, <3>1
    <3>3. StateOf(e) = "done"
      BY <3>2 DEF StateOf
    <3>4. QED
      BY <1>1, <3>2, <3>3 DEF EventOK
  <2>2. QED
    BY <2>1
<1>8. \A e \in Upcoming', w \in Woken(r) : Concerns(e, w) => EventOK(e)'
  <2>1. ASSUME NEW e \in Upcoming', NEW w \in Woken(r), Concerns(e, w)  PROVE EventOK(e)'
    <3>1. e \notin Evs(Rest)
      BY <1>1, <2>1 DEF Engaged
    <3>2. e \in Evs(WakeEvents(r))
      BY <1>1, <1>2, <2>1, <3>1
    <3>3. /\ e.kind = "wake" /\ \A y : Concerns(e, y) => y = w
      BY <1>2, <2>1, <3>2
    <3>4. StateOf(e) = "paused"
      BY <3>3 DEF StateOf
    <3>5. jobs'[w].at = "paused"
      BY <1>1
    <3>6. QED
      BY <3>3, <3>4, <3>5 DEF EventOK
  <2>2. QED
    BY <2>1
<1>9. PICK X : X = {x} \cup Woken(r)
  OBVIOUS
<1>10. /\ \A e \in Upcoming' : e \in Evs(Rest) \/ \A y \in Tasks : Concerns(e, y) => y \in X
       /\ \A e \in Evs(Rest) : e \in Upcoming' \/ \E y \in X : Concerns(e, y)
       /\ \A y \in Tasks : Concerns(Occurring, y) => y \in X
       /\ \A y \in Tasks : y \notin X => jobs'[y] = jobs[y]
       /\ X \subseteq Tasks
  BY <1>1, <1>2, <1>9
<1>11. \A y \in Tasks : y \notin X /\ jobs[y].at = "routing" =>
             /\ jobs[y].stage = "deployment" => history'[y].state = history[y].state
             /\ ~InTrigger(y)'
             /\ \A z \in Tasks : y \notin Holds(z)'
  <2>1. ASSUME NEW y \in Tasks, jobs[y].at = "routing"
        PROVE  ~InTrigger(y)' /\ \A z \in Tasks : y \notin Holds(z)'
    <3>1. ~InTrigger(y) /\ \A z \in Tasks : y \notin Holds(z)
      BY <1>4, <2>1 DEF JobsInv, JobOK
    <3>2. QED
      BY <1>1, <3>1
  <2>2. QED
    BY <1>3, <2>1
<1>12. /\ \A y \in X : JobOK(y)'
       /\ \A e \in Upcoming', y \in X : Concerns(e, y) => EventOK(e)'
  BY <1>5, <1>6, <1>7, <1>8, <1>9
<1>13. Upcoming' \subseteq Events
  BY <1>1
<1>14. /\ JobsInv' /\ EventsInv'
       /\ \A y \in Tasks : y \notin X => /\ Engaged(y)' <=> Engaged(y)
                                         /\ Holds(y)' = Holds(y) /\ At(y)' = At(y)
  BY <1>3, <1>10, <1>11, <1>12, <1>13, JobStep
<1>15. QED
  BY <1>9, <1>14

(* The signal on top is not open any more, and the others belong to their  *)
(* jobs.                                                                   *)
LEMMA OperateSignals ==
  ASSUME KInv, NEW kind, Happens(kind), NEW x, NEW r, NEW its, NEW gs,
         OperateStep(x, r, its, gs), OperateDoes(x, r, gs),
         Len(suspended[r]) = 0 \/ ~suspended[r][Len(suspended[r])].on
  PROVE  WaitersInv' /\ SignalsInv'
<1>1. /\ x \in Tasks /\ r \in Workers /\ jobs[x].at = "routing" /\ Concerns(Occurring, x)
      /\ \A y \in Tasks : y # x => jobs'[y] = jobs[y]
      /\ \A w \in Woken(r) : /\ w \in Tasks /\ w # x /\ jobs[w].at = "paused"
                             /\ jobs[w].resource = r
  BY DEF OperateDoes
<1>2. /\ \A q \in Workers : DOMAIN suspended'[q] = DOMAIN suspended[q]
      /\ \A q \in Workers : \A i \in DOMAIN suspended[q] :
               \/ suspended'[q][i] = suspended[q][i]
               \/ q = r /\ i = Len(suspended[r]) /\ suspended'[q][i].on
      /\ Len(suspended[r]) # 0 =>
               /\ Len(suspended[r]) \in DOMAIN suspended[r]
               /\ suspended'[r][Len(suspended[r])].on
  BY OperateFacts
<1>3. WaitersInv /\ SignalsInv
  BY Begin DEF LiveInv
<1>4. \A y \in Tasks : y # x /\ y \notin Woken(r) => (Engaged(y)' <=> Engaged(y))
  BY OperateJobs
<1>5. waiters' = waiters
  BY DEF OperateStep, poolVars
<1>6. /\ waiters \in [WorkStates -> Seq(Tasks)]
      /\ suspended \in [Workers -> Seq([of : Tasks, on : BOOLEAN])]
  BY TypesNow
<1>7. \A s \in WorkStates : x \notin Range(waiters[s])
  BY <1>1, HeadJob
<1>8. WaitersInv'
  <2>1. PICK X : X = {x} \cup Woken(r)
    OBVIOUS
  <2>2. /\ X \subseteq Tasks
        /\ \A y \in Tasks : y \notin X => jobs'[y] = jobs[y] /\ (Engaged(y)' <=> Engaged(y))
    BY <1>1, <1>4, <2>1
  <2>3. \A y \in X, s \in WorkStates : y \notin Range(waiters[s])
    <3>1. \A s \in WorkStates : \A y \in Range(waiters[s]) : jobs[y].at = "waiting"
      BY <1>3 DEF WaitersInv
    <3>2. QED
      BY <1>1, <1>7, <2>1, <3>1
  <2>4. waiters \in [WorkStates -> Seq(Tasks)]
    BY <1>6
  <2>5. QED
    BY <1>3, <1>5, <2>2, <2>3, <2>4, WaitersFrame
<1>9. ASSUME NEW q \in Workers, NEW i \in DOMAIN suspended[q], ~suspended'[q][i].on
      PROVE  /\ suspended'[q][i] = suspended[q][i]
             /\ jobs'[suspended[q][i].of].at = "paused" /\ jobs'[suspended[q][i].of].resource = q
             /\ \A e \in Upcoming' : ~Concerns(e, suspended[q][i].of)
  <2>1. suspended'[q][i] = suspended[q][i]
    BY <1>2, <1>9
  <2>2. ~(q = r /\ i = Len(suspended[r]))
    BY <1>2, <1>9
  <2>3. PICK y : y = suspended[q][i].of
    OBVIOUS
  <2>4. y \in Tasks
    <3>1. PICK z, R : z = suspended[q] /\ R = [of : Tasks, on : BOOLEAN]
      OBVIOUS
    <3>2. z \in Seq(R) /\ i \in DOMAIN z
      BY <1>6, <3>1
    <3>3. z[i] \in R
      BY <3>2
    <3>4. QED
      BY <2>3, <3>1, <3>3
  <2>5. /\ jobs[y].at = "paused" /\ jobs[y].resource = q /\ ~Engaged(y)
        /\ \A j \in DOMAIN suspended[q] : suspended[q][j].of = y /\ ~suspended[q][j].on => i = j
    BY <1>3, <1>9, <2>1, <2>3 DEF SignalsInv
  <2>6. y # x
    BY <1>1, <2>5
  <2>7. y \notin Woken(r)
    <3>1. ASSUME y \in Woken(r)  PROVE FALSE
      <4>1. q = r
        BY <1>1, <2>5, <3>1
      <4>2. Len(suspended[r]) # 0 /\ y = suspended[r][Len(suspended[r])].of
        BY <3>1 DEF Woken
      <4>3. Len(suspended[r]) \in DOMAIN suspended[r]
        BY <1>2, <4>2
      <4>4. ~suspended[r][Len(suspended[r])].on
        BY <4>2
      <4>5. QED
        BY <2>2, <2>5, <4>1, <4>2, <4>3, <4>4
    <3>2. QED
      BY <3>1
  <2>8. jobs'[y] = jobs[y] /\ ~Engaged(y)'
    BY <1>1, <1>4, <2>4, <2>5, <2>6, <2>7
  <2>9. QED
    BY <2>1, <2>3, <2>5, <2>8 DEF Engaged
<1>10. SignalsInv'
  <2>0. PICK v : v = suspended'
    OBVIOUS
  <2>1. ASSUME NEW q \in Workers, NEW i \in DOMAIN v[q], ~v[q][i].on
        PROVE  /\ jobs'[v[q][i].of].at = "paused" /\ jobs'[v[q][i].of].resource = q
               /\ \A e \in Upcoming' : ~Concerns(e, v[q][i].of)
               /\ \A j \in DOMAIN v[q] : v[q][j].of = v[q][i].of /\ ~v[q][j].on => i = j
    <3>1. i \in DOMAIN suspended[q] /\ DOMAIN v[q] = DOMAIN suspended[q]
      BY <1>2, <2>0, <2>1
    <3>2. PICK y : y = suspended[q][i].of
      OBVIOUS
    <3>3. /\ v[q][i] = suspended[q][i] /\ jobs'[y].at = "paused" /\ jobs'[y].resource = q
          /\ \A e \in Upcoming' : ~Concerns(e, y)
      BY <1>9, <2>0, <2>1, <3>1, <3>2
    <3>5. \A j \in DOMAIN suspended[q] : suspended[q][j].of = y /\ ~suspended[q][j].on => i = j
      BY <1>3, <2>1, <3>1, <3>2, <3>3 DEF SignalsInv
    <3>6. \A j \in DOMAIN suspended[q] : ~v[q][j].on => v[q][j] = suspended[q][j]
      BY <1>9, <2>0
    <3>7. v[q][i].of = y
      BY <3>2, <3>3
    <3>8. \A j \in DOMAIN v[q] : v[q][j].of = y /\ ~v[q][j].on => i = j
      BY <3>1, <3>5, <3>6
    <3>9. QED
      BY <3>3, <3>7, <3>8
  <2>2. QED
    BY <2>0, <2>1 DEF SignalsInv, Engaged
<1>11. QED
  BY <1>8, <1>10

(* What the end of operate does not touch.                                 *)
LEMMA OperateRest ==
  ASSUME KInv, NEW kind, Happens(kind), NEW x, NEW r, NEW its, NEW gs,
         OperateStep(x, r, its, gs), OperateDoes(x, r, gs),
         Len(suspended[r]) = 0 \/ ~suspended[r][Len(suspended[r])].on
  PROVE  ProcessInv' /\ PhaseInv' /\ TimerInv' /\ AlarmInv' /\ FlowInv'
<1>1. /\ x \in Tasks /\ r \in Workers /\ jobs[x].at = "routing"
      /\ Concerns(Occurring, x) /\ Occurring.kind = "stored"
      /\ jobs'[x].at = "done" /\ jobs'[x].stage = jobs[x].stage
      /\ jobs'[x].resource = jobs[x].resource /\ jobs'[x].pooled = jobs[x].pooled
      /\ \A y \in Tasks : y # x => jobs'[y] = jobs[y]
      /\ Upcoming = {Occurring} \cup Evs(Rest)
      /\ \A e : e.kind = "trigger" => (e \in Upcoming' <=> e \in Upcoming)
      /\ \A e : e.kind = "got" => (e \in Upcoming' <=> e \in Upcoming \/ e \in Evs(gs))
  BY DEF OperateDoes
<1>2. /\ \A e \in Upcoming' : \/ e \in Evs(Rest)
                              \/ e \in Evs(gs)
                              \/ e \in Evs(WakeEvents(r))
                              \/ e = Operated(x)
      /\ \A e \in Evs(Rest) : e \in Upcoming' /\ ~Concerns(e, x)
      /\ \A e \in Evs(gs) : e \in Upcoming' /\ e.kind = "got"
      /\ \A e \in Evs(WakeEvents(r)) : e.kind = "wake"
      /\ Operated(x).kind = "operated"
  BY DEF OperateDoes
<1>3. /\ Serves(its, gs) /\ items' = its
      /\ UNCHANGED <<history, alarm, setting, left, rework, process, failures,
                     phase, arrivals, queue, awaiting, poolVars>>
  BY DEF OperateStep
<1>4. /\ its["delivery"] = items["delivery"]
      /\ \A g \in Evs(gs) : g.stage \in listening
      /\ listening' = listening \ {g.stage : g \in Evs(gs)}
  BY <1>3 DEF Serves
<1>5. /\ Live /\ ProcessInv /\ PhaseInv /\ AlarmInv /\ FlowInv /\ Occurring.kind = kind
  BY Begin DEF LiveInv
<1>6. /\ process \in [Workers -> Processes] /\ left \in [Tasks -> Nat]
  BY TypesNow
<1>7. phase # "seeding"
  BY OperateFacts
<1>8. Finish(x) \notin Upcoming
  <2>1. Finish(x).kind = "finish" /\ Concerns(Finish(x), x)
    BY DEF Finish, Concerns, JobKinds
  <2>2. QED
    BY <1>1, <1>2, <2>1
<1>9. ProcessInv'
  <2>1. \A e \in Upcoming : e.kind = "finish" => e \in Upcoming'
    BY <1>1, <1>2
  <2>2. \A q \in Range(Team["qa_testing"]) : Busy(q) => process[q].of # x
    BY <1>1, <1>5 DEF ProcessInv
  <2>3. jobs'[x].at # "none" /\ jobs'[x].stage = "qa_testing" =>
            /\ jobs'[x].pooled /\ jobs'[x].at \in {"waiting", "working", "routing", "done"}
            /\ jobs'[x].at = "working" =>
                 process[jobs'[x].resource].of = x /\ Busy(jobs'[x].resource)
    BY <1>1, <1>5 DEF ProcessInv
  <2>4. process' = process /\ \A y \in Tasks : y # x => jobs'[y] = jobs[y]
    BY <1>1, <1>3
  <2>5. QED
    BY <1>1, <1>5, <1>6, <1>8, <2>1, <2>2, <2>3, <2>4, ProcessFrame
<1>10. PhaseInv'
  <2>1. phase # "running" => listening' = {} /\ awaiting' = {}
    BY <1>3, <1>4, <1>5 DEF PhaseInv
  <2>2. \A e \in Upcoming' : e \notin Upcoming =>
            /\ ~OfWorkflow(e) /\ e.kind \notin {"over", "arrival"}
            /\ e.kind = "alarm" => alarm'.signal = "triggered"
            /\ e.kind = "timer" => setting.cadence > 0
            /\ e.kind = "trigger" => e.heard
    BY <1>1, <1>2 DEF OfWorkflow
  <2>3. \A e \in Upcoming' : e.kind = "got" => e.stage \notin listening'
    <3>1. \A e \in Upcoming : e.kind = "got" => e.stage \notin listening
      BY <1>5 DEF PhaseInv
    <3>2. QED
      BY <1>1, <1>4, <3>1
  <2>4. phase = "running" => \A s \in WorkStates :
            s \in awaiting' <=> ~\E e \in Upcoming' : e.kind = "trigger" /\ e.stage = s
    <3>1. phase = "running" => \A s \in WorkStates :
            s \in awaiting <=> ~\E e \in Upcoming : e.kind = "trigger" /\ e.stage = s
      BY <1>5 DEF PhaseInv
    <3>2. QED
      BY <1>1, <1>3, <3>1
  <2>5. /\ phase' = phase /\ setting' = setting /\ arrivals' = arrivals
        /\ alarm'.limit = alarm.limit /\ alarm'.signal = alarm.signal
        /\ \A t \in Tasks : history[t] = NoEntry => history'[t] = NoEntry
    BY <1>3
  <2>6. QED
    BY <1>5, <1>7, <2>1, <2>2, <2>3, <2>4, <2>5, PhaseStays
<1>11. /\ agenda' \in Seq(Dated)
       /\ Range(agenda') = Range(Rest) \cup Range(gs) \cup Range(WakeEvents(r))
                                \cup {Now(Operated(x))}
       /\ \A a \in Range(gs) : a.ev.kind = "got"
  BY OperateAgenda
<1>12. \A a \in Range(agenda') : a.ev.kind \in {"finish", "timer"} => a \in Range(Rest)
  <2>1. \A a \in Range(WakeEvents(r)) : a.ev.kind = "wake"
    BY WokenFacts
  <2>2. Now(Operated(x)).ev.kind = "operated"
    BY <1>2 DEF Now
  <2>3. QED
    BY <1>11, <2>1, <2>2
<1>13. TimerInv'
  <2>1. kind \notin Delayed
    BY <1>1, <1>5 DEF Delayed
  <2>2. \A a \in Range(agenda') : a.ev.kind = "timer" => a \in Range(Rest)
    BY <1>12
  <2>3. QED
    BY <2>1, <2>2, TimerLate
<1>14. AlarmInv'
  BY <1>3, <1>4, <1>5 DEF AlarmInv
<1>15. FlowInv'
  <2>1. \A e \in Upcoming' : e.kind \in {"finish", "worked"} => e \in Evs(Rest) /\ e.job # x
    BY <1>2 DEF Concerns, JobKinds
  <2>2. \A a \in Range(agenda') : a.ev.kind = "finish" => a \in Range(Rest) /\ a.ev.job # x
    <3>1. \A a \in Range(agenda') : a.ev \in Upcoming'
      BY EvsRange DEF Upcoming
    <3>2. QED
      BY <1>12, <2>1, <3>1
  <2>3. PICK X : X = {x}
    OBVIOUS
  <2>4. X \subseteq Tasks /\ left' \in [Tasks -> Nat]
    BY <1>1, <1>3, <1>6, <2>3
  <2>5. /\ \A y \in Tasks : y \notin X => jobs'[y] = jobs[y]
        /\ \A y \in Tasks : y \notin X /\ jobs[y].at = "working" => left'[y] = left[y]
        /\ \A a \in Range(agenda') : a.ev.kind = "finish" => a.ev.job \notin X /\ a \in Range(Rest)
        /\ \A e \in Upcoming' : e.kind = "worked" => e.job \notin X /\ e \in Evs(Rest)
        /\ \A y \in Tasks : y \notin X /\ jobs[y].at = "working" /\ jobs[y].stage = "qa_testing" =>
            process'[jobs[y].resource].failed = process[jobs[y].resource].failed
    BY <1>1, <1>3, <2>1, <2>2, <2>3
  <2>6. FlowEvents'
    BY <1>11, <2>4, <2>5, FlowFrame
  <2>7. history' = history /\ left' = left /\ rework' = rework
    BY <1>3
  <2>8. QED
    BY <1>5, <2>6, <2>7, FlowStays
<1>16. QED
  BY <1>9, <1>10, <1>13, <1>14, <1>15

(* operate returns; if the signal had been triggered before, it raises.    *)
LEMMA OperateEndsKeeps ==
  ASSUME KInv, OperateEnds
  PROVE  KInv' /\ \A u \in Tasks : Moves(u)
<1>1. PICK x, store, r, kind : /\ x = Occurring.by /\ store = Occurring.store
                               /\ r = jobs[x].resource /\ kind = "stored"
  OBVIOUS
<1>2. PICK its, gs : its = ItemsLeft(store) /\ gs = GotEvents(store)
  OBVIOUS
<1>3. /\ Happens(kind) /\ x \in Tasks /\ jobs[x].todo = <<>> /\ Serve(store)
      /\ items' = its
      /\ jobs' = [jobs EXCEPT ![x].at = "done"]
      /\ suspended' = IF Len(suspended[r]) = 0 THEN suspended
                      ELSE [suspended EXCEPT ![r][Len(suspended[r])].on = TRUE]
      /\ raised' = IF Len(suspended[r]) > 0 /\ suspended[r][Len(suspended[r])].on
                   THEN {"signal triggered twice"} ELSE {}
      /\ agenda' = Schedule(Rest, gs
                 \o (IF Len(suspended[r]) = 0 THEN <<>>
                     ELSE <<Now(Wake(suspended[r][Len(suspended[r])].of))>>)
                 \o <<Now(Operated(x))>>)
      /\ UNCHANGED <<history, alarm, setting, left, rework, process, failures,
                     phase, arrivals, queue, awaiting, poolVars>>
  BY <1>1, <1>2 DEF OperateEnds
<1>4. Live /\ Occurring.kind = "stored" /\ Occurring \in Events
  BY <1>1, <1>3, Begin, BeginAgenda
<1>5. store \in Stores
  BY <1>1, <1>4, EventFields
<1>6. Serves(its, gs)
  BY <1>2, <1>3, <1>5, ServesStore
<1>7. OperateStep(x, r, its, gs)
  BY <1>1, <1>3, <1>4, <1>6 DEF OperateStep, WakeEvents
<1>8. TypeInv' /\ PoolInv' /\ \A u \in Tasks : Moves(u)
  <2>1. raised' \subseteq {"signal triggered twice"}
    BY <1>3
  <2>2. QED
    BY <1>3, <1>7, <2>1, OperateTypes
<1>9. CASE Len(suspended[r]) > 0 /\ suspended[r][Len(suspended[r])].on
  <2>1. ~Live'
    BY <1>3, <1>9 DEF Live
  <2>2. QED
    BY <1>8, <2>1 DEF KInv
<1>10. CASE ~(Len(suspended[r]) > 0 /\ suspended[r][Len(suspended[r])].on)
  <2>1. Len(suspended[r]) = 0 \/ ~suspended[r][Len(suspended[r])].on
    <3>1. PICK z : z = suspended[r]
      OBVIOUS
    <3>2. z \in Seq(SignalRecords)
      <4>1. r \in Workers
        BY <1>3, <1>7, OperateFacts
      <4>2. QED
        BY <3>1, <4>1, TypesNow DEF SignalRecords
    <3>3. Len(z) \in Nat
      BY <3>2
    <3>4. QED
      BY <1>10, <3>1, <3>3
  <2>2. OperateDoes(x, r, gs)
    BY <1>3, <1>7, <2>1, OperateEffect
  <2>3. SpotsInv' /\ SeqsInv'
    BY <1>3, <1>7, <2>2, OperateSpots
  <2>4. JobsInv' /\ EventsInv'
    BY <1>3, <1>7, <2>2, OperateJobs
  <2>5. WaitersInv' /\ SignalsInv'
    BY <1>3, <1>7, <2>1, <2>2, OperateSignals
  <2>6. ProcessInv' /\ PhaseInv' /\ TimerInv' /\ AlarmInv' /\ FlowInv'
    BY <1>3, <1>7, <2>1, <2>2, OperateRest
  <2>7. Orderly(setting.cadence, agenda)'
    BY <1>3, <1>7, <2>1, OperateAgenda
  <2>8. QED
    BY <1>8, <2>3, <2>4, <2>5, <2>6, <2>7 DEF KInv, LiveInv
<1>11. QED
  BY <1>9, <1>10

-----------------------------------------------------------------------------
(* A job starts, is assigned a resource, or waits for one.                 *)

(* The batch b of work state s, whose job x is about to go on.             *)
Starts(x, s, b) ==
    /\ x \in Tasks /\ s \in WorkStates /\ b \in Seq(Tasks) /\ b # <<>> /\ Head(b) = x
    /\ x \in Range(b) /\ IsInjective(b)
    /\ ~Windowed(setting.cadence, s) => b = <<x>>
    /\ jobs[x].at \in {"none", "waiting"}
    /\ IsSupport(x) => s = "development"
    /\ \A e \in Evs(Rest) : ~Concerns(e, x)
    /\ \A y \in Tasks : Concerns(Occurring, y) => y = x
    /\ \A t \in Range(b) :
          /\ history[t] = Entry("start", Source(s))
          /\ InTrigger(t) \/ t \in Holds(x)
          /\ \A k \in Spots, p \in Wheres : In(k, p, t) =>
                (k = "trigger" /\ p = s) \/ (k = "job" /\ p = x)
          /\ \A e \in Evs(Rest) : e.kind = "trigger" => t \notin Range(e.batch)
    /\ \A t \in Holds(x) : t \in Range(b)
    /\ Occurring.kind \in {"trigger", "assigned"}
    /\ Occurring.kind = "trigger" =>
          /\ Occurring.batch = b /\ Occurring.stage = s /\ phase = "running"
          /\ \A e \in Evs(Rest) : e.kind = "trigger" => e.stage # s
    /\ \A q \in WorkStates : x \notin Range(waiters[q])
    /\ \A q \in Workers : \A i \in DOMAIN suspended[q] :
          suspended[q][i].of = x => suspended[q][i].on
    /\ phase # "seeding" /\ phase # "over"

(* The job goes on; another one, o, may be interrupted or served with it.  *)
StartStep(x, o, s, b) ==
    /\ o \in Tasks /\ (o = x \/ jobs[o].at \in {"working", "waiting"})
    /\ jobs'[x] \in JobRecords
    /\ jobs'[x].stage = s /\ jobs'[x].batch = b /\ jobs'[x].todo = b
    /\ jobs'[x].at \in {"waiting", "working", "paused"}
    /\ jobs'[x].at = "waiting" <=> jobs'[x].resource = None
    /\ jobs'[x].at = "waiting" => jobs'[x].pooled
    /\ jobs'[x].at # "waiting" => jobs'[x].resource \in Range(Team[s])
    /\ IsSupport(x) => ~jobs'[x].pooled
    /\ \A y \in Tasks : y # x => jobs'[y] = jobs[y]
    /\ \A t \in Tasks : history'[t] = IF t \in Range(b) /\ jobs'[x].at # "waiting"
                                      THEN Entry("start", s) ELSE history[t]
    /\ agenda' \in Seq(Dated)
    /\ \A e \in Upcoming' :
          \/ e \in Evs(Rest)
          \/ /\ e.kind \in {"assigned", "finish", "worked", "returned"} /\ EventOK(e)'
             /\ \A y \in Tasks : Concerns(e, y) => y = x \/ y = o
    /\ \A e \in Evs(Rest) : e \in Upcoming' \/ (e.kind = "finish" /\ e.job = o)
    /\ awaiting' = IF Occurring.kind = "trigger" THEN awaiting \cup {s} ELSE awaiting
    /\ UNCHANGED <<items, alarm, setting, phase, arrivals, queue, listening>>

(* The batch leaves the trigger for the job.                               *)
LEMMA StartSpots ==
  ASSUME KInv, NEW kind, Happens(kind), NEW x, NEW o, NEW s, NEW b,
         Starts(x, s, b), StartStep(x, o, s, b)
  PROVE  SpotsInv' /\ SeqsInv'
<1>1. /\ x \in Tasks /\ s \in WorkStates
      /\ \A t \in Range(b) :
          /\ \A k \in Spots, p \in Wheres : In(k, p, t) =>
                (k = "trigger" /\ p = s) \/ (k = "job" /\ p = x)
          /\ \A e \in Evs(Rest) : e.kind = "trigger" => t \notin Range(e.batch)
      /\ \A t \in Holds(x) : t \in Range(b)
      /\ Occurring.kind \in {"trigger", "assigned"}
      /\ Occurring.kind = "trigger" => Occurring.batch = b
      /\ \A t \in Range(b) : history[t] = Entry("start", Source(s))
  BY DEF Starts
<1>2. /\ jobs'[x].stage = s /\ jobs'[x].batch = b
      /\ jobs'[x].at \in {"waiting", "working", "paused"}
      /\ \A y \in Tasks : y # x => jobs'[y] = jobs[y]
      /\ \A t \in Tasks : history'[t] = IF t \in Range(b) /\ jobs'[x].at # "waiting"
                                        THEN Entry("start", s) ELSE history[t]
      /\ items' = items /\ setting' = setting /\ phase' = phase /\ queue' = queue
  BY DEF StartStep
<1>3. /\ \A e \in Upcoming' :
          \/ e \in Evs(Rest)
          \/ e.kind \in {"assigned", "finish", "worked", "returned"}
      /\ \A e \in Evs(Rest) : e \in Upcoming' \/ e.kind = "finish"
  BY DEF StartStep
<1>4. Upcoming = {Occurring} \cup Evs(Rest)
  BY BeginAgenda
<1>5. Live /\ SpotsInv /\ SeqsInv
  BY Begin DEF LiveInv
<1>6. \A e : e.kind \in {"got", "trigger"} => (e \in Upcoming' <=> e \in Evs(Rest))
  BY <1>3
<1>7. /\ Holds(x)' = Range(b) /\ At(x)' = IF jobs'[x].at = "waiting" THEN Source(s) ELSE s
      /\ \A y \in Tasks : y # x => Holds(y)' = Holds(y) /\ At(y)' = At(y)
  <2>1. Holds(x)' = Range(b) /\ \A y \in Tasks : y # x => Holds(y)' = Holds(y)
    BY <1>2 DEF Holds
  <2>2. At(x)' = IF jobs'[x].at = "waiting" THEN Source(s) ELSE s
    BY <1>2 DEF At, Source
  <2>3. ASSUME NEW y \in Tasks, y # x  PROVE At(y)' = At(y)
    <3>1. jobs'[y] = jobs[y]
      BY <1>2, <2>3
    <3>2. QED
      BY <3>1 DEF At
  <2>4. QED
    BY <2>1, <2>2, <2>3
<1>8. ASSUME NEW t \in Tasks, t \in Range(b), NEW k \in Spots, NEW p \in Wheres
      PROVE  In(k, p, t)' <=> k = "job" /\ p = x
  <2>1. CASE k = "store" \/ k = "queue"
    <3>1. In(k, p, t)' <=> In(k, p, t)
      BY <1>2, <2>1 DEF In
    <3>2. QED
      BY <1>1, <1>8, <2>1, <3>1
  <2>2. CASE k = "got"
    <3>1. In(k, p, t)' => In(k, p, t)
      BY <1>4, <1>6, <2>2 DEF In
    <3>2. QED
      BY <1>1, <1>8, <2>2, <3>1
  <2>3. CASE k = "trigger"
    <3>1. ~In(k, p, t)'
      BY <1>1, <1>6, <1>8, <2>3 DEF In
    <3>2. QED
      BY <2>3, <3>1
  <2>4. CASE k = "job"
    <3>1. In(k, p, t)' <=> p \in Tasks /\ t \in Holds(p)'
      BY <2>4 DEF In
    <3>2. In(k, p, t) <=> p \in Tasks /\ t \in Holds(p)
      BY <2>4 DEF In
    <3>3. QED
      BY <1>1, <1>7, <1>8, <2>4, <3>1, <3>2
  <2>5. QED
    BY <2>1, <2>2, <2>3, <2>4 DEF Spots
<1>9. ASSUME NEW t \in Tasks, t \notin Range(b), NEW k \in Spots, NEW p \in Wheres
      PROVE  In(k, p, t)' <=> In(k, p, t)
  <2>1. CASE k = "store" \/ k = "queue"
    BY <1>2, <2>1 DEF In
  <2>2. CASE k = "got"
    BY <1>1, <1>4, <1>6, <2>2 DEF In
  <2>3. CASE k = "trigger"
    BY <1>1, <1>4, <1>6, <1>9, <2>3 DEF In
  <2>4. CASE k = "job"
    <3>1. In(k, p, t)' <=> p \in Tasks /\ t \in Holds(p)'
      BY <2>4 DEF In
    <3>2. In(k, p, t) <=> p \in Tasks /\ t \in Holds(p)
      BY <2>4 DEF In
    <3>3. QED
      BY <1>1, <1>7, <1>9, <2>4, <3>1, <3>2
  <2>5. QED
    BY <2>1, <2>2, <2>3, <2>4 DEF Spots
<1>10. ASSUME NEW t \in Tasks
       PROVE  \/ /\ history'[t] = history[t]
                 /\ \A k \in Spots, p \in Wheres : In(k, p, t)' <=> In(k, p, t)
                 /\ \A p \in Tasks : t \in Holds(p) => At(p)' = At(p)
              \/ \E k1 \in Spots, p1 \in Wheres :
                    /\ history'[t] = Written(k1, p1)'
                    /\ \A k \in Spots, p \in Wheres : In(k, p, t)' <=> k = k1 /\ p = p1
  <2>1. CASE t \in Range(b)
    <3>1. "job" \in Spots /\ x \in Wheres
      BY <1>1 DEF Spots, Wheres
    <3>2. Written("job", x)' = Entry("start", At(x)')
      BY DEF Written, Entry
    <3>3. history'[t] = Written("job", x)'
      BY <1>1, <1>2, <1>7, <2>1, <3>2
    <3>4. \A k \in Spots, p \in Wheres : In(k, p, t)' <=> k = "job" /\ p = x
      BY <1>8, <2>1
    <3>5. QED
      BY <3>1, <3>3, <3>4
  <2>2. CASE t \notin Range(b)
    <3>1. history'[t] = history[t]
      BY <1>2, <2>2
    <3>2. \A k \in Spots, p \in Wheres : In(k, p, t)' <=> In(k, p, t)
      BY <1>9, <2>2
    <3>3. \A p \in Tasks : t \in Holds(p) => At(p)' = At(p)
      BY <1>1, <1>7, <2>2
    <3>4. QED
      BY <3>1, <3>2, <3>3
  <2>3. QED
    BY <2>1, <2>2
<1>11. phase = "stopped" => phase' = "stopped"
  BY <1>2
<1>12. SpotsInv'
  BY <1>5, <1>10, <1>11, SpotsMove
<1>13. SeqsInv'
  <2>1. \A e \in Upcoming' : e.kind = "trigger" => e \in Upcoming
    BY <1>4, <1>6
  <2>2. QED
    BY <1>2, <1>5, <2>1 DEF SeqsInv, Windowed
<1>14. QED
  BY <1>12, <1>13

(* What is known of the jobs of the step, and of all others.               *)
LEMMA StartJobs ==
  ASSUME KInv, NEW kind, Happens(kind), NEW x, NEW o, NEW s, NEW b,
         Starts(x, s, b), StartStep(x, o, s, b)
  PROVE  /\ JobsInv' /\ EventsInv'
         /\ \A y \in Tasks : y # x /\ y # o => (Engaged(y)' <=> Engaged(y))
<1>1. /\ x \in Tasks /\ s \in WorkStates /\ b # <<>> /\ Head(b) = x /\ IsInjective(b)
      /\ ~Windowed(setting.cadence, s) => b = <<x>>
      /\ IsSupport(x) => s = "development"
      /\ \A e \in Evs(Rest) : ~Concerns(e, x)
      /\ \A y \in Tasks : Concerns(Occurring, y) => y = x
      /\ \A t \in Range(b) : InTrigger(t) \/ t \in Holds(x)
  BY DEF Starts
<1>2. /\ o \in Tasks /\ (o = x \/ jobs[o].at \in {"working", "waiting"})
      /\ jobs'[x].stage = s /\ jobs'[x].batch = b /\ jobs'[x].todo = b
      /\ jobs'[x].at \in {"waiting", "working", "paused"}
      /\ jobs'[x].at = "waiting" <=> jobs'[x].resource = None
      /\ jobs'[x].at = "waiting" => jobs'[x].pooled
      /\ jobs'[x].at # "waiting" => jobs'[x].resource \in Range(Team[s])
      /\ IsSupport(x) => ~jobs'[x].pooled
      /\ \A y \in Tasks : y # x => jobs'[y] = jobs[y]
      /\ \A t \in Tasks : history'[t] = IF t \in Range(b) /\ jobs'[x].at # "waiting"
                                        THEN Entry("start", s) ELSE history[t]
      /\ agenda' \in Seq(Dated) /\ setting' = setting
  BY DEF StartStep
<1>3. /\ \A e \in Upcoming' :
          \/ e \in Evs(Rest)
          \/ /\ e.kind \in {"assigned", "finish", "worked", "returned"} /\ EventOK(e)'
             /\ \A y \in Tasks : Concerns(e, y) => y = x \/ y = o
      /\ \A e \in Evs(Rest) : e \in Upcoming' \/ (e.kind = "finish" /\ e.job = o)
  BY DEF StartStep
<1>4. /\ Upcoming = {Occurring} \cup Evs(Rest) /\ Upcoming \subseteq Events
  BY BeginAgenda
<1>5. Live /\ JobsInv /\ EventsInv
  BY Begin DEF LiveInv
<1>6. JobOK(x)'
  <2>1. ~Windowed(setting.cadence, s) => Len(b) = 1
    BY <1>1, SingleFacts
  <2>3. QED
    BY <1>1, <1>2, <2>1 DEF JobOK, Windowed
<1>7. \A y \in Tasks : y # x /\ jobs[y].at \in {"working", "waiting"} => JobOK(y)'
  <2>1. ASSUME NEW y \in Tasks, y # x, jobs[y].at \in {"working", "waiting"}  PROVE JobOK(y)'
    <3>1. jobs'[y] = jobs[y] /\ JobOK(y)
      BY <1>2, <1>5, <2>1 DEF JobsInv
    <3>2. QED
      BY <1>2, <2>1, <3>1 DEF JobOK, Windowed
  <2>2. QED
    BY <2>1
<1>8. \A e \in Evs(Rest) : EventOK(e)'
  <2>1. ASSUME NEW e \in Evs(Rest)  PROVE EventOK(e)'
    <3>1. /\ e \in Upcoming /\ e \in Events /\ ~Concerns(e, x)
      BY <1>1, <1>4
    <3>2. EventOK(e)
      BY <1>5, <3>1 DEF EventsInv, EventOK
    <3>3. /\ e.kind = "assigned" => e.job \in Tasks /\ e.job # x
          /\ e.kind = "stored" => e.by # x
      BY <3>1, EventFields DEF Concerns, JobKinds
    <3>4. QED
      BY <1>2, <3>1, <3>2, <3>3 DEF EventOK, Windowed
  <2>2. QED
    BY <2>1
<1>9. PICK X : X = {x, o}
  OBVIOUS
<1>10. /\ \A e \in Upcoming' : e \in Evs(Rest) \/ \A y \in Tasks : Concerns(e, y) => y \in X
       /\ \A y \in Tasks : Concerns(Occurring, y) => y \in X
       /\ \A y \in Tasks : y \notin X => jobs'[y] = jobs[y]
       /\ X \subseteq Tasks
  BY <1>1, <1>2, <1>3, <1>9
<1>11. \A e \in Evs(Rest) : e \in Upcoming' \/ \E y \in X : Concerns(e, y)
  <2>1. \A e : e.kind = "finish" /\ e.job = o => Concerns(e, o)
    BY DEF Concerns, JobKinds
  <2>2. QED
    BY <1>3, <1>9, <2>1
<1>12. \A y \in Tasks : y \notin X /\ jobs[y].at = "routing" =>
             /\ jobs[y].stage = "deployment" => history'[y].state = history[y].state
             /\ ~InTrigger(y)'
             /\ \A z \in Tasks : y \notin Holds(z)'
  <2>1. ASSUME NEW y \in Tasks, y \notin X, jobs[y].at = "routing"
        PROVE  /\ history'[y] = history[y] /\ ~InTrigger(y)' /\ \A z \in Tasks : y \notin Holds(z)'
    <3>1. ~InTrigger(y) /\ \A z \in Tasks : y \notin Holds(z)
      BY <1>5, <2>1 DEF JobsInv, JobOK
    <3>2. y \notin Range(b)
      BY <1>1, <3>1
    <3>3. Holds(x)' = Range(b) /\ \A z \in Tasks : z # x => Holds(z)' = Holds(z)
      BY <1>2 DEF Holds
    <3>4. \A e \in Upcoming' : e.kind = "trigger" => e \in Upcoming
      BY <1>3, <1>4
    <3>5. ~InTrigger(y)'
      BY <3>1, <3>4 DEF InTrigger, In
    <3>6. QED
      BY <1>2, <3>1, <3>2, <3>3, <3>5
  <2>2. QED
    BY <2>1
<1>13. /\ \A y \in X : JobOK(y)'
       /\ \A e \in Upcoming', y \in X : Concerns(e, y) => EventOK(e)'
  BY <1>2, <1>3, <1>6, <1>7, <1>8, <1>9
<1>14. Upcoming' \subseteq Events
  BY <1>2, UpcomingTyped
<1>15. setting' = setting
  BY <1>2
<1>16. /\ JobsInv' /\ EventsInv'
       /\ \A y \in Tasks : y \notin X => /\ Engaged(y)' <=> Engaged(y)
                                         /\ Holds(y)' = Holds(y) /\ At(y)' = At(y)
  BY <1>10, <1>11, <1>12, <1>13, <1>14, <1>15, JobStep
<1>17. QED
  BY <1>9, <1>16

(* The operator's executor awaits the next trigger.                        *)
LEMMA StartPhase ==
  ASSUME KInv, NEW kind, Happens(kind), NEW x, NEW o, NEW s, NEW b,
         Starts(x, s, b), StartStep(x, o, s, b)
  PROVE  PhaseInv' /\ AlarmInv'
<1>1. /\ s \in WorkStates
      /\ \A t \in Range(b) : history[t] = Entry("start", Source(s))
      /\ Occurring.kind \in {"trigger", "assigned"}
      /\ Occurring.kind = "trigger" =>
          /\ Occurring.stage = s /\ phase = "running"
          /\ \A e \in Evs(Rest) : e.kind = "trigger" => e.stage # s
      /\ phase # "seeding"
  BY DEF Starts
<1>2. /\ \A t \in Tasks : history'[t] = IF t \in Range(b) /\ jobs'[x].at # "waiting"
                                        THEN Entry("start", s) ELSE history[t]
      /\ awaiting' = IF Occurring.kind = "trigger" THEN awaiting \cup {s} ELSE awaiting
      /\ UNCHANGED <<items, alarm, setting, phase, arrivals, queue, listening>>
  BY DEF StartStep
<1>3. /\ \A e \in Upcoming' :
          \/ e \in Evs(Rest)
          \/ e.kind \in {"assigned", "finish", "worked", "returned"}
      /\ \A e \in Evs(Rest) : e \in Upcoming' \/ e.kind = "finish"
  BY DEF StartStep
<1>4. Upcoming = {Occurring} \cup Evs(Rest)
  BY BeginAgenda
<1>5. Live /\ PhaseInv /\ AlarmInv
  BY Begin DEF LiveInv
<1>6. /\ Source(s) \in Open /\ Source(s) # s
      /\ \A h, u : Entry(h, u).type = h /\ Entry(h, u).state = u
  BY <1>1, EntryFacts, Strings DEF WorkStates, Open
<1>7. PhaseInv'
  <2>1. phase # "running" => listening' = {} /\ awaiting' = {}
    BY <1>1, <1>2, <1>5 DEF PhaseInv
  <2>2. \A e \in Upcoming' : e \notin Upcoming =>
            /\ ~OfWorkflow(e) /\ e.kind \notin {"over", "arrival"}
            /\ e.kind = "alarm" => alarm'.signal = "triggered"
            /\ e.kind = "timer" => setting.cadence > 0
            /\ e.kind = "trigger" => e.heard
    BY <1>3, <1>4 DEF OfWorkflow
  <2>3. \A e \in Upcoming' : e.kind = "got" => e.stage \notin listening'
    BY <1>2, <1>3, <1>4, <1>5 DEF PhaseInv
  <2>4. phase = "running" => \A u \in WorkStates :
            u \in awaiting' <=> ~\E e \in Upcoming' : e.kind = "trigger" /\ e.stage = u
    <3>1. phase = "running" => \A u \in WorkStates :
            u \in awaiting <=> ~\E e \in Upcoming : e.kind = "trigger" /\ e.stage = u
      BY <1>5 DEF PhaseInv
    <3>2. \A e : e.kind = "trigger" => (e \in Upcoming' <=> e \in Evs(Rest))
      BY <1>3
    <3>3. QED
      BY <1>1, <1>2, <1>4, <3>1, <3>2
  <2>5. /\ phase' = phase /\ setting' = setting /\ arrivals' = arrivals
        /\ alarm'.limit = alarm.limit /\ alarm'.signal = alarm.signal
    BY <1>2
  <2>6. \A t \in Tasks : history[t] = NoEntry => history'[t] = NoEntry
    <3>1. \A t \in Range(b) : history[t] # NoEntry
      BY <1>1, <1>6, EntryFacts
    <3>2. QED
      BY <1>2, <3>1
  <2>7. QED
    BY <1>1, <1>5, <2>1, <2>2, <2>3, <2>4, <2>5, <2>6, PhaseStays
<1>8. AlarmInv'
  <2>1. alarm.signal \in {"triggered", "processed"} =>
           \A t \in DevTasks : history'[t] = Entry("terminal", "delivery")
    <3>1. ASSUME alarm.signal \in {"triggered", "processed"}, NEW t \in DevTasks
          PROVE  history'[t] = Entry("terminal", "delivery")
      <4>1. history[t] = Entry("terminal", "delivery") /\ t \in Tasks
        BY <1>5, <3>1, TaskFacts DEF AlarmInv
      <4>2. t \notin Range(b)
        BY <1>1, <1>6, <4>1
      <4>3. QED
        BY <1>2, <4>1, <4>2
    <3>2. QED
      BY <3>1
  <2>2. \A t \in Tasks : IsSupport(t) =>
           history'[t].state \in {"none", "pending", "development", "support_complete"}
    <3>1. ASSUME NEW t \in Tasks, IsSupport(t)
          PROVE  history'[t].state \in {"none", "pending", "development", "support_complete"}
      <4>1. history[t].state \in {"none", "pending", "development", "support_complete"}
        BY <1>5, <3>1 DEF AlarmInv
      <4>2. CASE t \in Range(b)
        <5>1. history[t].state = Source(s)
          BY <1>1, <1>6, <4>2
        <5>2. s = "development"
          BY <1>1, <4>1, <5>1, Strings DEF WorkStates
        <5>3. QED
          BY <1>2, <1>6, <4>1, <5>2
      <4>3. CASE t \notin Range(b)
        BY <1>2, <4>1, <4>3
      <4>4. QED
        BY <4>2, <4>3
    <3>2. QED
      BY <3>1
  <2>3. QED
    BY <1>2, <1>5, <2>1, <2>2 DEF AlarmInv
<1>9. QED
  BY <1>7, <1>8

(* The batch of a trigger that is heard is of that form, and no job has    *)
(* its key: a task is in one place, and no job that has ended its batch is *)
(* still there.                                                            *)
LEMMA TriggerFacts ==
  ASSUME KInv, Happens("trigger"), phase = "running",
         NEW x, x = Head(Occurring.batch), NEW s, s = Occurring.stage,
         NEW b, b = Occurring.batch
  PROVE  Starts(x, s, b) /\ jobs[x].at = "none"
<1>1. /\ Live /\ SpotsInv /\ SeqsInv /\ JobsInv /\ EventsInv /\ WaitersInv /\ SignalsInv
      /\ AlarmInv /\ ResourcesTypeOK
      /\ Occurring.kind = "trigger"
  BY Begin DEF LiveInv
<1>2. /\ Upcoming = {Occurring} \cup Evs(Rest) /\ Upcoming \subseteq Events
      /\ \A e \in Evs(Rest) : ~Clash(Occurring, e) /\ ~TooLate(setting.cadence, Occurring, e)
  BY BeginAgenda
<1>3. /\ s \in WorkStates /\ b \in Seq(Tasks) /\ b # <<>> /\ IsInjective(b)
      /\ ~Windowed(setting.cadence, s) => Len(b) = 1
  BY <1>1, <1>2, EventFields DEF SeqsInv
<1>4. x \in Tasks /\ x \in Range(b) /\ Head(b) = x
  BY <1>3, TailFacts
<1>5. ~Windowed(setting.cadence, s) => b = <<x>>
  <2>1. Len(b) = 1 => b = <<Head(b)>>
    BY <1>3
  <2>2. QED
    BY <1>3, <1>4, <2>1
<1>6. "trigger" \in Spots /\ "job" \in Spots /\ s \in Wheres /\ x \in Wheres
  BY <1>3, <1>4 DEF Spots, Wheres
<1>7. \A y \in Tasks : ~Concerns(Occurring, y)
  BY <1>1 DEF Concerns, JobKinds
<1>8. ASSUME NEW t \in Range(b)
      PROVE  /\ t \in Tasks /\ In("trigger", s, t) /\ history[t] = Entry("start", Source(s))
             /\ \A k \in Spots, p \in Wheres : In(k, p, t) => k = "trigger" /\ p = s
             /\ \A e \in Evs(Rest) : e.kind = "trigger" => t \notin Range(e.batch)
  <2>1. t \in Tasks
    BY <1>3 DEF Range
  <2>2. In("trigger", s, t)
    BY <1>1, <1>2, <1>3 DEF In
  <2>3. /\ history[t] = Written("trigger", s)
        /\ \A k \in Spots, p \in Wheres : In(k, p, t) => k = "trigger" /\ p = s
    BY <1>1, <1>6, <2>1, <2>2 DEF SpotsInv
  <2>4. history[t] = Entry("start", Source(s))
    BY <1>3, <2>3, EntryFacts
  <2>5. ASSUME NEW e \in Evs(Rest), e.kind = "trigger", t \in Range(e.batch)  PROVE FALSE
    <3>1. e \in Upcoming /\ e.stage \in WorkStates
      BY <1>2, <2>5, EventFields
    <3>2. In("trigger", e.stage, t) /\ e.stage \in Wheres
      BY <2>5, <3>1 DEF In, Wheres
    <3>3. e.stage = s
      BY <1>6, <2>3, <3>2
    <3>4. Clash(Occurring, e)
      BY <1>1, <2>5, <3>3 DEF Clash
    <3>5. QED
      BY <1>2, <3>4
  <2>6. QED
    BY <2>1, <2>2, <2>3, <2>4, <2>5
<1>9. ASSUME NEW e \in Evs(Rest), e.kind = "trigger"  PROVE e.stage # s
  <2>1. e.stage = s => Clash(Occurring, e)
    BY <1>1, <1>9 DEF Clash
  <2>2. QED
    BY <1>2, <2>1
<1>10. jobs[x].at = "none"
  <2>1. jobs[x].at \in {"none", "waiting", "working", "paused", "resuming", "routing", "done"}
    BY <1>1, <1>4, JobFields
  <2>2. InTrigger(x)
    BY <1>3, <1>4, <1>8 DEF InTrigger
  <2>3. jobs[x].at # "routing"
    BY <1>1, <1>4, <2>2 DEF JobsInv, JobOK
  <2>4. CASE jobs[x].at = "done"
    <3>1. PICK e \in Upcoming : Concerns(e, x)
      BY <1>1, <1>4, <2>4 DEF JobsInv, JobOK, Engaged
    <3>2. "done" = StateOf(e)
      BY <1>1, <1>4, <2>4, <3>1 DEF EventsInv
    <3>3. e \in Evs(Rest)
      BY <1>2, <1>4, <1>7, <3>1
    <3>4. e.kind = "operated" /\ e.job = x
      BY <3>1, <3>2 DEF StateOf, Concerns, JobKinds
    <3>5. TooLate(setting.cadence, Occurring, e)
      BY <1>1, <1>4, <3>4 DEF TooLate
    <3>6. QED
      BY <1>2, <3>3, <3>5
  <2>5. CASE jobs[x].at \in {"waiting", "working", "paused", "resuming"}
    <3>1. x \in Holds(x)
      BY <1>1, <1>4, <2>5, JobFacts
    <3>2. In("job", x, x)
      BY <1>4, <3>1 DEF In
    <3>3. QED
      BY <1>4, <1>6, <1>8, <3>2
  <2>6. QED
    BY <2>1, <2>3, <2>4, <2>5
<1>11. \A e \in Evs(Rest) : ~Concerns(e, x)
  <2>1. ASSUME NEW e \in Evs(Rest), Concerns(e, x)  PROVE FALSE
    <3>1. StateOf(e) = "none"
      BY <1>1, <1>2, <1>4, <1>10, <2>1 DEF EventsInv
    <3>2. e.kind \in JobKinds \cup {"stored"}
      BY <2>1 DEF Concerns
    <3>3. QED
      BY <3>1, <3>2 DEF StateOf, JobKinds
  <2>2. QED
    BY <2>1
<1>12. IsSupport(x) => s = "development"
  <2>1. IsSupport(x) => Source(s) \in {"none", "pending", "development", "support_complete"}
    BY <1>1, <1>4, <1>8, EntryFacts DEF AlarmInv
  <2>2. QED
    BY <1>3, <2>1, Strings DEF WorkStates
<1>13. \A q \in WorkStates : x \notin Range(waiters[q])
  BY <1>1, <1>10 DEF WaitersInv
<1>14. \A q \in Workers : \A i \in DOMAIN suspended[q] :
          suspended[q][i].of = x => suspended[q][i].on
  BY <1>1, <1>10 DEF SignalsInv
<1>15. \A t \in Range(b) : InTrigger(t)
  BY <1>3, <1>8 DEF InTrigger
<1>16. Holds(x) = {}
  BY <1>10 DEF Holds
<1>17. \A t \in Range(b) : \A k \in Spots, p \in Wheres : In(k, p, t) =>
                (k = "trigger" /\ p = s) \/ (k = "job" /\ p = x)
  BY <1>8
<1>18. QED
  BY <1>1, <1>3, <1>4, <1>5, <1>7, <1>8, <1>9, <1>10, <1>11, <1>12, <1>13, <1>14, <1>15, <1>16,
     <1>17 DEF Starts

(* So is the batch of a job that is assigned a resource.                   *)
LEMMA AssignedFacts ==
  ASSUME KInv, Happens("assigned"), NEW x, x = Occurring.job,
         NEW s, s = jobs[x].stage, NEW b, b = jobs[x].batch
  PROVE  /\ Starts(x, s, b) /\ jobs[x].at = "waiting" /\ jobs[x].pooled
         /\ ~IsSupport(x) /\ Occurring.resource \in Range(Team[s])
         /\ Occurring.resource \in Workers
         /\ AssignedTo(x, Occurring.resource)
<1>1. /\ Live /\ SpotsInv /\ JobsInv /\ EventsInv
      /\ Occurring.kind = "assigned" /\ phase # "over"
  BY Begin DEF LiveInv
<1>2. /\ Upcoming = {Occurring} \cup Evs(Rest) /\ Upcoming \subseteq Events
      /\ Occurring \in Upcoming
  BY BeginAgenda
<1>3. x \in Tasks /\ Occurring.resource \in Workers /\ Concerns(Occurring, x)
  BY <1>1, <1>2, EventFields DEF Concerns, JobKinds
<1>4. /\ jobs[x].at = "waiting"
      /\ \A y : Concerns(Occurring, y) => y = x
      /\ \A e \in Evs(Rest) : ~Concerns(e, x)
      /\ \A q \in WorkStates : x \notin Range(waiters[q])
      /\ \A r \in Workers : \A i \in DOMAIN suspended[r] :
            suspended[r][i].of = x => suspended[r][i].on
  <2>1. StateOf(Occurring) = "waiting"
    BY <1>1 DEF StateOf
  <2>2. PICK kind : kind = "assigned"
    OBVIOUS
  <2>3. Happens(kind)
    BY <2>2
  <2>4. QED
    BY <1>3, <2>1, <2>3, HeadJob
<1>5. /\ s \in WorkStates /\ b \in Seq(Tasks) /\ b # <<>> /\ Head(b) = x /\ x \in Range(b)
      /\ IsInjective(b) /\ Holds(x) = Range(b)
      /\ ~Windowed(setting.cadence, s) => b = <<x>>
      /\ JobOK(x)
  BY <1>1, <1>3, <1>4, JobFacts
<1>6. jobs[x].pooled /\ ~IsSupport(x)
  BY <1>4, <1>5 DEF JobOK
<1>7. Occurring.resource \in Range(Team[s])
  BY <1>1, <1>2 DEF EventsInv
<1>8. AssignedTo(x, Occurring.resource)
  BY <1>1, <1>2 DEF AssignedTo
<1>9. "job" \in Spots /\ x \in Wheres /\ "trigger" \in Spots
  BY <1>3 DEF Spots, Wheres
<1>10. At(x) = Source(s)
  BY <1>4 DEF At
<1>11. ASSUME NEW t \in Range(b)
       PROVE  /\ t \in Tasks /\ history[t] = Entry("start", Source(s))
              /\ \A k \in Spots, p \in Wheres : In(k, p, t) => k = "job" /\ p = x
              /\ \A e \in Evs(Rest) : e.kind = "trigger" => t \notin Range(e.batch)
  <2>1. t \in Tasks
    BY <1>5 DEF Range
  <2>2. In("job", x, t)
    BY <1>3, <1>5 DEF In
  <2>3. /\ history[t] = Written("job", x)
        /\ \A k \in Spots, p \in Wheres : In(k, p, t) => k = "job" /\ p = x
    BY <1>1, <1>9, <2>1, <2>2 DEF SpotsInv
  <2>4. Written("job", x) = Entry("start", Source(s))
    BY <1>10 DEF Written
  <2>5. ASSUME NEW e \in Evs(Rest), e.kind = "trigger", t \in Range(e.batch)  PROVE FALSE
    <3>1. e \in Upcoming /\ e.stage \in WorkStates
      BY <1>2, <2>5, EventFields
    <3>2. In("trigger", e.stage, t) /\ e.stage \in Wheres
      BY <2>5, <3>1 DEF In, Wheres
    <3>3. QED
      BY <1>9, <2>3, <3>2
  <2>6. QED
    BY <2>1, <2>3, <2>4, <2>5
<1>12. phase # "seeding"
  <2>1. ~OfWorkflow(Occurring)
    BY <1>1 DEF OfWorkflow
  <2>2. PICK kind : kind = "assigned"
    OBVIOUS
  <2>3. Happens(kind)
    BY <2>2
  <2>4. QED
    BY <2>1, <2>3, SeedingHead
<1>13. \A t \in Range(b) : \A k \in Spots, p \in Wheres : In(k, p, t) =>
                (k = "trigger" /\ p = s) \/ (k = "job" /\ p = x)
  BY <1>11
<1>14. Starts(x, s, b)
  BY <1>1, <1>3, <1>4, <1>5, <1>6, <1>11, <1>12, <1>13 DEF Starts
<1>15. QED
  BY <1>3, <1>4, <1>6, <1>7, <1>8, <1>14

(* A resource operates on the batch of a job.                              *)
Operating(x, s, b, r, job) ==
    /\ Starts(x, s, b) /\ r \in Range(Team[s])
    /\ job \in JobRecords /\ job.stage = s /\ job.batch = b /\ job.todo = b
    /\ IsSupport(x) => ~job.pooled
    /\ job.pooled => AssignedTo(x, r)
    /\ s = "qa_testing" => job.pooled /\ ~Busy(r)
    /\ BatchStarted(b, s)
    /\ awaiting' = IF Occurring.kind = "trigger" THEN awaiting \cup {s} ELSE awaiting
    /\ UNCHANGED <<setting, rework, failures, items, alarm, phase, arrivals, queue, listening>>
    /\ UNCHANGED <<pool, waiters>>
    /\ hired' \in [WorkStates -> Nat]
    /\ \A u \in WorkStates : hired[u] <= hired'[u] /\ hired'[u] <= Len(Team[u])
    /\ owners' \in [WorkStates -> [Tasks -> Workers \cup {None}]]
    /\ \A u \in WorkStates, t \in Tasks : owners'[u][t] \in Range(Team[u]) \cup {None}
    /\ \E at \in {"working", "paused"} :
          jobs' = [jobs EXCEPT ![x] = [job EXCEPT !.resource = r, !.at = at]]

(* What such a step does to jobs and histories.                            *)
LEMMA OperatingFacts ==
  ASSUME KInv, NEW kind, Happens(kind), NEW x, NEW s, NEW b, NEW r, NEW job,
         Operating(x, s, b, r, job)
  PROVE  /\ x \in Tasks /\ s \in WorkStates /\ r \in Workers
         /\ jobs' \in [Tasks -> {NoJob} \cup JobRecords]
         /\ jobs'[x].at \in {"working", "paused"} /\ jobs'[x].stage = s /\ jobs'[x].batch = b
         /\ jobs'[x].todo = b /\ jobs'[x].resource = r /\ jobs'[x].pooled = job.pooled
         /\ \A y \in Tasks : y # x => jobs'[y] = jobs[y]
         /\ \A t \in Tasks : history'[t] = IF t \in Range(b) THEN Entry("start", s) ELSE history[t]
         /\ history' \in [Tasks -> Entries] /\ \A t \in Tasks : history'[t] # Invalid
         /\ \A t \in Range(b) : t \in Tasks /\ history[t].state = Source(s)
                                 /\ history'[t].state = s
         /\ s = "qa_testing" => left[x] = 0 /\ \A t \in Range(b) : t \notin rework
<1>1. /\ x \in Tasks /\ s \in WorkStates /\ b \in Seq(Tasks) /\ x \in Range(b)
      /\ \A t \in Range(b) : history[t] = Entry("start", Source(s))
  BY DEF Operating, Starts
<1>2. /\ r \in Range(Team[s]) /\ job \in JobRecords /\ job.stage = s /\ job.batch = b
      /\ job.todo = b /\ BatchStarted(b, s)
  BY DEF Operating
<1>3. PICK at \in {"working", "paused"} :
          jobs' = [jobs EXCEPT ![x] = [job EXCEPT !.resource = r, !.at = at]]
  BY DEF Operating
<1>4. /\ jobs \in [Tasks -> {NoJob} \cup JobRecords] /\ history \in [Tasks -> Entries]
      /\ \A t \in Tasks : history[t] # Invalid
  BY TypesNow
<1>5. r \in Workers
  BY <1>1, <1>2, TaskFacts
<1>6. PICK new : new = [job EXCEPT !.resource = r, !.at = at]
  OBVIOUS
<1>7. /\ new \in JobRecords /\ new.at \in {"working", "paused"} /\ new.stage = s /\ new.batch = b
      /\ new.todo = b /\ new.resource = r /\ new.pooled = job.pooled
  BY <1>2, <1>3, <1>5, <1>6 DEF JobRecords
<1>8. jobs' = [jobs EXCEPT ![x] = new]
  BY <1>3, <1>6
<1>9. /\ jobs' \in [Tasks -> {NoJob} \cup JobRecords] /\ jobs'[x] = new
      /\ \A y \in Tasks : y # x => jobs'[y] = jobs[y]
  BY <1>1, <1>4, <1>7, <1>8
<1>10. /\ Source(s) \in Open \cup WorkStates /\ s \in Open \cup WorkStates
  BY <1>1, Strings
<1>11. ASSUME NEW t \in Tasks
       PROVE  history'[t] = IF t \in Range(b) THEN Entry("start", s) ELSE history[t]
  <2>1. history'[t] = IF t \in Range(b) THEN Start(EndCurrent(history[t]), s) ELSE history[t]
    BY <1>2 DEF BatchStarted
  <2>2. CASE t \in Range(b)
    <3>1. EndCurrent(history[t]) = Entry("end", Source(s))
      BY <1>1, <1>10, <2>2, EntryFacts
    <3>2. Entry("end", Source(s)).type = "end"
      BY EntryFacts
    <3>3. Start(EndCurrent(history[t]), s) = Entry("start", s)
      BY <3>1, <3>2, EntryFacts
    <3>4. QED
      BY <2>1, <2>2, <3>3
  <2>3. QED
    BY <2>1, <2>2
<1>12. /\ history' \in [Tasks -> Entries] /\ \A t \in Tasks : history'[t] # Invalid
  <2>1. Entry("start", s) \in Entries /\ Entry("start", s) # Invalid
    BY <1>10, EntryFacts
  <2>2. history' = [t \in Tasks |-> history'[t]]
    BY <1>2 DEF BatchStarted
  <2>3. \A t \in Tasks : history'[t] \in Entries /\ history'[t] # Invalid
    BY <1>4, <1>11, <2>1
  <2>4. QED
    BY <2>2, <2>3
<1>13. \A t \in Range(b) : t \in Tasks /\ history[t].state = Source(s) /\ history'[t].state = s
  <2>1. \A t \in Range(b) : t \in Tasks
    BY <1>1 DEF Range
  <2>2. QED
    BY <1>1, <1>11, <2>1, EntryFacts
<1>14. s = "qa_testing" => left[x] = 0 /\ \A t \in Range(b) : t \notin rework
  <2>1. FlowInv
    BY Begin DEF LiveInv
  <2>2. s = "qa_testing" => \A t \in Range(b) : history[t].state = "dev_complete"
    BY <1>13, Strings
  <2>3. QED
    BY <1>1, <1>13, <2>1, <2>2 DEF FlowInv
<1>15. QED
  BY <1>1, <1>5, <1>7, <1>9, <1>11, <1>12, <1>13, <1>14

(* It keeps the types.                                                     *)
LEMMA OperatingTypes ==
  ASSUME KInv, NEW kind, Happens(kind), NEW x, NEW s, NEW b, NEW r, NEW job,
         Operating(x, s, b, r, job),
         raised' \subseteq {"runaway", "interrupts terminated process"},
         agenda' \in Seq(Dated), Sorted', left' \in [Tasks -> Nat],
         process' \in [Workers -> Processes], suspended' \in [Workers -> Seq(SignalRecords)]
  PROVE  TypeInv'
<1>1. /\ jobs' \in [Tasks -> {NoJob} \cup JobRecords] /\ s \in WorkStates
      /\ history' \in [Tasks -> Entries] /\ \A t \in Tasks : history'[t] # Invalid
  BY OperatingFacts
<1>2. /\ setting' = setting /\ rework' = rework /\ failures' = failures /\ items' = items
      /\ alarm' = alarm /\ phase' = phase /\ arrivals' = arrivals /\ queue' = queue
      /\ listening' = listening /\ pool' = pool /\ waiters' = waiters
      /\ hired' \in [WorkStates -> Nat]
      /\ owners' \in [WorkStates -> [Tasks -> Workers \cup {None}]]
      /\ \A u \in WorkStates, t \in Tasks : owners'[u][t] \in Range(Team[u]) \cup {None}
  BY DEF Operating
<1>3. awaiting' \subseteq WorkStates
  <2>1. awaiting \subseteq WorkStates
    BY TypesNow
  <2>2. awaiting' = awaiting \cup {s} \/ awaiting' = awaiting
    BY DEF Operating
  <2>3. QED
    BY <1>1, <2>1, <2>2
<1>4. phase' \in {"seeding", "running", "stopped"}
  <2>1. phase # "over"
    BY Begin
  <2>2. QED
    BY <1>2, <2>1, TypesNow
<1>5. suspended' \in [Workers -> Seq([of : Tasks, on : BOOLEAN])]
  BY DEF SignalRecords
<1>6. raised' \subseteq {"put after alarm", "interrupts terminated process", "runaway",
                         "signal triggered twice", "value is not available", "unknown owner"}
  OBVIOUS
<1>7. QED
  BY <1>1, <1>2, <1>3, <1>4, <1>5, <1>6, TypesNow, TypeStep

(* It keeps the pools right: a resource that was assigned is now used.     *)
LEMMA OperatingPool ==
  ASSUME KInv, NEW kind, Happens(kind), NEW x, NEW s, NEW b, NEW r, NEW job,
         Operating(x, s, b, r, job),
         \A e \in Upcoming' : e.kind = "assigned" =>
             e \in Upcoming /\ (job.pooled => e \in Evs(Rest)),
         \A y, z \in Range(agenda') : Precedes(agenda', y, z) =>
             ~(y.ev.kind = "assigned" /\ y.ev = z.ev)
  PROVE  PoolInv'
<1>1. /\ x \in Tasks /\ s \in WorkStates /\ r \in Workers
      /\ jobs'[x].resource = r /\ jobs'[x].pooled = job.pooled
      /\ \A y \in Tasks : y # x => jobs'[y] = jobs[y]
  BY OperatingFacts
<1>2. /\ r \in Range(Team[s]) /\ (job.pooled => AssignedTo(x, r)) /\ job.pooled \in BOOLEAN
      /\ pool' = pool /\ hired' \in [WorkStates -> Nat]
      /\ \A u \in WorkStates : hired[u] <= hired'[u] /\ hired'[u] <= Len(Team[u])
      /\ \A e \in Evs(Rest) : ~Concerns(e, x)
  BY DEF Operating, Starts, JobRecords
<1>3. PoolInv /\ hired \in [WorkStates -> Nat]
  BY Begin, TypesNow
<1>4. \A y \in Tasks : \A q : AssignedTo(y, q)' => AssignedTo(y, q)
  BY DEF AssignedTo
<1>5. job.pooled => \A q : ~AssignedTo(x, q)'
  BY <1>2 DEF AssignedTo, Concerns, JobKinds
<1>6. \A y \in Tasks : \A q : HoldsPooled(y, q)' =>
          HoldsPooled(y, q) \/ (y = x /\ q = r /\ job.pooled)
  BY <1>1 DEF HoldsPooled
<1>7. ASSUME NEW n \in 1..Len(Team[s]), Team[s][n] = r
      PROVE  PoolUse(s, n, r)'
  <2>1. PoolUse(s, n, r)
    BY <1>1, <1>3, <1>7 DEF PoolInv
  <2>2. n > hired'[s] => n > hired[s]
    BY <1>1, <1>2, <1>3, TeamFacts
  <2>3. CASE ~job.pooled
    BY <1>1, <1>2, <1>4, <1>6, <2>1, <2>2, <2>3 DEF PoolUse
  <2>4. CASE job.pooled
    <3>1. /\ AssignedTo(x, r) /\ ~(n > hired[s])
          /\ r \notin Range(pool[s])
          /\ \A y \in Tasks : ~HoldsPooled(y, r) /\ (AssignedTo(y, r) => y = x)
      BY <1>1, <1>2, <2>1, <2>4 DEF PoolUse
    <3>2. \A y \in Tasks : ~AssignedTo(y, r)' /\ (HoldsPooled(y, r)' => y = x)
      BY <1>4, <1>5, <1>6, <2>4, <3>1
    <3>3. QED
      BY <1>1, <1>2, <2>2, <3>1, <3>2 DEF PoolUse
  <2>5. QED
    BY <1>2, <2>3, <2>4
<1>8. \A u \in WorkStates : /\ IsInjective(pool'[u]) /\ Range(pool'[u]) \subseteq Range(Team[u])
                            /\ hired'[u] <= Len(Team[u])
  BY <1>2, <1>3 DEF PoolInv
<1>9. /\ \A u \in WorkStates : \A q : q # r /\ q \in Range(pool'[u]) => q \in Range(pool[u])
      /\ \A y \in Tasks : \A q : q # r => /\ AssignedTo(y, q)' => AssignedTo(y, q)
                                          /\ HoldsPooled(y, q)' => HoldsPooled(y, q)
      /\ \A u \in WorkStates : hired[u] <= hired'[u]
      /\ \A n \in 1..Len(Team[s]) : Team[s][n] = r => PoolUse(s, n, r)'
  BY <1>2, <1>4, <1>6, <1>7
<1>10. QED
  BY <1>1, <1>2, <1>3, <1>8, <1>9, PoolMove

(* The step, once it is known what it does to the agenda.                  *)
LEMMA OperatingStep ==
  ASSUME KInv, NEW kind, Happens(kind), NEW x, NEW s, NEW b, NEW r, NEW job,
         Operating(x, s, b, r, job),
         NEW o \in Tasks, o = x \/ jobs[o].at = "working",
         agenda' \in Seq(Dated),
         \A e \in Upcoming' :
           \/ e \in Evs(Rest)
           \/ /\ e.kind \in {"finish", "worked"} /\ EventOK(e)'
              /\ \A y \in Tasks : Concerns(e, y) => y = x \/ y = o,
         \A e \in Evs(Rest) : e \in Upcoming' \/ (e.kind = "finish" /\ e.job = o)
  PROVE  /\ StartStep(x, o, s, b)
         /\ SpotsInv' /\ SeqsInv' /\ JobsInv' /\ EventsInv' /\ PhaseInv' /\ AlarmInv'
         /\ \A y \in Tasks : y # x /\ y # o => (Engaged(y)' <=> Engaged(y))
<1>1. /\ x \in Tasks /\ s \in WorkStates /\ r \in Workers
      /\ jobs' \in [Tasks -> {NoJob} \cup JobRecords]
      /\ jobs'[x].at \in {"working", "paused"} /\ jobs'[x].stage = s /\ jobs'[x].batch = b
      /\ jobs'[x].todo = b /\ jobs'[x].resource = r /\ jobs'[x].pooled = job.pooled
      /\ \A y \in Tasks : y # x => jobs'[y] = jobs[y]
      /\ \A t \in Tasks : history'[t] = IF t \in Range(b) THEN Entry("start", s) ELSE history[t]
  BY OperatingFacts
<1>2. /\ r \in Range(Team[s]) /\ (IsSupport(x) => ~job.pooled) /\ Starts(x, s, b)
      /\ awaiting' = IF Occurring.kind = "trigger" THEN awaiting \cup {s} ELSE awaiting
      /\ UNCHANGED <<items, alarm, setting, phase, arrivals, queue, listening>>
  BY DEF Operating
<1>3. jobs'[x] \in JobRecords
  <2>1. NoJob.at = "none"
    BY DEF NoJob
  <2>2. QED
    BY <1>1, <2>1
<1>4. r # None
  BY <1>1, TaskFacts
<1>5. StartStep(x, o, s, b)
  BY <1>1, <1>2, <1>3, <1>4 DEF StartStep
<1>6. QED
  BY <1>2, <1>5, StartSpots, StartJobs, StartPhase

-----------------------------------------------------------------------------
(* The three ways operate begins: the resource is idle, is busy, or is     *)
(* interrupted for support.                                                *)

(* A job waits for one event at a time.                                    *)
LEMMA OneConcern ==
  ASSUME NEW c, NEW q \in Seq(Dated), Orderly(c, q), NEW t \in Tasks
  PROVE  /\ \A i, j \in DOMAIN q : Concerns(q[i].ev, t) /\ Concerns(q[j].ev, t) => i = j
         /\ \A e, f \in Evs(q) : Concerns(e, t) /\ Concerns(f, t) => e = f
<1>1. ASSUME NEW i \in DOMAIN q, NEW j \in DOMAIN q, i < j,
             Concerns(q[i].ev, t), Concerns(q[j].ev, t)
      PROVE  FALSE
  <2>1. Clash(q[i].ev, q[j].ev)
    BY <1>1 DEF Clash
  <2>2. q[i] \in Range(q) /\ q[j] \in Range(q) /\ Precedes(q, q[i], q[j])
    BY <1>1 DEF Range, Precedes
  <2>3. QED
    BY <2>1, <2>2 DEF Orderly
<1>2. ASSUME NEW i \in DOMAIN q, NEW j \in DOMAIN q, Concerns(q[i].ev, t), Concerns(q[j].ev, t)
      PROVE  i = j
  <2>1. i \in Nat /\ j \in Nat
    OBVIOUS
  <2>2. ~(i < j) /\ ~(j < i)
    BY <1>1, <1>2
  <2>3. QED
    BY <2>1, <2>2
<1>3. ASSUME NEW e \in Evs(q), NEW f \in Evs(q), Concerns(e, t), Concerns(f, t)
      PROVE  e = f
  <2>1. PICK i \in DOMAIN q : q[i].ev = e
    BY DEF Evs
  <2>2. PICK j \in DOMAIN q : q[j].ev = f
    BY DEF Evs
  <2>3. i = j
    BY <1>2, <1>3, <2>1, <2>2
  <2>4. QED
    BY <2>1, <2>2, <2>3
<1>4. QED
  BY <1>2, <1>3

(* The remaining work of a batch that is started stays; that of a          *)
(* developer's interrupted job does not grow.                              *)
LeftStays(b) ==
    \A t \in Tasks :
       \/ left'[t] = left[t]
       \/ jobs[t].at = "working" /\ jobs[t].stage = "development" /\ left'[t] <= left[t]

(* It moves the batch into its work state and nothing else.                *)
LEMMA OperatingFlow ==
  ASSUME KInv, NEW kind, Happens(kind), NEW x, NEW s, NEW b, NEW r, NEW job,
         Operating(x, s, b, r, job), LeftStays(b)
  PROVE  /\ FlowEvents' => FlowInv'
         /\ \A t \in Tasks : Moves(t)
<1>1. /\ s \in WorkStates
      /\ \A t \in Tasks : history'[t] = IF t \in Range(b) THEN Entry("start", s) ELSE history[t]
      /\ \A t \in Range(b) : t \in Tasks /\ history[t].state = Source(s)
                              /\ history'[t].state = s
      /\ s = "qa_testing" => \A t \in Range(b) : t \notin rework
  BY OperatingFacts
<1>2. rework' = rework
  BY DEF Operating
<1>3. Live /\ FlowInv
  BY Begin DEF LiveInv
<1>4. Source(s) \in Open
  BY <1>1, Strings
<1>5. ASSUME NEW t \in Tasks, left'[t] # left[t]
      PROVE  /\ left'[t] <= left[t] /\ t \notin Range(b)
             /\ history'[t].state = "development" /\ history[t].state = "development"
  <2>1. /\ jobs[t].at = "working" /\ jobs[t].stage = "development" /\ left'[t] <= left[t]
    BY <1>5 DEF LeftStays
  <2>2. history[t] = Entry("start", "development")
    BY <1>3, <2>1, WorkingApart
  <2>3. history[t].state = "development"
    BY <2>2, EntryFacts
  <2>4. t \notin Range(b)
    BY <1>1, <1>4, <2>3 DEF Open
  <2>5. QED
    BY <1>1, <2>1, <2>3, <2>4
<1>6. \A t \in Tasks : Moves(t)
  <2>1. ASSUME NEW t \in Tasks  PROVE Moves(t)
    <3>1. CASE t \in Range(b)
      BY <1>1, <1>5, <3>1 DEF Moves
    <3>2. CASE t \notin Range(b) /\ left'[t] = left[t]
      BY <1>1, <3>2 DEF Moves
    <3>3. CASE left'[t] # left[t]
      BY <1>5, <3>3 DEF Moves
    <3>4. QED
      BY <3>1, <3>2, <3>3
  <2>2. QED
    BY <2>1
<1>7. FlowEvents' => FlowInv'
  <2>1. ASSUME NEW t \in Tasks, history'[t].state = "dev_complete"  PROVE left'[t] = 0
    <3>1. t \notin Range(b)
      BY <1>1, <2>1 DEF WorkStates
    <3>2. left'[t] = left[t]
      BY <1>5, <2>1
    <3>3. QED
      BY <1>1, <1>3, <2>1, <3>1, <3>2 DEF FlowInv
  <2>2. ASSUME NEW t \in Tasks, history'[t].state \in {"dev_complete", "qa_testing"}
        PROVE  t \notin rework'
    <3>1. CASE t \in Range(b)
      BY <1>1, <1>2, <2>2, <3>1 DEF WorkStates
    <3>2. CASE t \notin Range(b)
      BY <1>1, <1>2, <1>3, <2>2, <3>2 DEF FlowInv
    <3>3. QED
      BY <3>1, <3>2
  <2>3. QED
    BY <2>1, <2>2 DEF FlowInv, FlowEvents
<1>8. QED
  BY <1>6, <1>7

(* The agenda has the timeout of the work.                                 *)
LEMMA IdleAgenda ==
  ASSUME KInv, NEW kind, Happens(kind), NEW x, NEW s, NEW b, NEW r, NEW job,
         Operating(x, s, b, r, job), NEW d, d = WorkTime(s, b), NEW ev, ev = Finish(x),
         agenda' = Schedule(Rest, WorkEvents(x, s, b))
  PROVE  /\ agenda' \in Seq(Dated) /\ Orderly(setting.cadence, agenda)' /\ Sorted'
         /\ \A y, z \in Range(agenda') : Precedes(agenda', y, z) =>
                ~(y.ev.kind = "assigned" /\ y.ev = z.ev)
         /\ Upcoming' = Evs(Rest) \cup {ev}
         /\ Range(agenda') = Range(Rest) \cup {After(d, ev)}
         /\ d \in Nat /\ (s = "development" => d = left[x])
         /\ ev \in Events /\ ev.kind = "finish" /\ ev.job = x
         /\ \A y : Concerns(ev, y) => y = x
         /\ After(d, ev).ev = ev /\ After(d, ev).due = d
<1>1. x \in Tasks /\ s \in WorkStates /\ setting' = setting
  <2>1. x \in Tasks /\ s \in WorkStates
    BY OperatingFacts
  <2>2. setting' = setting
    BY DEF Operating
  <2>3. QED
    BY <2>1, <2>2
<1>2. /\ b \in Seq(Tasks) /\ \A e \in Evs(Rest) : ~Concerns(e, x)
      /\ ~Windowed(setting.cadence, s) => b = <<x>>
  BY DEF Operating, Starts
<1>3. d \in Nat /\ (s = "development" => d = left[x])
  BY <1>1, <1>2, WorkTimeFacts DEF Windowed
<1>4. /\ ev \in Events /\ ev.kind = "finish" /\ ev.job = x
      /\ \A y : Concerns(ev, y) => y = x
  BY <1>1, EventTypes DEF Finish, Concerns
<1>5. PICK fs : fs = <<After(d, ev)>>
  OBVIOUS
<1>6. agenda' = Schedule(Rest, fs)
  BY <1>5 DEF WorkEvents
<1>7. /\ OneOrNone(fs) /\ Range(fs) = {After(d, ev)} /\ Evs(fs) = {ev}
      /\ After(d, ev).ev = ev /\ After(d, ev).due = d
  BY <1>3, <1>4, <1>5, OneOrNoneFacts
<1>8. \A f \in Evs(Rest) : ~Clash(f, ev)
  <2>1. ASSUME NEW f \in Evs(Rest), Clash(f, ev)  PROVE FALSE
    <3>1. PICK t \in Tasks : Concerns(f, t) /\ Concerns(ev, t)
      BY <1>4, <2>1 DEF Clash, OfWorkflow, OfGenerator
    <3>2. QED
      BY <1>2, <1>4, <3>1
  <2>2. QED
    BY <2>1
<1>9. Fits(setting.cadence, Evs(Rest), After(d, ev))
  BY <1>3, <1>4, <1>8, FitsAfter DEF Delayed
<1>10. \A e \in Range(fs) : Fits(setting.cadence, Evs(Rest), e)
  BY <1>7, <1>9
<1>11. /\ agenda' \in Seq(Dated) /\ Orderly(setting.cadence, agenda)' /\ Sorted'
       /\ \A y, z \in Range(agenda') : Precedes(agenda', y, z) =>
                ~(y.ev.kind = "assigned" /\ y.ev = z.ev)
       /\ Upcoming' = Evs(Rest) \cup Evs(fs)
       /\ Range(agenda') = Range(Rest) \cup Range(fs)
  BY <1>1, <1>6, <1>7, <1>10, AgendaOne
<1>12. QED
  BY <1>3, <1>4, <1>7, <1>11

(* The resource is idle and starts.                                        *)
LEMMA IdleKeeps ==
  ASSUME KInv, NEW kind, Happens(kind), NEW x, NEW s, NEW b, NEW r, NEW job,
         Operating(x, s, b, r, job), OperateIdle(x, job, r, Rest)
  PROVE  KInv' /\ \A t \in Tasks : Moves(t)
<1>1. /\ x \in Tasks /\ s \in WorkStates /\ r \in Workers
      /\ jobs' \in [Tasks -> {NoJob} \cup JobRecords]
      /\ jobs'[x].at \in {"working", "paused"} /\ jobs'[x].stage = s
      /\ jobs'[x].resource = r /\ jobs'[x].pooled = job.pooled
      /\ \A y \in Tasks : y # x => jobs'[y] = jobs[y]
      /\ s = "qa_testing" => left[x] = 0
  BY OperatingFacts
<1>2. /\ r \in Range(Team[s]) /\ job \in JobRecords /\ job.stage = s /\ job.batch = b
      /\ s = "qa_testing" => job.pooled
      /\ waiters' = waiters /\ Starts(x, s, b)
  BY DEF Operating
<1>3. /\ ~Busy(r)
      /\ process' = [process EXCEPT ![r] = [of |-> x, state |-> "live", failed |-> FALSE]]
      /\ jobs' = [jobs EXCEPT ![x] = [job EXCEPT !.resource = r, !.at = "working"]]
      /\ agenda' = Schedule(Rest, WorkEvents(x, s, b))
      /\ raised' = {} /\ left' = left /\ suspended' = suspended
  BY <1>2 DEF OperateIdle, StartWork
<1>4. jobs'[x].at = "working"
  <2>1. jobs \in [Tasks -> {NoJob} \cup JobRecords]
    BY TypesNow
  <2>2. [job EXCEPT !.resource = r, !.at = "working"].at = "working"
    BY <1>2 DEF JobRecords
  <2>3. QED
    BY <1>1, <1>3, <2>1, <2>2
<1>5. /\ jobs[x].at \in {"none", "waiting"} /\ \A e \in Evs(Rest) : ~Concerns(e, x)
      /\ Occurring.kind \in {"trigger", "assigned"}
      /\ \A q \in WorkStates : x \notin Range(waiters[q])
      /\ \A q \in Workers : \A i \in DOMAIN suspended[q] :
            suspended[q][i].of = x => suspended[q][i].on
  BY <1>2 DEF Starts
<1>6. /\ Live /\ LiveInv /\ Occurring.kind = kind
  BY Begin
<1>7. Upcoming = {Occurring} \cup Evs(Rest)
  BY BeginAgenda
<1>8. /\ process \in [Workers -> Processes] /\ left \in [Tasks -> Nat]
      /\ suspended \in [Workers -> Seq([of : Tasks, on : BOOLEAN])]
      /\ waiters \in [WorkStates -> Seq(Tasks)]
  BY TypesNow
<1>9. PICK d : d = WorkTime(s, b)
  OBVIOUS
<1>10. PICK ev : ev = Finish(x)
  OBVIOUS
<1>11. /\ agenda' \in Seq(Dated) /\ Orderly(setting.cadence, agenda)' /\ Sorted'
       /\ \A y, z \in Range(agenda') : Precedes(agenda', y, z) =>
                ~(y.ev.kind = "assigned" /\ y.ev = z.ev)
       /\ Upcoming' = Evs(Rest) \cup {ev}
       /\ Range(agenda') = Range(Rest) \cup {After(d, ev)}
       /\ d \in Nat /\ (s = "development" => d = left[x])
       /\ ev \in Events /\ ev.kind = "finish" /\ ev.job = x
       /\ \A y : Concerns(ev, y) => y = x
       /\ After(d, ev).ev = ev /\ After(d, ev).due = d
  BY <1>3, <1>9, <1>10, IdleAgenda
<1>12. \A e \in Upcoming' : e.kind = "assigned" =>
             e \in Upcoming /\ (job.pooled => e \in Evs(Rest))
  BY <1>7, <1>11
<1>13. PoolInv'
  BY <1>11, <1>12, OperatingPool
<1>14. EventOK(ev)'
  <2>1. StateOf(ev) = "working"
    BY <1>11 DEF StateOf
  <2>2. QED
    BY <1>4, <1>11, <2>1 DEF EventOK
<1>15. /\ SpotsInv' /\ SeqsInv' /\ JobsInv' /\ EventsInv' /\ PhaseInv' /\ AlarmInv'
       /\ \A y \in Tasks : y # x => (Engaged(y)' <=> Engaged(y))
  <2>1. \A e \in Upcoming' :
           \/ e \in Evs(Rest)
           \/ /\ e.kind \in {"finish", "worked"} /\ EventOK(e)'
              /\ \A y \in Tasks : Concerns(e, y) => y = x \/ y = x
    BY <1>11, <1>14
  <2>2. \A e \in Evs(Rest) : e \in Upcoming' \/ (e.kind = "finish" /\ e.job = x)
    BY <1>11
  <2>3. /\ StartStep(x, x, s, b)
        /\ SpotsInv' /\ SeqsInv' /\ JobsInv' /\ EventsInv' /\ PhaseInv' /\ AlarmInv'
        /\ \A y \in Tasks : y # x /\ y # x => (Engaged(y)' <=> Engaged(y))
    BY <1>1, <1>11, <2>1, <2>2, OperatingStep
  <2>4. QED
    BY <2>3
<1>16. WaitersInv' /\ SignalsInv'
  <2>1. PICK X : X = {x}
    OBVIOUS
  <2>2. /\ X \subseteq Tasks
        /\ \A y \in Tasks : y \notin X => jobs'[y] = jobs[y] /\ (Engaged(y)' <=> Engaged(y))
        /\ \A y \in X, q \in WorkStates : y \notin Range(waiters[q])
        /\ \A q \in Workers : \A i \in DOMAIN suspended[q] :
               suspended[q][i].of \in X => suspended[q][i].on
    BY <1>1, <1>5, <1>15, <2>1
  <2>3. WaitersInv /\ SignalsInv
    BY <1>6 DEF LiveInv
  <2>4. WaitersInv'
    BY <1>2, <1>8, <2>2, <2>3, WaitersFrame
  <2>5. SignalsInv'
    BY <1>3, <1>8, <2>2, <2>3, SignalsFrame
  <2>6. QED
    BY <2>4, <2>5
<1>17. ProcessInv' /\ process' \in [Workers -> Processes]
  <2>1. \A e \in Upcoming : e.kind = "finish" => e \in Upcoming'
    BY <1>5, <1>7, <1>11
  <2>2. WorkBegins(x, r)
    BY <1>1, <1>2, <1>3, <1>4, <1>5, <1>10, <1>11, <2>1 DEF WorkBegins
  <2>3. QED
    BY <1>1, <1>6, <2>2, ProcessStarts
<1>18. FlowEvents'
  <2>1. PICK X : X = {x}
    OBVIOUS
  <2>2. \A a \in Range(agenda') : a.ev.kind = "finish" /\ a.ev.job = x => a.due = d
    <3>1. \A a \in Range(Rest) : a.ev \in Evs(Rest)
      BY EvsRange
    <3>2. QED
      BY <1>5, <1>11, <3>1 DEF Concerns, JobKinds
  <2>3. \A e \in Upcoming' : e.kind = "worked" => e \in Evs(Rest) /\ e.job # x
    BY <1>5, <1>11 DEF Concerns, JobKinds
  <2>4. ASSUME NEW y \in Tasks, y # x, jobs[y].at = "working", jobs[y].stage = "qa_testing"
        PROVE  process'[jobs[y].resource].failed = process[jobs[y].resource].failed
    <3>1. /\ jobs[y].resource \in Workers
      BY <1>6, <2>4, JobFacts
    <3>2. Busy(jobs[y].resource)
      BY <1>6, <2>4 DEF LiveInv, ProcessInv
    <3>3. jobs[y].resource # r
      BY <1>3, <3>2
    <3>4. QED
      BY <1>1, <1>3, <1>8, <3>1, <3>3
  <2>5. /\ X \subseteq Tasks
        /\ \A y \in Tasks : y \notin X => jobs'[y] = jobs[y]
        /\ \A y \in Tasks : y \notin X /\ jobs[y].at = "working" => left'[y] = left[y]
        /\ \A y \in Tasks : y \notin X /\ jobs[y].at = "working" /\ jobs[y].stage = "qa_testing" =>
             process'[jobs[y].resource].failed = process[jobs[y].resource].failed
        /\ left' \in [Tasks -> Nat] /\ agenda' \in Seq(Dated)
        /\ \A a \in Range(agenda') : a.ev.kind = "finish" /\ a.ev.job \notin X => a \in Range(Rest)
        /\ \A e \in Upcoming' : e.kind = "worked" => e.job \notin X /\ e \in Evs(Rest)
    BY <1>1, <1>3, <1>8, <1>11, <2>1, <2>3, <2>4
  <2>6. \A a \in Range(agenda') : a.ev.kind = "finish" /\ a.ev.job \in X =>
            /\ jobs'[a.ev.job].stage = "development" => a.due <= left'[a.ev.job]
            /\ jobs'[a.ev.job].stage = "qa_testing" => left'[a.ev.job] = 0
    <3>1. left[x] \in Nat
      BY <1>1, <1>8
    <3>2. QED
      BY <1>1, <1>3, <1>11, <2>1, <2>2, <3>1
  <2>7. QED
    BY <2>5, <2>6, FlowFrame
<1>19. FlowInv' /\ \A t \in Tasks : Moves(t)
  <2>1. LeftStays(b)
    BY <1>3 DEF LeftStays
  <2>2. QED
    BY <1>18, <2>1, OperatingFlow
<1>20. TimerInv'
  <2>1. kind \notin Delayed
    BY <1>5, <1>6 DEF Delayed
  <2>2. \A a \in Range(agenda') : a.ev.kind = "timer" => a \in Range(Rest)
    BY <1>11
  <2>3. QED
    BY <2>1, <2>2, TimerLate
<1>21. TypeInv'
  <2>1. raised' \subseteq {"runaway", "interrupts terminated process"}
    BY <1>3
  <2>2. /\ left' \in [Tasks -> Nat] /\ suspended' \in [Workers -> Seq(SignalRecords)]
    BY <1>3, <1>8 DEF SignalRecords
  <2>3. QED
    BY <1>11, <1>17, <2>1, <2>2, OperatingTypes
<1>22. QED
  BY <1>11, <1>13, <1>15, <1>16, <1>17, <1>18, <1>19, <1>20, <1>21 DEF KInv, LiveInv

(* The resource is busy, and the job pauses; a stack that is full raises.  *)
LEMMA WaitsKeeps ==
  ASSUME KInv, NEW kind, Happens(kind), NEW x, NEW s, NEW b, NEW r, NEW job,
         Operating(x, s, b, r, job), OperateWaits(x, job, r, Rest)
  PROVE  KInv' /\ \A t \in Tasks : Moves(t)
<1>1. /\ x \in Tasks /\ s \in WorkStates /\ r \in Workers
      /\ jobs' \in [Tasks -> {NoJob} \cup JobRecords]
      /\ jobs'[x].at \in {"working", "paused"} /\ jobs'[x].stage = s
      /\ jobs'[x].resource = r /\ jobs'[x].pooled = job.pooled
      /\ \A y \in Tasks : y # x => jobs'[y] = jobs[y]
  BY OperatingFacts
<1>2. /\ r \in Range(Team[s]) /\ job \in JobRecords
      /\ s = "qa_testing" => ~Busy(r)
      /\ waiters' = waiters /\ Starts(x, s, b) /\ setting' = setting
  BY DEF Operating
<1>3. /\ Busy(r)
      /\ suspended' = [suspended EXCEPT ![r] = Append(suspended[r], Off(x))]
      /\ jobs' = [jobs EXCEPT ![x] = [job EXCEPT !.resource = r, !.at = "paused"]]
      /\ agenda' = Rest
      /\ raised' \subseteq {"runaway"} /\ left' = left /\ process' = process
  <2>1. suspended \in [Workers -> Seq(SignalRecords)]
    BY TypesNow DEF SignalRecords
  <2>2. suspended' = [suspended EXCEPT ![r] = Append(@, [of |-> x, on |-> FALSE])]
    BY DEF OperateWaits, Pause
  <2>3. suspended' = [suspended EXCEPT ![r] = Append(suspended[r], Off(x))]
    BY <1>1, <2>1, <2>2 DEF Off
  <2>4. QED
    BY <2>3 DEF OperateWaits, PauseRaises
<1>4. jobs'[x].at = "paused"
  <2>1. jobs \in [Tasks -> {NoJob} \cup JobRecords]
    BY TypesNow
  <2>2. [job EXCEPT !.resource = r, !.at = "paused"].at = "paused"
    BY <1>2 DEF JobRecords
  <2>3. QED
    BY <1>1, <1>3, <2>1, <2>2
<1>5. /\ jobs[x].at \in {"none", "waiting"} /\ \A e \in Evs(Rest) : ~Concerns(e, x)
      /\ Occurring.kind \in {"trigger", "assigned"}
      /\ \A q \in WorkStates : x \notin Range(waiters[q])
      /\ \A q \in Workers : \A i \in DOMAIN suspended[q] :
            suspended[q][i].of = x => suspended[q][i].on
  BY <1>2 DEF Starts
<1>6. /\ Live /\ LiveInv /\ Occurring.kind = kind
  BY Begin
<1>7. Upcoming = {Occurring} \cup Evs(Rest)
  BY BeginAgenda
<1>8. /\ process \in [Workers -> Processes] /\ left \in [Tasks -> Nat]
      /\ suspended \in [Workers -> Seq(SignalRecords)]
      /\ waiters \in [WorkStates -> Seq(Tasks)]
  BY TypesNow DEF SignalRecords
<1>9. /\ agenda' \in Seq(Dated) /\ Orderly(setting.cadence, agenda)' /\ Sorted'
      /\ \A y, z \in Range(agenda') : Precedes(agenda', y, z) =>
                ~(y.ev.kind = "assigned" /\ y.ev = z.ev)
      /\ Upcoming' = Evs(Rest)
      /\ Range(agenda') = Range(Rest)
  BY <1>2, <1>3, AgendaNone
<1>10. PoolInv'
  <2>1. \A e \in Upcoming' : e.kind = "assigned" =>
             e \in Upcoming /\ (job.pooled => e \in Evs(Rest))
    BY <1>7, <1>9
  <2>2. QED
    BY <1>9, <2>1, OperatingPool
<1>11. /\ SpotsInv' /\ SeqsInv' /\ JobsInv' /\ EventsInv' /\ PhaseInv' /\ AlarmInv'
       /\ \A y \in Tasks : y # x => (Engaged(y)' <=> Engaged(y))
  <2>1. \A e \in Upcoming' :
           \/ e \in Evs(Rest)
           \/ /\ e.kind \in {"finish", "worked"} /\ EventOK(e)'
              /\ \A y \in Tasks : Concerns(e, y) => y = x \/ y = x
    BY <1>9
  <2>2. \A e \in Evs(Rest) : e \in Upcoming' \/ (e.kind = "finish" /\ e.job = x)
    BY <1>9
  <2>3. /\ StartStep(x, x, s, b)
        /\ SpotsInv' /\ SeqsInv' /\ JobsInv' /\ EventsInv' /\ PhaseInv' /\ AlarmInv'
        /\ \A y \in Tasks : y # x /\ y # x => (Engaged(y)' <=> Engaged(y))
    BY <1>1, <1>9, <2>1, <2>2, OperatingStep
  <2>4. QED
    BY <2>3
<1>12. WaitersInv'
  <2>1. PICK X : X = {x}
    OBVIOUS
  <2>2. /\ X \subseteq Tasks
        /\ \A y \in Tasks : y \notin X => jobs'[y] = jobs[y] /\ (Engaged(y)' <=> Engaged(y))
        /\ \A y \in X, q \in WorkStates : y \notin Range(waiters[q])
    BY <1>1, <1>5, <1>11, <2>1
  <2>3. WaitersInv
    BY <1>6 DEF LiveInv
  <2>4. QED
    BY <1>2, <1>8, <2>2, <2>3, WaitersFrame
<1>13. SignalsInv' /\ suspended' \in [Workers -> Seq(SignalRecords)]
  <2>1. PICK base : base = suspended[r]
    OBVIOUS
  <2>2. base \in Seq(SignalRecords)
    BY <1>1, <1>8, <2>1
  <2>3. ~Engaged(x)'
    BY <1>5, <1>9 DEF Engaged
  <2>4. Resignals(x, r, base)
    BY <1>1, <1>3, <1>4, <1>5, <1>11, <2>1, <2>3 DEF Resignals
  <2>5. SignalsInv
    BY <1>6 DEF LiveInv
  <2>6. QED
    BY <1>1, <1>8, <2>2, <2>4, <2>5, SignalAdded
<1>14. s # "qa_testing"
  BY <1>2, <1>3
<1>15. ProcessInv'
  <2>1. ProcessInv
    BY <1>6 DEF LiveInv
  <2>2. Finish(x) \notin Upcoming
    <3>1. Concerns(Finish(x), x) /\ Finish(x).kind = "finish"
      BY DEF Finish, Concerns, JobKinds
    <3>2. QED
      BY <1>5, <1>7, <3>1
  <2>3. \A e \in Upcoming : e.kind = "finish" => e \in Upcoming'
    BY <1>5, <1>7, <1>9
  <2>4. \A q \in Range(Team["qa_testing"]) : Busy(q) => process[q].of # x
    BY <1>5, <2>1 DEF ProcessInv
  <2>5. QED
    BY <1>1, <1>3, <1>8, <1>14, <2>1, <2>2, <2>3, <2>4, ProcessFrame
<1>16. FlowEvents'
  <2>1. PICK X : X = {x}
    OBVIOUS
  <2>2. \A a \in Range(agenda') : a.ev.kind = "finish" => a.ev.job # x /\ a \in Range(Rest)
    <3>1. \A a \in Range(Rest) : a.ev \in Evs(Rest)
      BY EvsRange
    <3>2. QED
      BY <1>5, <1>9, <3>1 DEF Concerns, JobKinds
  <2>3. \A e \in Upcoming' : e.kind = "worked" => e \in Evs(Rest) /\ e.job # x
    BY <1>5, <1>9 DEF Concerns, JobKinds
  <2>5. /\ X \subseteq Tasks
        /\ \A y \in Tasks : y \notin X => jobs'[y] = jobs[y]
        /\ \A y \in Tasks : y \notin X /\ jobs[y].at = "working" => left'[y] = left[y]
        /\ \A y \in Tasks : y \notin X /\ jobs[y].at = "working" /\ jobs[y].stage = "qa_testing" =>
             process'[jobs[y].resource].failed = process[jobs[y].resource].failed
        /\ left' \in [Tasks -> Nat] /\ agenda' \in Seq(Dated)
        /\ \A a \in Range(agenda') : a.ev.kind = "finish" => a.ev.job \notin X /\ a \in Range(Rest)
        /\ \A e \in Upcoming' : e.kind = "worked" => e.job \notin X /\ e \in Evs(Rest)
    BY <1>1, <1>3, <1>8, <1>9, <2>1, <2>2, <2>3
  <2>7. QED
    BY <2>5, FlowFrame
<1>17. FlowInv' /\ \A t \in Tasks : Moves(t)
  <2>1. LeftStays(b)
    BY <1>3 DEF LeftStays
  <2>2. QED
    BY <1>16, <2>1, OperatingFlow
<1>18. TimerInv'
  <2>1. kind \notin Delayed
    BY <1>5, <1>6 DEF Delayed
  <2>2. \A a \in Range(agenda') : a.ev.kind = "timer" => a \in Range(Rest)
    BY <1>9
  <2>3. QED
    BY <2>1, <2>2, TimerLate
<1>19. TypeInv'
  <2>1. raised' \subseteq {"runaway", "interrupts terminated process"}
    BY <1>3
  <2>2. left' \in [Tasks -> Nat] /\ process' \in [Workers -> Processes]
    BY <1>3, <1>8
  <2>3. QED
    BY <1>9, <1>13, <2>1, <2>2, OperatingTypes
<1>20. QED
  BY <1>9, <1>10, <1>11, <1>12, <1>13, <1>15, <1>17, <1>18, <1>19 DEF KInv, LiveInv

(* What is interrupted: the development that the resource works for.       *)
LEMMA Interrupted ==
  ASSUME KInv, NEW kind, Happens(kind), NEW x, NEW s, NEW b, NEW r, NEW job,
         Operating(x, s, b, r, job), IsSupport(x), process[r].state = "live",
         NEW p, p = process[r].of
  PROVE  /\ p \in Tasks /\ p # x /\ s = "development"
         /\ jobs[p].at = "working" /\ jobs[p].stage = "development" /\ jobs[p].resource = r
         /\ Finish(p) \in Evs(Rest)
         /\ \A i, j \in DOMAIN Rest : Rest[i].ev = Finish(p) /\ Rest[j].ev = Finish(p) => i = j
         /\ \A e \in Evs(Rest) : Concerns(e, p) => e = Finish(p)
         /\ DueIn(Rest, Finish(p)) \in Nat /\ DueIn(Rest, Finish(p)) <= left[p]
<1>1. /\ x \in Tasks /\ s \in WorkStates /\ r \in Workers
  BY OperatingFacts
<1>2. /\ r \in Range(Team[s]) /\ (IsSupport(x) => s = "development")
      /\ jobs[x].at \in {"none", "waiting"} /\ Occurring.kind \in {"trigger", "assigned"}
  BY DEF Operating, Starts
<1>3. /\ Live /\ ProcessInv /\ EventsInv /\ FlowInv
  BY Begin DEF LiveInv
<1>4. /\ Upcoming = {Occurring} \cup Evs(Rest) /\ Rest \in Seq(Dated)
      /\ Orderly(setting.cadence, Rest) /\ Head(agenda).due \in Nat
      /\ \A y \in Range(Rest) : /\ y.due \in Nat
                                /\ \E z \in Range(agenda) :
                                      z.ev = y.ev /\ z.due = y.due + Head(agenda).due
  BY BeginAgenda
<1>5. process \in [Workers -> Processes] /\ left \in [Tasks -> Nat]
  BY TypesNow
<1>6. /\ p # None /\ Finish(p) \in Upcoming /\ jobs[p].resource = r
  BY <1>1, <1>3 DEF ProcessInv
<1>7. p \in Tasks
  BY <1>1, <1>5, <1>6 DEF Processes
<1>8. PICK ev : ev = Finish(p)
  OBVIOUS
<1>9. ev.kind = "finish" /\ ev.job = p /\ Concerns(ev, p)
  BY <1>8 DEF Finish, Concerns, JobKinds
<1>10. ev \in Evs(Rest)
  BY <1>2, <1>4, <1>6, <1>8, <1>9
<1>11. jobs[p].at = "working"
  <2>1. StateOf(ev) = "working"
    BY <1>9 DEF StateOf
  <2>2. QED
    BY <1>3, <1>6, <1>7, <1>8, <1>9, <2>1 DEF EventsInv
<1>12. jobs[p].stage = "development"
  <2>1. jobs[p].resource \in Range(Team[jobs[p].stage]) /\ jobs[p].stage \in WorkStates
    BY <1>3, <1>7, <1>11, JobFacts
  <2>2. PICK u : u = jobs[p].stage
    OBVIOUS
  <2>3. u \in WorkStates /\ r \in Range(Team[u])
    BY <1>6, <2>1, <2>2
  <2>4. u = s
    BY <1>1, <1>2, <2>3, TeamFacts
  <2>5. s = "development"
    BY <1>2
  <2>6. QED
    BY <2>2, <2>4, <2>5
<1>13. /\ \A i, j \in DOMAIN Rest : Rest[i].ev = ev /\ Rest[j].ev = ev => i = j
       /\ \A e \in Evs(Rest) : Concerns(e, p) => e = ev
  <2>1. /\ \A i, j \in DOMAIN Rest : Concerns(Rest[i].ev, p) /\ Concerns(Rest[j].ev, p) => i = j
        /\ \A e, f \in Evs(Rest) : Concerns(e, p) /\ Concerns(f, p) => e = f
    BY <1>4, <1>7, OneConcern
  <2>2. QED
    BY <1>9, <1>10, <2>1
<1>14. DueIn(Rest, ev) \in Nat /\ DueIn(Rest, ev) <= left[p]
  <2>1. PICK a \in Range(Rest) : a.ev = ev
    BY <1>10, EvsRange
  <2>2. PICK y \in Range(Rest) : y.ev = ev /\ DueIn(Rest, ev) = y.due
    BY <2>1, DueInEvent
  <2>3. PICK z \in Range(agenda) : z.ev = y.ev /\ z.due = y.due + Head(agenda).due
    BY <1>4
  <2>4. z.due <= left[p]
    BY <1>3, <1>9, <1>12, <2>2, <2>3 DEF FlowInv
  <2>5. QED
    BY <1>4, <1>5, <1>7, <2>2, <2>3, <2>4
<1>15. QED
  BY <1>2, <1>6, <1>7, <1>8, <1>10, <1>11, <1>12, <1>13, <1>14

(* Support interrupts the job p: what the agenda becomes.                  *)
InterruptStep(x, s, b, r, p, d, ev, wk) ==
    /\ IsSupport(x) /\ process[r].state = "live" /\ p = process[r].of
    /\ d = WorkTime(s, b) /\ ev = Finish(x) /\ wk = Worked(p, "interrupted")
    /\ agenda' = Schedule(Without(Rest, Finish(p)), <<Now(wk)>> \o WorkEvents(x, s, b))

(* What that does to the events: the timeout of p is taken out, p learns   *)
(* of its interruption, and the support has its timeout.                   *)
InterruptDoes(x, p, ev, wk) ==
    /\ agenda' \in Seq(Dated) /\ Orderly(setting.cadence, agenda)' /\ Sorted'
    /\ \A y, z \in Range(agenda') : Precedes(agenda', y, z) =>
             ~(y.ev.kind = "assigned" /\ y.ev = z.ev)
    /\ \A e \in Upcoming' : e = wk \/ e = ev \/ (e \in Evs(Rest) /\ e # Finish(p))
    /\ \A e \in Evs(Rest) : e \in Upcoming' \/ e = Finish(p)
    /\ wk \in Upcoming' /\ ev \in Upcoming'
    /\ \A a \in Range(agenda') : \/ a \in Range(Rest) /\ a.ev # Finish(p)
                                 \/ a.ev = wk
                                 \/ a.ev = ev /\ a.due = left[x]
    /\ ev.kind = "finish" /\ ev.job = x /\ \A y : Concerns(ev, y) => y = x
    /\ wk.kind = "worked" /\ wk.job = p /\ wk.how = "interrupted"
    /\ \A y : Concerns(wk, y) => y = p

(* A step that interrupts is of that form.                                 *)
LEMMA InterruptAgenda ==
  ASSUME KInv, NEW kind, Happens(kind), NEW x, NEW s, NEW b, NEW r, NEW job,
         Operating(x, s, b, r, job), NEW p, NEW d, NEW ev, NEW wk,
         InterruptStep(x, s, b, r, p, d, ev, wk)
  PROVE  InterruptDoes(x, p, ev, wk)
<1>0. /\ IsSupport(x) /\ process[r].state = "live" /\ p = process[r].of
      /\ d = WorkTime(s, b) /\ ev = Finish(x) /\ wk = Worked(p, "interrupted")
      /\ agenda' = Schedule(Without(Rest, Finish(p)), <<Now(wk)>> \o WorkEvents(x, s, b))
  BY DEF InterruptStep
<1>1. x \in Tasks /\ s \in WorkStates
  BY OperatingFacts
<1>2. /\ setting' = setting /\ b \in Seq(Tasks) /\ \A e \in Evs(Rest) : ~Concerns(e, x)
      /\ ~Windowed(setting.cadence, s) => b = <<x>>
  BY DEF Operating, Starts
<1>3. /\ p \in Tasks /\ p # x /\ s = "development"
      /\ Finish(p) \in Evs(Rest)
      /\ \A i, j \in DOMAIN Rest : Rest[i].ev = Finish(p) /\ Rest[j].ev = Finish(p) => i = j
      /\ \A e \in Evs(Rest) : Concerns(e, p) => e = Finish(p)
  BY <1>0, Interrupted
<1>4. d \in Nat /\ d = left[x]
  BY <1>0, <1>1, <1>2, <1>3, WorkTimeFacts DEF Windowed
<1>5. /\ ev \in Events /\ ev.kind = "finish" /\ ev.job = x
      /\ \A y : Concerns(ev, y) => y = x
  BY <1>0, <1>1, EventTypes DEF Finish, Concerns
<1>6. /\ wk \in Events /\ wk.kind = "worked" /\ wk.job = p /\ wk.how = "interrupted"
      /\ \A y : Concerns(wk, y) => y = p
  BY <1>0, <1>3, EventTypes DEF Worked, Concerns
<1>7. Rest \in Seq(Dated) /\ Orderly(setting.cadence, Rest)
  BY BeginAgenda
<1>8. PICK v : v = Finish(p)
  OBVIOUS
<1>9. PICK q : q = Without(Rest, v)
  OBVIOUS
<1>10. /\ q \in Seq(Dated)
       /\ \A y, z : Precedes(q, y, z) => Precedes(Rest, y, z)
       /\ Range(q) \subseteq Range(Rest)
       /\ \A y \in Range(Rest) : y.ev # v => y \in Range(q)
       /\ \A y \in Range(q) : y.ev # v
  <2>1. \E i \in DOMAIN Rest : Rest[i].ev = v
    BY <1>3, <1>8 DEF Evs
  <2>2. \A i, j \in DOMAIN Rest : Rest[i].ev = v /\ Rest[j].ev = v => i = j
    BY <1>3, <1>8
  <2>3. QED
    BY <1>7, <1>9, <2>1, <2>2, WithoutEvent
<1>11. Orderly(setting.cadence, q)
  BY <1>7, <1>10 DEF Orderly
<1>12. \A e : e \in Evs(q) <=> e \in Evs(Rest) /\ e # v
  <2>1. /\ \A y \in Range(q) : y.ev \in Evs(q)
        /\ \A e \in Evs(q) : \E y \in Range(q) : y.ev = e
    BY EvsRange
  <2>2. /\ \A y \in Range(Rest) : y.ev \in Evs(Rest)
        /\ \A e \in Evs(Rest) : \E y \in Range(Rest) : y.ev = e
    BY EvsRange
  <2>3. QED
    BY <1>10, <2>1, <2>2
<1>13. PICK fs : fs = <<Now(wk)>>
  OBVIOUS
<1>14. /\ OneOrNone(fs) /\ Range(fs) = {Now(wk)} /\ Evs(fs) = {wk} /\ Now(wk).ev = wk
  BY <1>6, <1>13, NowFacts
<1>15. Fits(setting.cadence, Evs(q), Now(wk))
  <2>1. ASSUME NEW f \in Evs(q), Clash(f, wk)  PROVE FALSE
    <3>1. PICK t \in Tasks : Concerns(f, t) /\ Concerns(wk, t)
      BY <1>6, <2>1 DEF Clash, OfWorkflow, OfGenerator
    <3>2. QED
      BY <1>3, <1>6, <1>8, <1>12, <3>1
  <2>2. \A f : ~TooLate(setting.cadence, f, wk)
    BY <1>6 DEF TooLate
  <2>3. QED
    BY <1>6, <2>1, <2>2, FitsNow
<1>16. PICK q2 : q2 = Schedule(q, fs)
  OBVIOUS
<1>17. /\ q2 \in Seq(Dated) /\ Orderly(setting.cadence, q2)
       /\ Range(q2) = Range(q) \cup Range(fs) /\ Evs(q2) = Evs(q) \cup Evs(fs)
  <2>1. \A e \in Range(fs) : Fits(setting.cadence, Evs(q), e)
    BY <1>14, <1>15
  <2>2. QED
    BY <1>10, <1>11, <1>14, <1>16, <2>1, AgendaGrows
<1>18. PICK gs : gs = <<After(d, ev)>>
  OBVIOUS
<1>19. /\ OneOrNone(gs) /\ Range(gs) = {After(d, ev)} /\ Evs(gs) = {ev}
       /\ After(d, ev).ev = ev /\ After(d, ev).due = d
  BY <1>4, <1>5, <1>18, OneOrNoneFacts
<1>20. Fits(setting.cadence, Evs(q2), After(d, ev))
  <2>1. ASSUME NEW f \in Evs(q2), Clash(f, ev)  PROVE FALSE
    <3>1. PICK t \in Tasks : Concerns(f, t) /\ Concerns(ev, t)
      BY <1>5, <2>1 DEF Clash, OfWorkflow, OfGenerator
    <3>2. t = x /\ (f \in Evs(Rest) \/ f = wk)
      BY <1>5, <1>12, <1>14, <1>17, <3>1
    <3>3. QED
      BY <1>2, <1>3, <1>6, <3>1, <3>2
  <2>2. QED
    BY <1>4, <1>5, <2>1, FitsAfter DEF Delayed
<1>21. PICK q3 : q3 = Schedule(q2, gs)
  OBVIOUS
<1>22. /\ q3 \in Seq(Dated) /\ Orderly(setting.cadence, q3)
       /\ Range(q3) = Range(q2) \cup Range(gs) /\ Evs(q3) = Evs(q2) \cup Evs(gs)
  <2>1. \A e \in Range(gs) : Fits(setting.cadence, Evs(q2), e)
    BY <1>19, <1>20
  <2>2. q2 \in Seq(Dated) /\ Orderly(setting.cadence, q2)
    BY <1>17
  <2>3. OneOrNone(gs)
    BY <1>19
  <2>4. QED
    BY <1>21, <2>1, <2>2, <2>3, AgendaGrows
<1>23. agenda' = q3
  <2>1. agenda' = Schedule(q, fs \o gs)
    BY <1>0, <1>8, <1>9, <1>13, <1>18 DEF WorkEvents
  <2>2. Schedule(q, fs \o gs) = Schedule(Schedule(q, fs), gs)
    BY <1>14, <1>19, ScheduleMore DEF OneOrNone
  <2>3. QED
    BY <1>16, <1>21, <2>1, <2>2
<1>24. agenda' \in Seq(Dated) /\ Orderly(setting'.cadence, agenda')
  BY <1>2, <1>22, <1>23
<1>25. /\ Orderly(setting.cadence, agenda)' /\ Sorted'
       /\ \A y, z \in Range(agenda') : Precedes(agenda', y, z) =>
                ~(y.ev.kind = "assigned" /\ y.ev = z.ev)
  BY <1>24, OrderlyAgenda
<1>26. Upcoming' = Evs(q) \cup {wk} \cup {ev}
  <2>1. Upcoming' = Evs(q3)
    BY <1>23 DEF Upcoming, Evs
  <2>2. QED
    BY <1>14, <1>17, <1>19, <1>22, <2>1
<1>27. Range(agenda') = Range(q) \cup {Now(wk)} \cup {After(d, ev)}
  BY <1>14, <1>17, <1>19, <1>22, <1>23
<1>28. QED
  BY <1>4, <1>5, <1>6, <1>8, <1>10, <1>12, <1>14, <1>19, <1>24, <1>25, <1>26, <1>27
     DEF InterruptDoes

(* The interruption of a process whose generator has returned raises.      *)
LEMMA InterruptRaises ==
  ASSUME KInv, NEW kind, Happens(kind), NEW x, NEW s, NEW b, NEW r, NEW job,
         Operating(x, s, b, r, job), OperateInterrupts(x, job, r, Rest),
         process[r].state # "live"
  PROVE  KInv' /\ \A t \in Tasks : Moves(t)
<1>1. x \in Tasks /\ r \in Workers
  BY OperatingFacts
<1>2. ~job.pooled /\ setting' = setting
  BY DEF Operating, OperateInterrupts
<1>3. /\ raised' = {"interrupts terminated process"} /\ left' = left /\ agenda' = agenda
      /\ suspended' = suspended
      /\ process' = [process EXCEPT ![r] = [of |-> x, state |-> "live", failed |-> FALSE]]
  BY DEF OperateInterrupts, StartWork
<1>4. /\ process \in [Workers -> Processes] /\ left \in [Tasks -> Nat]
      /\ suspended \in [Workers -> Seq(SignalRecords)] /\ agenda \in Seq(Dated) /\ Sorted
  BY TypesNow DEF SignalRecords
<1>5. process' \in [Workers -> Processes]
  BY <1>1, <1>3, <1>4 DEF Processes
<1>6. TypeInv'
  <2>1. agenda' \in Seq(Dated) /\ Sorted'
    BY <1>3, <1>4 DEF Sorted
  <2>2. raised' \subseteq {"runaway", "interrupts terminated process"}
    BY <1>3
  <2>3. left' \in [Tasks -> Nat] /\ suspended' \in [Workers -> Seq(SignalRecords)]
    BY <1>3, <1>4
  <2>4. QED
    BY <1>5, <2>1, <2>2, <2>3, OperatingTypes
<1>7. PoolInv'
  <2>1. \A e \in Upcoming' : e.kind = "assigned" =>
             e \in Upcoming /\ (job.pooled => e \in Evs(Rest))
    BY <1>2, <1>3 DEF Upcoming
  <2>2. \A y, z \in Range(agenda') : Precedes(agenda', y, z) =>
             ~(y.ev.kind = "assigned" /\ y.ev = z.ev)
    <3>1. PoolInv
      BY Begin
    <3>2. QED
      BY <1>3, <3>1 DEF PoolInv
  <2>3. QED
    BY <2>1, <2>2, OperatingPool
<1>8. \A t \in Tasks : Moves(t)
  <2>1. LeftStays(b)
    BY <1>3 DEF LeftStays
  <2>2. QED
    BY <2>1, OperatingFlow
<1>9. ~Live'
  BY <1>3 DEF Live
<1>10. QED
  BY <1>6, <1>7, <1>8, <1>9 DEF KInv

(* The interruption of a live process leaves it the time that was left.    *)
LEMMA InterruptKeeps ==
  ASSUME KInv, NEW kind, Happens(kind), NEW x, NEW s, NEW b, NEW r, NEW job,
         Operating(x, s, b, r, job), OperateInterrupts(x, job, r, Rest),
         process[r].state = "live"
  PROVE  KInv' /\ \A t \in Tasks : Moves(t)
<1>1. /\ x \in Tasks /\ s \in WorkStates /\ r \in Workers
      /\ jobs' \in [Tasks -> {NoJob} \cup JobRecords]
      /\ jobs'[x].stage = s /\ jobs'[x].resource = r /\ jobs'[x].pooled = job.pooled
      /\ \A y \in Tasks : y # x => jobs'[y] = jobs[y]
  BY OperatingFacts
<1>2. /\ r \in Range(Team[s]) /\ job \in JobRecords /\ job.stage = s /\ job.batch = b
      /\ waiters' = waiters /\ Starts(x, s, b)
  BY DEF Operating
<1>3. PICK p : p = process[r].of
  OBVIOUS
<1>4. /\ IsSupport(x)
      /\ process' = [process EXCEPT ![r] = [of |-> x, state |-> "live", failed |-> FALSE]]
      /\ jobs' = [jobs EXCEPT ![x] = [job EXCEPT !.resource = r, !.at = "working"]]
      /\ left' = [left EXCEPT ![p] = DueIn(Rest, Finish(p))]
      /\ agenda' = Schedule(Without(Rest, Finish(p)),
                       <<Now(Worked(p, "interrupted"))>> \o WorkEvents(x, s, b))
      /\ raised' = {} /\ suspended' = suspended
  BY <1>2, <1>3 DEF OperateInterrupts, StartWork
<1>5. /\ p \in Tasks /\ p # x /\ s = "development"
      /\ jobs[p].at = "working" /\ jobs[p].stage = "development" /\ jobs[p].resource = r
      /\ Finish(p) \in Evs(Rest)
      /\ \A e \in Evs(Rest) : Concerns(e, p) => e = Finish(p)
      /\ DueIn(Rest, Finish(p)) \in Nat /\ DueIn(Rest, Finish(p)) <= left[p]
  BY <1>3, <1>4, Interrupted
<1>6. jobs'[x].at = "working"
  <2>1. jobs \in [Tasks -> {NoJob} \cup JobRecords]
    BY TypesNow
  <2>2. [job EXCEPT !.resource = r, !.at = "working"].at = "working"
    BY <1>2 DEF JobRecords
  <2>3. QED
    BY <1>1, <1>4, <2>1, <2>2
<1>7. /\ jobs[x].at \in {"none", "waiting"} /\ \A e \in Evs(Rest) : ~Concerns(e, x)
      /\ Occurring.kind \in {"trigger", "assigned"}
      /\ \A q \in WorkStates : x \notin Range(waiters[q])
      /\ \A q \in Workers : \A i \in DOMAIN suspended[q] :
            suspended[q][i].of = x => suspended[q][i].on
  BY <1>2 DEF Starts
<1>8. /\ Live /\ LiveInv /\ Occurring.kind = kind
  BY Begin
<1>9. /\ WaitersInv /\ SignalsInv /\ ProcessInv
  BY <1>8 DEF LiveInv
<1>10. Upcoming = {Occurring} \cup Evs(Rest)
  BY BeginAgenda
<1>11. /\ process \in [Workers -> Processes] /\ left \in [Tasks -> Nat]
       /\ suspended \in [Workers -> Seq([of : Tasks, on : BOOLEAN])]
       /\ waiters \in [WorkStates -> Seq(Tasks)]
  BY TypesNow
<1>12. PICK d : d = WorkTime(s, b)
  OBVIOUS
<1>13. PICK ev : ev = Finish(x)
  OBVIOUS
<1>14. PICK wk : wk = Worked(p, "interrupted")
  OBVIOUS
<1>15. /\ agenda' \in Seq(Dated) /\ Orderly(setting.cadence, agenda)' /\ Sorted'
       /\ \A y, z \in Range(agenda') : Precedes(agenda', y, z) =>
                ~(y.ev.kind = "assigned" /\ y.ev = z.ev)
       /\ \A e \in Upcoming' : e = wk \/ e = ev \/ (e \in Evs(Rest) /\ e # Finish(p))
       /\ \A e \in Evs(Rest) : e \in Upcoming' \/ e = Finish(p)
       /\ wk \in Upcoming' /\ ev \in Upcoming'
       /\ \A a \in Range(agenda') : \/ a \in Range(Rest) /\ a.ev # Finish(p)
                                    \/ a.ev = wk
                                    \/ a.ev = ev /\ a.due = left[x]
       /\ ev.kind = "finish" /\ ev.job = x /\ \A y : Concerns(ev, y) => y = x
       /\ wk.kind = "worked" /\ wk.job = p /\ wk.how = "interrupted"
       /\ \A y : Concerns(wk, y) => y = p
  <2>1. InterruptStep(x, s, b, r, p, d, ev, wk)
    BY <1>3, <1>4, <1>12, <1>13, <1>14 DEF InterruptStep
  <2>2. InterruptDoes(x, p, ev, wk)
    BY <2>1, InterruptAgenda
  <2>3. QED
    BY <2>2 DEF InterruptDoes
<1>16. Finish(p).kind = "finish" /\ Finish(p).job = p /\ Concerns(Finish(p), p)
  BY DEF Finish, Concerns, JobKinds
<1>17. PoolInv'
  <2>1. \A e \in Upcoming' : e.kind = "assigned" =>
             e \in Upcoming /\ (job.pooled => e \in Evs(Rest))
    BY <1>10, <1>15
  <2>2. QED
    BY <1>15, <2>1, OperatingPool
<1>18. jobs'[p] = jobs[p]
  BY <1>1, <1>5
<1>19. EventOK(ev)' /\ EventOK(wk)'
  <2>1. StateOf(ev) = "working" /\ StateOf(wk) = "working"
    BY <1>15 DEF StateOf
  <2>2. EventOK(ev)'
    BY <1>6, <1>15, <2>1 DEF EventOK
  <2>3. jobs'[p].at = "working"
    BY <1>5, <1>18
  <2>4. EventOK(wk)'
    BY <1>15, <2>1, <2>3 DEF EventOK
  <2>5. QED
    BY <2>2, <2>4
<1>20. /\ SpotsInv' /\ SeqsInv' /\ JobsInv' /\ EventsInv' /\ PhaseInv' /\ AlarmInv'
       /\ \A y \in Tasks : y # x /\ y # p => (Engaged(y)' <=> Engaged(y))
  <2>1. \A e \in Upcoming' :
           \/ e \in Evs(Rest)
           \/ /\ e.kind \in {"finish", "worked"} /\ EventOK(e)'
              /\ \A y \in Tasks : Concerns(e, y) => y = x \/ y = p
    BY <1>15, <1>19
  <2>2. \A e \in Evs(Rest) : e \in Upcoming' \/ (e.kind = "finish" /\ e.job = p)
    BY <1>15, <1>16
  <2>3. /\ StartStep(x, p, s, b)
        /\ SpotsInv' /\ SeqsInv' /\ JobsInv' /\ EventsInv' /\ PhaseInv' /\ AlarmInv'
        /\ \A y \in Tasks : y # x /\ y # p => (Engaged(y)' <=> Engaged(y))
    BY <1>5, <1>15, <2>1, <2>2, OperatingStep
  <2>4. QED
    BY <2>3
<1>21. WaitersInv' /\ SignalsInv'
  <2>1. PICK X : X = {x, p}
    OBVIOUS
  <2>2. /\ \A q \in WorkStates : p \notin Range(waiters[q])
        /\ \A q \in Workers : \A i \in DOMAIN suspended[q] :
               suspended[q][i].of = p => suspended[q][i].on
    BY <1>5, <1>9 DEF WaitersInv, SignalsInv
  <2>3. /\ X \subseteq Tasks
        /\ \A y \in Tasks : y \notin X => jobs'[y] = jobs[y] /\ (Engaged(y)' <=> Engaged(y))
        /\ \A y \in X, q \in WorkStates : y \notin Range(waiters[q])
        /\ \A q \in Workers : \A i \in DOMAIN suspended[q] :
               suspended[q][i].of \in X => suspended[q][i].on
    BY <1>1, <1>5, <1>7, <1>20, <2>1, <2>2
  <2>4. WaitersInv'
    BY <1>2, <1>9, <1>11, <2>3, WaitersFrame
  <2>5. SignalsInv'
    BY <1>4, <1>9, <1>11, <2>3, SignalsFrame
  <2>6. QED
    BY <2>4, <2>5
<1>22. r \notin Range(Team["qa_testing"])
  BY <1>2, <1>5, TeamFacts, Strings
<1>23. ProcessInv' /\ process' \in [Workers -> Processes]
  <2>1. \A e \in Upcoming : e.kind = "finish" => e \in Upcoming' \/ jobs[e.job].resource = r
    BY <1>5, <1>7, <1>10, <1>15, <1>16
  <2>2. WorkBegins(x, r)
    BY <1>1, <1>2, <1>4, <1>5, <1>6, <1>7, <1>13, <1>15, <1>22, <2>1 DEF WorkBegins
  <2>3. QED
    BY <1>1, <1>8, <2>2, ProcessStarts
<1>24. /\ left' \in [Tasks -> Nat] /\ left'[p] <= left[p]
       /\ \A y \in Tasks : y # p => left'[y] = left[y]
  BY <1>4, <1>5, <1>11
<1>25. FlowEvents'
  <2>1. PICK X : X = {x, p}
    OBVIOUS
  <2>2. \A a \in Range(Rest) : a.ev \in Evs(Rest)
    BY EvsRange
  <2>3. \A a \in Range(agenda') : a.ev.kind = "finish" =>
            \/ a \in Range(Rest) /\ a.ev.job # x /\ a.ev.job # p
            \/ a.ev.job = x /\ a.due = left[x]
    <3>1. ASSUME NEW a \in Range(agenda'), a.ev.kind = "finish", a \in Range(Rest),
                 a.ev # Finish(p)
          PROVE  a.ev.job # x /\ a.ev.job # p
      <4>1. \A y : a.ev.job = y => Concerns(a.ev, y)
        BY <3>1 DEF Concerns, JobKinds
      <4>2. QED
        BY <1>5, <1>7, <2>2, <3>1, <4>1
    <3>2. QED
      BY <1>15, <3>1
  <2>4. \A e \in Upcoming' : e.kind = "worked" =>
            \/ e \in Evs(Rest) /\ e.job # x /\ e.job # p
            \/ e.job = p /\ e.how = "interrupted"
    <3>1. ASSUME NEW e \in Evs(Rest), e.kind = "worked"  PROVE e.job # x /\ e.job # p
      <4>1. \A y : e.job = y => Concerns(e, y)
        BY <3>1 DEF Concerns, JobKinds
      <4>2. e # Finish(p)
        BY <1>16, <3>1
      <4>3. QED
        BY <1>5, <1>7, <3>1, <4>1, <4>2
    <3>2. QED
      BY <1>15, <3>1
  <2>5. ASSUME NEW y \in Tasks, y # x, jobs[y].at = "working", jobs[y].stage = "qa_testing"
        PROVE  process'[jobs[y].resource].failed = process[jobs[y].resource].failed
    <3>1. jobs[y].resource \in Workers /\ jobs[y].resource \in Range(Team["qa_testing"])
      BY <1>8, <2>5, JobFacts
    <3>2. jobs[y].resource # r
      BY <1>22, <3>1
    <3>3. QED
      BY <1>1, <1>4, <1>11, <3>1, <3>2
  <2>6. /\ X \subseteq Tasks
        /\ \A y \in Tasks : y \notin X => jobs'[y] = jobs[y]
        /\ \A y \in Tasks : y \notin X /\ jobs[y].at = "working" => left'[y] = left[y]
        /\ \A y \in Tasks : y \notin X /\ jobs[y].at = "working" /\ jobs[y].stage = "qa_testing" =>
             process'[jobs[y].resource].failed = process[jobs[y].resource].failed
        /\ left' \in [Tasks -> Nat] /\ agenda' \in Seq(Dated)
        /\ \A a \in Range(agenda') : a.ev.kind = "finish" /\ a.ev.job \notin X => a \in Range(Rest)
        /\ \A e \in Upcoming' : e.kind = "worked" /\ e.job \notin X => e \in Evs(Rest)
    BY <1>1, <1>5, <1>15, <1>24, <2>1, <2>3, <2>4, <2>5
  <2>7. \A a \in Range(agenda') : a.ev.kind = "finish" /\ a.ev.job \in X =>
            /\ jobs'[a.ev.job].stage = "development" => a.due <= left'[a.ev.job]
            /\ jobs'[a.ev.job].stage = "qa_testing" => left'[a.ev.job] = 0
    <3>1. left[x] \in Nat /\ left'[x] = left[x]
      BY <1>1, <1>5, <1>11, <1>24
    <3>2. QED
      BY <1>1, <1>5, <2>1, <2>3, <3>1
  <2>8. \A e \in Upcoming' : e.kind = "worked" /\ e.job \in X =>
            /\ jobs'[e.job].stage = "development" /\ e.how = "returned" => left'[e.job] = 0
            /\ jobs'[e.job].stage = "qa_testing" =>
                  process'[jobs'[e.job].resource].failed \/ left'[e.job] = 0
            /\ jobs'[e.job].stage # "development" => e.how = "returned"
    BY <1>5, <1>18, <2>1, <2>4
  <2>9. QED
    BY <2>6, <2>7, <2>8, FlowFrame
<1>26. FlowInv' /\ \A t \in Tasks : Moves(t)
  <2>1. LeftStays(b)
    BY <1>5, <1>24 DEF LeftStays
  <2>2. QED
    BY <1>25, <2>1, OperatingFlow
<1>27. TimerInv'
  <2>1. kind \notin Delayed
    BY <1>7, <1>8 DEF Delayed
  <2>2. \A a \in Range(agenda') : a.ev.kind = "timer" => a \in Range(Rest)
    BY <1>15
  <2>3. QED
    BY <2>1, <2>2, TimerLate
<1>28. TypeInv'
  <2>1. raised' \subseteq {"runaway", "interrupts terminated process"}
    BY <1>4
  <2>2. suspended' \in [Workers -> Seq(SignalRecords)]
    BY <1>4, <1>11 DEF SignalRecords
  <2>3. QED
    BY <1>15, <1>23, <1>24, <2>1, <2>2, OperatingTypes
<1>29. QED
  BY <1>15, <1>17, <1>20, <1>21, <1>23, <1>26, <1>27, <1>28 DEF KInv, LiveInv

(* However operate begins, the invariant is kept.                          *)
LEMMA OperatingKeeps ==
  ASSUME KInv, NEW kind, Happens(kind), NEW x, NEW s, NEW b, NEW r, NEW job,
         Operating(x, s, b, r, job),
         OperateIdle(x, job, r, Rest) \/ OperateInterrupts(x, job, r, Rest)
             \/ OperateWaits(x, job, r, Rest)
  PROVE  KInv' /\ \A t \in Tasks : Moves(t)
BY IdleKeeps, InterruptRaises, InterruptKeeps, WaitsKeeps

-----------------------------------------------------------------------------
(* The executor's strategies: next available, owner, random.               *)

(* The ways operate begins, spelled out.                                   *)
LEMMA OperateSets ==
  ASSUME NEW x, NEW job, NEW r, Operate(x, job, r, Rest)
  PROVE  /\ \E at \in {"working", "paused"} :
               jobs' = [jobs EXCEPT ![x] = [job EXCEPT !.resource = r, !.at = at]]
         /\ OperateIdle(x, job, r, Rest) \/ OperateInterrupts(x, job, r, Rest)
               \/ OperateWaits(x, job, r, Rest)
         /\ BatchStarted(job.batch, job.stage)
         /\ UNCHANGED <<setting, rework, failures, items, alarm>>
<1>1. \/ jobs' = [jobs EXCEPT ![x] = [job EXCEPT !.resource = r, !.at = "working"]]
      \/ jobs' = [jobs EXCEPT ![x] = [job EXCEPT !.resource = r, !.at = "paused"]]
  BY DEF Operate, OperateIdle, OperateInterrupts, OperateWaits
<1>2. QED
  BY <1>1 DEF Operate

(* A tester that is assigned is idle.                                      *)
LEMMA AssignedIdle ==
  ASSUME KInv, Live, NEW x \in Tasks, NEW r \in Range(Team["qa_testing"]), AssignedTo(x, r)
  PROVE  ~Busy(r)
<1>1. SUFFICES ASSUME Busy(r)  PROVE FALSE
  OBVIOUS
<1>2. "qa_testing" \in WorkStates /\ r \in Workers
  BY Strings, TaskFacts
<1>3. ProcessInv /\ PoolInv /\ process \in [Workers -> Processes]
  BY TypesNow DEF KInv, LiveInv
<1>4. PICK y : y = process[r].of
  OBVIOUS
<1>5. y # None /\ jobs[y].at = "working" /\ jobs[y].resource = r
  BY <1>1, <1>3, <1>4 DEF ProcessInv
<1>6. y \in Tasks
  BY <1>2, <1>3, <1>4, <1>5 DEF Processes
<1>7. jobs[y].stage = "qa_testing"
  <2>1. PICK u : u = jobs[y].stage
    OBVIOUS
  <2>2. u \in WorkStates /\ r \in Range(Team[u])
    BY <1>5, <1>6, <2>1, JobFacts
  <2>3. QED
    BY <1>2, <2>1, <2>2, TeamFacts
<1>8. HoldsPooled(y, r)
  <2>1. jobs[y].pooled
    BY <1>3, <1>5, <1>6, <1>7 DEF ProcessInv
  <2>2. QED
    BY <1>5, <2>1 DEF HoldsPooled
<1>9. PICK n \in 1..Len(Team["qa_testing"]) : Team["qa_testing"][n] = r
  BY <1>2, TeamFacts
<1>10. PoolUse("qa_testing", n, r)
  BY <1>2, <1>3, <1>9 DEF PoolInv
<1>11. QED
  BY <1>6, <1>8, <1>10 DEF PoolUse

(* The types of the pools.                                                 *)
LEMMA PoolNow ==
  ASSUME KInv
  PROVE  /\ hired \in [WorkStates -> Nat]
         /\ \A u \in WorkStates : hired[u] <= hired[u] /\ hired[u] <= Len(Team[u])
         /\ owners \in [WorkStates -> [Tasks -> Workers \cup {None}]]
         /\ \A u \in WorkStates, t \in Tasks : owners[u][t] \in Range(Team[u]) \cup {None}
<1>1. PoolInv
  BY DEF KInv
<1>2. hired \in [WorkStates -> Nat]
  BY TypesNow
<1>3. \A u \in WorkStates : hired[u] <= hired[u] /\ hired[u] <= Len(Team[u])
  BY <1>1, <1>2 DEF PoolInv
<1>4. QED
  BY <1>2, <1>3, TypesNow

(* A waiting job is given its resource.                                    *)
LEMMA ResourceAssignedKeeps ==
  ASSUME KInv, ResourceAssigned
  PROVE  KInv' /\ \A t \in Tasks : Moves(t)
<1>1. Happens("assigned")
  BY DEF ResourceAssigned
<1>2. PICK x : x = Occurring.job
  OBVIOUS
<1>3. PICK r : r = Occurring.resource
  OBVIOUS
<1>4. PICK job : job = jobs[x]
  OBVIOUS
<1>5. PICK s : s = job.stage
  OBVIOUS
<1>6. PICK b : b = job.batch
  OBVIOUS
<1>7. /\ Operate(x, job, r, Rest)
      /\ owners' = [owners EXCEPT ![s] = [t \in Tasks |-> IF t \in Range(b) THEN r ELSE @[t]]]
      /\ UNCHANGED <<phase, arrivals, operatorVars, hired, pool, waiters>>
  BY <1>2, <1>3, <1>4, <1>5, <1>6 DEF ResourceAssigned
<1>8. /\ Starts(x, s, b) /\ jobs[x].at = "waiting" /\ jobs[x].pooled
      /\ ~IsSupport(x) /\ r \in Range(Team[s]) /\ r \in Workers /\ AssignedTo(x, r)
  BY <1>1, <1>2, <1>3, <1>4, <1>5, <1>6, AssignedFacts
<1>9. x \in Tasks /\ s \in WorkStates
  BY <1>8 DEF Starts
<1>10. Live /\ Occurring.kind = "assigned"
  BY <1>1, Begin
<1>11. job \in JobRecords /\ job.todo = b /\ job.pooled
  BY <1>4, <1>6, <1>8, <1>9, <1>10, JobFacts
<1>12. s = "qa_testing" => ~Busy(r)
  BY <1>8, <1>9, <1>10, AssignedIdle
<1>13. /\ \E at \in {"working", "paused"} :
             jobs' = [jobs EXCEPT ![x] = [job EXCEPT !.resource = r, !.at = at]]
       /\ OperateIdle(x, job, r, Rest) \/ OperateInterrupts(x, job, r, Rest)
             \/ OperateWaits(x, job, r, Rest)
       /\ BatchStarted(b, s)
       /\ UNCHANGED <<setting, rework, failures, items, alarm>>
  <2>1. Operate(x, job, r, Rest)
    BY <1>7
  <2>2. /\ \E at \in {"working", "paused"} :
               jobs' = [jobs EXCEPT ![x] = [job EXCEPT !.resource = r, !.at = at]]
        /\ OperateIdle(x, job, r, Rest) \/ OperateInterrupts(x, job, r, Rest)
               \/ OperateWaits(x, job, r, Rest)
        /\ BatchStarted(job.batch, job.stage)
        /\ UNCHANGED <<setting, rework, failures, items, alarm>>
    BY <2>1, OperateSets
  <2>3. b = job.batch /\ s = job.stage
    BY <1>5, <1>6
  <2>4. QED
    BY <2>2, <2>3
<1>14. /\ hired' = hired /\ pool' = pool /\ waiters' = waiters /\ phase' = phase
       /\ arrivals' = arrivals /\ queue' = queue /\ listening' = listening /\ awaiting' = awaiting
  BY <1>7 DEF operatorVars
<1>15. /\ owners' \in [WorkStates -> [Tasks -> Workers \cup {None}]]
       /\ \A u \in WorkStates, t \in Tasks : owners'[u][t] \in Range(Team[u]) \cup {None}
  <2>1. /\ owners \in [WorkStates -> [Tasks -> Workers \cup {None}]]
        /\ \A u \in WorkStates, t \in Tasks : owners[u][t] \in Range(Team[u]) \cup {None}
    BY PoolNow
  <2>2. PICK f : f = [t \in Tasks |-> IF t \in Range(b) THEN r ELSE owners[s][t]]
    OBVIOUS
  <2>3. owners' = [owners EXCEPT ![s] = f]
    BY <1>7, <1>9, <2>1, <2>2
  <2>4. f \in [Tasks -> Workers \cup {None}]
    BY <1>8, <1>9, <2>1, <2>2
  <2>5. \A t \in Tasks : f[t] \in Range(Team[s]) \cup {None}
    BY <1>8, <1>9, <2>1, <2>2
  <2>6. QED
    BY <1>9, <2>1, <2>3, <2>4, <2>5
<1>16. Operating(x, s, b, r, job)
  <2>1. /\ hired' \in [WorkStates -> Nat]
        /\ \A u \in WorkStates : hired[u] <= hired'[u] /\ hired'[u] <= Len(Team[u])
    BY <1>14, PoolNow
  <2>2. QED
    BY <1>5, <1>6, <1>8, <1>10, <1>11, <1>12, <1>13, <1>14, <1>15, <2>1 DEF Operating
<1>17. PICK kind : kind = "assigned"
  OBVIOUS
<1>18. Happens(kind)
  BY <1>1, <1>17
<1>19. QED
  BY <1>13, <1>16, <1>18, OperatingKeeps

(* A job whose resource does not come from the pool.                       *)
UnpooledJob(job, s, b, r) ==
    /\ job \in JobRecords /\ job.stage = s /\ job.batch = b /\ job.todo = b
    /\ job.pooled = FALSE

(* A resource that the pool does not give operates on a batch.             *)
LEMMA WithoutPool ==
  ASSUME KInv, Happens("trigger"), NEW x, NEW s, NEW b, NEW r, NEW job,
         Starts(x, s, b), r \in Range(Team[s]), s # "qa_testing",
         UnpooledJob(job, s, b, r), Operate(x, job, r, Rest),
         awaiting' = awaiting \cup {s},
         hired' = hired \/ hired' = [hired EXCEPT ![s] = Len(Team[s])],
         UNCHANGED <<phase, arrivals, queue, listening, pool, waiters, owners>>
  PROVE  KInv' /\ \A t \in Tasks : Moves(t)
<1>2. s \in WorkStates /\ b \in Seq(Tasks)
  BY DEF Starts
<1>3. r \in Workers
  BY <1>2, TaskFacts
<1>5. /\ job \in JobRecords /\ job.stage = s /\ job.batch = b /\ job.todo = b
      /\ job.pooled = FALSE
  BY DEF UnpooledJob
<1>6. Operate(x, job, r, Rest)
  OBVIOUS
<1>7. /\ \E at \in {"working", "paused"} :
             jobs' = [jobs EXCEPT ![x] = [job EXCEPT !.resource = r, !.at = at]]
      /\ OperateIdle(x, job, r, Rest) \/ OperateInterrupts(x, job, r, Rest)
             \/ OperateWaits(x, job, r, Rest)
      /\ BatchStarted(b, s)
      /\ UNCHANGED <<setting, rework, failures, items, alarm>>
  <2>1. Operate(x, job, r, Rest)
    BY <1>6
  <2>2. /\ \E at \in {"working", "paused"} :
               jobs' = [jobs EXCEPT ![x] = [job EXCEPT !.resource = r, !.at = at]]
        /\ OperateIdle(x, job, r, Rest) \/ OperateInterrupts(x, job, r, Rest)
               \/ OperateWaits(x, job, r, Rest)
        /\ BatchStarted(job.batch, job.stage)
        /\ UNCHANGED <<setting, rework, failures, items, alarm>>
    BY <2>1, OperateSets
  <2>3. b = job.batch /\ s = job.stage
    BY <1>5
  <2>4. QED
    BY <2>2, <2>3
<1>8. /\ hired' \in [WorkStates -> Nat]
      /\ \A u \in WorkStates : hired[u] <= hired'[u] /\ hired'[u] <= Len(Team[u])
  <2>1. /\ hired \in [WorkStates -> Nat] /\ Len(Team[s]) \in Nat
        /\ \A u \in WorkStates : hired[u] <= hired[u] /\ hired[u] <= Len(Team[u])
    BY <1>2, PoolNow, TeamFacts
  <2>2. CASE hired' = hired
    BY <2>1, <2>2
  <2>3. CASE hired' = [hired EXCEPT ![s] = Len(Team[s])]
    BY <1>2, <2>1, <2>3
  <2>4. QED
    BY <2>2, <2>3
<1>9. Occurring.kind = "trigger"
  BY Begin
<1>10. Operating(x, s, b, r, job)
  BY <1>5, <1>7, <1>8, <1>9, PoolNow DEF Operating
<1>11. PICK kind : kind = "trigger"
  OBVIOUS
<1>12. Happens(kind)
  BY <1>11
<1>13. QED
  BY <1>7, <1>10, <1>12, OperatingKeeps

(* The job joins those that wait; the first of them is given a resource if *)
(* there is one.                                                           *)
NextStep(x, s, b, hires, available, waiting, job) ==
    /\ Starts(x, s, b) /\ jobs[x].at = "none" /\ ~IsSupport(x)
    /\ Occurring.kind = "trigger"
    /\ hires \in BOOLEAN /\ (hires => pool[s] = <<>> /\ hired[s] < Len(Team[s]))
    /\ available = IF hires THEN <<Team[s][hired[s] + 1]>> ELSE pool[s]
    /\ waiting = Append(waiters[s], x)
    /\ job = Job(s, b, None, TRUE, "waiting")
    /\ jobs' = [jobs EXCEPT ![x] = job]
    /\ hired' = IF hires THEN [hired EXCEPT ![s] = @ + 1] ELSE hired
    /\ pool' = [pool EXCEPT ![s] = IF available # <<>> THEN Tail(available) ELSE <<>>]
    /\ waiters' = [waiters EXCEPT ![s] = IF available # <<>> THEN Tail(waiting) ELSE waiting]
    /\ agenda' = Schedule(Rest,
           (IF hires THEN <<Now(Returned(s))>> ELSE <<>>)
           \o (IF available # <<>>
               THEN <<Now(Assigned(Head(waiting), Head(available)))>> ELSE <<>>))
    /\ awaiting' = awaiting \cup {s}
    /\ UNCHANGED <<raised, items, history, alarm, setting, left, rework, process, suspended,
                   failures, owners, phase, arrivals, queue, listening>>

(* What is known of those that wait and of the resources there are.        *)
NextKnown(x, s, b, available, waiting, y, r) ==
    /\ x \in Tasks /\ s \in WorkStates /\ y \in Tasks
    /\ waiting \in Seq(Tasks) /\ Tail(waiting) \in Seq(Tasks)
    /\ IsInjective(waiting) /\ IsInjective(Tail(waiting))
    /\ Range(waiting) = Range(waiters[s]) \cup {x}
    /\ Range(waiting) = {y} \cup Range(Tail(waiting)) /\ y \notin Range(Tail(waiting))
    /\ y = x \/ (y \in Range(waiters[s]) /\ jobs[y].at = "waiting" /\ jobs[y].stage = s)
    /\ \A e \in Evs(Rest) : ~Concerns(e, y) /\ ~Concerns(e, x)
    /\ \A z \in Tasks : ~Concerns(Occurring, z)
    /\ jobs'[x] \in JobRecords /\ jobs'[x].at = "waiting" /\ jobs'[x].stage = s
    /\ jobs'[x].batch = b /\ jobs'[x].todo = b /\ jobs'[x].resource = None /\ jobs'[x].pooled = TRUE
    /\ jobs'[y].at = "waiting" /\ jobs'[y].stage = s
    /\ \A z \in Tasks : z # x => jobs'[z] = jobs[z]
    /\ jobs' \in [Tasks -> {NoJob} \cup JobRecords]
    /\ available # <<>> =>
          /\ r \in Range(Team[s]) /\ r \in Workers /\ Tail(available) \in Seq(Workers)
          /\ IsInjective(Tail(available)) /\ r \notin Range(Tail(available))
          /\ Range(Tail(available)) \subseteq Range(pool[s])

(* What a step that serves the next request finds.                         *)
LEMMA NextFacts ==
  ASSUME KInv, Happens("trigger"), NEW x, NEW s, NEW b, NEW hires, NEW available, NEW waiting,
         NEW job, NextStep(x, s, b, hires, available, waiting, job),
         NEW y, y = Head(waiting), NEW r, available # <<>> => r = Head(available)
  PROVE  NextKnown(x, s, b, available, waiting, y, r)
<1>1. /\ Starts(x, s, b) /\ jobs[x].at = "none" /\ Occurring.kind = "trigger"
      /\ hires \in BOOLEAN /\ (hires => pool[s] = <<>> /\ hired[s] < Len(Team[s]))
      /\ available = IF hires THEN <<Team[s][hired[s] + 1]>> ELSE pool[s]
      /\ waiting = Append(waiters[s], x)
      /\ job = Job(s, b, None, TRUE, "waiting")
      /\ jobs' = [jobs EXCEPT ![x] = job]
  BY DEF NextStep
<1>2. /\ x \in Tasks /\ s \in WorkStates /\ b \in Seq(Tasks)
      /\ \A e \in Evs(Rest) : ~Concerns(e, x)
      /\ \A q \in WorkStates : x \notin Range(waiters[q])
  BY <1>1 DEF Starts
<1>3. Live /\ WaitersInv /\ PoolInv
  BY Begin DEF LiveInv
<1>4. /\ waiters \in [WorkStates -> Seq(Tasks)] /\ pool \in [WorkStates -> Seq(Workers)]
      /\ hired \in [WorkStates -> Nat] /\ jobs \in [Tasks -> {NoJob} \cup JobRecords]
  BY TypesNow
<1>5. Upcoming = {Occurring} \cup Evs(Rest)
  BY BeginAgenda
<1>6. \A z \in Tasks : ~Concerns(Occurring, z)
  BY <1>1 DEF Concerns, JobKinds
<1>7. /\ waiting \in Seq(Tasks) /\ waiting # <<>>
      /\ Range(waiting) = Range(waiters[s]) \cup {x} /\ IsInjective(waiting)
      /\ Head(waiting) = x \/ Head(waiting) \in Range(waiters[s])
  <2>1. PICK q : q = waiters[s]
    OBVIOUS
  <2>2. q \in Seq(Tasks) /\ x \notin Range(q) /\ IsInjective(q)
    BY <1>2, <1>3, <1>4, <2>1 DEF WaitersInv
  <2>3. /\ Append(q, x) \in Seq(Tasks) /\ Append(q, x) # <<>>
        /\ Range(Append(q, x)) = Range(q) \cup {x} /\ IsInjective(Append(q, x))
        /\ Head(Append(q, x)) = IF q = <<>> THEN x ELSE Head(q)
    BY <1>2, <2>2, AppendFacts
  <2>4. q # <<>> => Head(q) \in Range(q)
    BY <2>2, TailFacts
  <2>5. QED
    BY <1>1, <2>1, <2>3, <2>4
<1>8. /\ y \in Tasks /\ Tail(waiting) \in Seq(Tasks)
      /\ Range(waiting) = {y} \cup Range(Tail(waiting))
      /\ IsInjective(Tail(waiting)) /\ y \notin Range(Tail(waiting))
  BY <1>7, TailFacts
<1>9. y = x \/ (y \in Range(waiters[s]) /\ jobs[y].at = "waiting" /\ jobs[y].stage = s
                   /\ \A e \in Upcoming : ~Concerns(e, y))
  BY <1>2, <1>3, <1>7 DEF WaitersInv, Engaged
<1>10. /\ job \in JobRecords /\ job.stage = s /\ job.batch = b /\ job.todo = b
       /\ job.resource = None /\ job.pooled = TRUE /\ job.at = "waiting"
  <2>1. PICK n : n = None
    OBVIOUS
  <2>2. PICK w : w = "waiting"
    OBVIOUS
  <2>3. PICK v : v = TRUE
    OBVIOUS
  <2>4. job = Job(s, b, n, v, w)
    BY <1>1, <2>1, <2>2, <2>3
  <2>5. n \in Workers \cup {None} /\ v \in BOOLEAN /\ w \in {"waiting", "working"}
    BY <2>1, <2>2, <2>3
  <2>6. s \in WorkStates /\ b \in Seq(Tasks)
    BY <1>2
  <2>7. /\ job \in JobRecords /\ job.stage = s /\ job.batch = b /\ job.todo = b
        /\ job.resource = n /\ job.pooled = v /\ job.at = w
    BY <2>4, <2>5, <2>6 DEF Job, JobRecords
  <2>8. QED
    BY <2>1, <2>2, <2>3, <2>7
<1>11. /\ jobs'[x] = job /\ \A z \in Tasks : z # x => jobs'[z] = jobs[z]
       /\ jobs' \in [Tasks -> {NoJob} \cup JobRecords]
  BY <1>1, <1>2, <1>4, <1>10
<1>12. jobs'[y].at = "waiting" /\ jobs'[y].stage = s
  BY <1>8, <1>9, <1>10, <1>11
<1>13. ASSUME available # <<>>
       PROVE  /\ r \in Range(Team[s]) /\ r \in Workers /\ Tail(available) \in Seq(Workers)
              /\ IsInjective(Tail(available)) /\ r \notin Range(Tail(available))
              /\ Range(Tail(available)) \subseteq Range(pool[s])
  <2>1. CASE hires
    <3>1. PICK n : n = hired[s] + 1
      OBVIOUS
    <3>2. n \in 1..Len(Team[s])
      BY <1>1, <1>2, <1>4, <2>1, <3>1, TeamFacts
    <3>3. PICK w : w = Team[s][n]
      OBVIOUS
    <3>4. w \in Range(Team[s]) /\ w \in Workers
      BY <1>2, <3>2, <3>3, TeamFacts
    <3>5. available = <<w>>
      BY <1>1, <2>1, <3>1, <3>3
    <3>6. Head(<<w>>) = w /\ Tail(<<w>>) = <<>>
      BY SingleFacts
    <3>7. Range(<<>>) = {} /\ IsInjective(<<>>) /\ <<>> \in Seq(Workers)
      BY EmptyFacts
    <3>8. r = w /\ Tail(available) = <<>>
      BY <1>13, <3>5, <3>6
    <3>9. QED
      BY <3>4, <3>7, <3>8
  <2>2. CASE ~hires
    <3>1. PICK q : q = pool[s]
      OBVIOUS
    <3>2. q = available /\ q \in Seq(Workers) /\ q # <<>>
      BY <1>1, <1>2, <1>4, <1>13, <2>2, <3>1
    <3>3. IsInjective(q) /\ Range(q) \subseteq Range(Team[s])
      BY <1>2, <1>3, <3>1 DEF PoolInv
    <3>4. /\ Head(q) \in Workers /\ Tail(q) \in Seq(Workers)
          /\ Range(q) = {Head(q)} \cup Range(Tail(q))
          /\ IsInjective(Tail(q)) /\ Head(q) \notin Range(Tail(q))
      BY <3>2, <3>3, TailFacts
    <3>5. r = Head(q)
      BY <1>13, <3>2
    <3>6. QED
      BY <3>1, <3>2, <3>3, <3>4, <3>5
  <2>3. QED
    BY <1>1, <2>1, <2>2
<1>14. \A e \in Evs(Rest) : ~Concerns(e, y) /\ ~Concerns(e, x)
  BY <1>2, <1>5, <1>9
<1>15. QED
  BY <1>2, <1>6, <1>7, <1>8, <1>9, <1>10, <1>11, <1>12, <1>13, <1>14 DEF NextKnown

(* What it does to the agenda.                                             *)
NextDoes(s, available, y, r) ==
    /\ agenda' \in Seq(Dated) /\ Orderly(setting.cadence, agenda)' /\ Sorted'
    /\ \A a, c \in Range(agenda') : Precedes(agenda', a, c) =>
             ~(a.ev.kind = "assigned" /\ a.ev = c.ev)
    /\ \A e \in Upcoming' : \/ e \in Evs(Rest)
                            \/ e = Returned(s)
                            \/ e = Assigned(y, r) /\ available # <<>>
    /\ \A e \in Evs(Rest) : e \in Upcoming'
    /\ \A a \in Range(agenda') : \/ a \in Range(Rest)
                                 \/ a.ev = Returned(s)
                                 \/ a.ev = Assigned(y, r) /\ available # <<>>
    /\ Returned(s).kind = "returned" /\ \A z : ~Concerns(Returned(s), z)
    /\ Assigned(y, r).kind = "assigned" /\ Assigned(y, r).job = y /\ Assigned(y, r).resource = r
    /\ \A z : Concerns(Assigned(y, r), z) => z = y

(* A step that serves the next request schedules that and nothing else.    *)
LEMMA NextAgenda ==
  ASSUME KInv, Happens("trigger"), NEW x, NEW s, NEW b, NEW hires, NEW available, NEW waiting,
         NEW job, NextStep(x, s, b, hires, available, waiting, job),
         NEW y, y = Head(waiting), NEW r, available # <<>> => r = Head(available),
         NextKnown(x, s, b, available, waiting, y, r)
  PROVE  NextDoes(s, available, y, r)
<1>1. /\ agenda' = Schedule(Rest,
            (IF hires THEN <<Now(Returned(s))>> ELSE <<>>)
            \o (IF available # <<>>
                THEN <<Now(Assigned(Head(waiting), Head(available)))>> ELSE <<>>))
      /\ hires \in BOOLEAN /\ setting' = setting
  BY DEF NextStep
<1>2. /\ s \in WorkStates /\ y \in Tasks
      /\ \A e \in Evs(Rest) : ~Concerns(e, y)
      /\ available # <<>> => r \in Workers
  BY DEF NextKnown
<1>3. PICK back : back = Returned(s)
  OBVIOUS
<1>4. PICK ev : ev = Assigned(y, r)
  OBVIOUS
<1>5. /\ back \in Events /\ back.kind = "returned" /\ \A z : ~Concerns(back, z)
  BY <1>2, <1>3, EventTypes DEF Returned, Concerns, JobKinds
<1>6. /\ ev.kind = "assigned" /\ ev.job = y /\ ev.resource = r
      /\ \A z : Concerns(ev, z) => z = y
  BY <1>4 DEF Assigned, Concerns, JobKinds
<1>7. available # <<>> => ev \in Events
  BY <1>2, <1>4, EventTypes
<1>8. PICK fs : fs = IF hires THEN <<Now(back)>> ELSE <<>>
  OBVIOUS
<1>9. PICK gs : gs = IF available # <<>> THEN <<Now(ev)>> ELSE <<>>
  OBVIOUS
<1>10. agenda' = Schedule(Rest, fs \o gs)
  BY <1>1, <1>3, <1>4, <1>8, <1>9
<1>11. /\ OneOrNone(fs) /\ Range(fs) \subseteq {Now(back)} /\ Evs(fs) \subseteq {back}
       /\ Now(back).ev = back
  BY <1>5, <1>8, NowFacts, OneOrNoneFacts
<1>12. /\ OneOrNone(gs)
       /\ \A a \in Range(gs) : a = Now(ev) /\ available # <<>>
       /\ \A e \in Evs(gs) : e = ev /\ available # <<>>
  <2>1. CASE available # <<>>
    BY <1>7, <1>9, <2>1, NowFacts
  <2>2. CASE available = <<>>
    BY <1>9, <2>2, OneOrNoneFacts
  <2>3. QED
    BY <2>1, <2>2
<1>13. \A e \in Range(fs) : Fits(setting.cadence, Evs(Rest), e)
  <2>1. \A f \in Evs(Rest) : ~Clash(f, back) /\ ~TooLate(setting.cadence, f, back)
    BY <1>5 DEF Clash, TooLate, OfWorkflow, OfGenerator
  <2>2. Fits(setting.cadence, Evs(Rest), Now(back))
    BY <1>5, <2>1, FitsNow
  <2>3. QED
    BY <1>11, <2>2
<1>14. \A e \in Range(gs) : Fits(setting.cadence, Evs(Rest) \cup Evs(fs), e)
  <2>1. SUFFICES ASSUME available # <<>>
                 PROVE  Fits(setting.cadence, Evs(Rest) \cup Evs(fs), Now(ev))
    BY <1>12
  <2>2. ASSUME NEW f \in Evs(Rest) \cup Evs(fs), Clash(f, ev)  PROVE FALSE
    <3>1. PICK t \in Tasks : Concerns(f, t) /\ Concerns(ev, t)
      BY <1>6, <2>2 DEF Clash, OfWorkflow, OfGenerator
    <3>2. QED
      BY <1>2, <1>5, <1>6, <1>11, <3>1
  <2>3. \A f : ~TooLate(setting.cadence, f, ev)
    BY <1>6 DEF TooLate
  <2>4. PICK E : E = Evs(Rest) \cup Evs(fs)
    OBVIOUS
  <2>5. \A f \in E : ~Clash(f, ev) /\ ~TooLate(setting.cadence, f, ev)
    BY <2>2, <2>3, <2>4
  <2>6. ev \in Events /\ ev.kind # "timer"
    BY <1>6, <1>7, <2>1
  <2>7. Fits(setting.cadence, E, Now(ev))
    BY <2>5, <2>6, FitsNow
  <2>8. QED
    BY <2>4, <2>7
<1>15. /\ agenda' \in Seq(Dated) /\ Orderly(setting.cadence, agenda)' /\ Sorted'
       /\ \A a, c \in Range(agenda') : Precedes(agenda', a, c) =>
                ~(a.ev.kind = "assigned" /\ a.ev = c.ev)
       /\ Upcoming' = Evs(Rest) \cup Evs(fs) \cup Evs(gs)
       /\ Range(agenda') = Range(Rest) \cup Range(fs) \cup Range(gs)
  <2>1. PICK kind : kind = "trigger"
    OBVIOUS
  <2>2. Happens(kind)
    BY <2>1
  <2>3. setting' = setting
    BY <1>1
  <2>4. QED
    BY <1>10, <1>11, <1>12, <1>13, <1>14, <2>2, <2>3, AgendaTwo
<1>16. available # <<>> => Now(ev).ev = ev
  BY <1>7, NowFacts
<1>17. QED
  BY <1>3, <1>4, <1>5, <1>6, <1>11, <1>12, <1>15, <1>16 DEF NextDoes

(* What is left of the pool, and the resource that is given away.          *)
NextFree(s, available, r) ==
    /\ hired' \in [WorkStates -> Nat]
    /\ \A u \in WorkStates : hired[u] <= hired'[u] /\ hired'[u] <= Len(Team[u])
    /\ available # <<>> =>
          /\ pool' = [pool EXCEPT ![s] = Tail(available)]
          /\ \A n \in 1..Len(Team[s]) : Team[s][n] = r => n <= hired'[s]
          /\ \A z \in Tasks : ~AssignedTo(z, r) /\ ~HoldsPooled(z, r)
    /\ available = <<>> => pool' = pool /\ hired' = hired

(* The resource it gives away is hired, and nobody has it.                 *)
LEMMA NextResource ==
  ASSUME KInv, Happens("trigger"), NEW x, NEW s, NEW b, NEW hires, NEW available, NEW waiting,
         NEW job, NextStep(x, s, b, hires, available, waiting, job),
         NEW r, available # <<>> => r = Head(available)
  PROVE  NextFree(s, available, r)
<1>1. /\ hires \in BOOLEAN /\ (hires => pool[s] = <<>> /\ hired[s] < Len(Team[s]))
      /\ available = IF hires THEN <<Team[s][hired[s] + 1]>> ELSE pool[s]
      /\ hired' = IF hires THEN [hired EXCEPT ![s] = @ + 1] ELSE hired
      /\ pool' = [pool EXCEPT ![s] = IF available # <<>> THEN Tail(available) ELSE <<>>]
      /\ Starts(x, s, b)
  BY DEF NextStep
<1>2. s \in WorkStates
  BY <1>1 DEF Starts
<1>3. /\ PoolInv /\ hired \in [WorkStates -> Nat] /\ pool \in [WorkStates -> Seq(Workers)]
      /\ \A u \in WorkStates : hired[u] <= hired[u] /\ hired[u] <= Len(Team[u])
  BY Begin, TypesNow, PoolNow
<1>4. /\ hired' \in [WorkStates -> Nat]
      /\ \A u \in WorkStates : hired[u] <= hired'[u] /\ hired'[u] <= Len(Team[u])
  <2>1. CASE hires
    <3>1. PICK h : h = hired[s] + 1
      OBVIOUS
    <3>2. h \in Nat /\ hired[s] <= h /\ h <= Len(Team[s])
      BY <1>1, <1>2, <1>3, <2>1, <3>1, TeamFacts
    <3>3. hired' = [hired EXCEPT ![s] = h]
      BY <1>1, <2>1, <3>1
    <3>4. QED
      BY <1>2, <1>3, <3>2, <3>3
  <2>2. CASE ~hires
    BY <1>1, <1>3, <2>2
  <2>3. QED
    BY <1>1, <2>1, <2>2
<1>5. ASSUME available # <<>>
      PROVE  /\ \A n \in 1..Len(Team[s]) : Team[s][n] = r => n <= hired'[s]
             /\ \A z \in Tasks : ~AssignedTo(z, r) /\ ~HoldsPooled(z, r)
  <2>1. \A n \in 1..Len(Team[s]) : PoolUse(s, n, Team[s][n])
    BY <1>2, <1>3 DEF PoolInv
  <2>2. CASE hires
    <3>1. PICK h : h = hired[s] + 1
      OBVIOUS
    <3>2. h \in 1..Len(Team[s]) /\ hired[s] \in Nat /\ h > hired[s]
      BY <1>1, <1>2, <1>3, <2>2, <3>1, TeamFacts
    <3>3. PICK w : w = Team[s][h]
      OBVIOUS
    <3>4. available = <<w>>
      BY <1>1, <2>2, <3>1, <3>3
    <3>5. Head(<<w>>) = w
      BY SingleFacts
    <3>6. r = w
      BY <1>5, <3>4, <3>5
    <3>7. hired'[s] = h
      BY <1>1, <1>2, <1>3, <2>2, <3>1
    <3>8. \A n \in 1..Len(Team[s]) : Team[s][n] = r => n = h
      BY <1>2, <3>2, <3>3, <3>6, TeamFacts
    <3>9. PoolUse(s, h, r)
      BY <2>1, <3>2, <3>3, <3>6
    <3>10. \A z \in Tasks : ~AssignedTo(z, r) /\ ~HoldsPooled(z, r)
      BY <3>2, <3>9 DEF PoolUse
    <3>11. QED
      BY <3>2, <3>7, <3>8, <3>10
  <2>3. CASE ~hires
    <3>1. PICK q : q = pool[s]
      OBVIOUS
    <3>2. q = available /\ q \in Seq(Workers) /\ q # <<>>
      BY <1>1, <1>2, <1>3, <1>5, <2>3, <3>1
    <3>3. r \in Range(q)
      BY <1>5, <3>2, TailFacts
    <3>4. r \in Range(pool[s])
      BY <3>1, <3>3
    <3>5. r \in Range(Team[s])
      BY <1>2, <1>3, <3>4 DEF PoolInv
    <3>6. ASSUME NEW n \in 1..Len(Team[s]), Team[s][n] = r
          PROVE  /\ ~(n > hired[s])
                 /\ \A z \in Tasks : ~AssignedTo(z, r) /\ ~HoldsPooled(z, r)
      <4>1. PoolUse(s, n, r)
        BY <2>1, <3>6
      <4>2. QED
        BY <3>4, <4>1 DEF PoolUse
    <3>7. hired'[s] = hired[s] /\ hired[s] \in Nat
      BY <1>1, <1>2, <1>3, <2>3
    <3>8. \A n \in 1..Len(Team[s]) : Team[s][n] = r => n <= hired'[s]
      BY <1>2, <3>6, <3>7, TeamFacts
    <3>9. \E n \in 1..Len(Team[s]) : Team[s][n] = r
      BY <1>2, <3>5, TeamFacts
    <3>10. QED
      BY <3>6, <3>8, <3>9
  <2>4. QED
    BY <1>1, <2>2, <2>3
<1>6. available = <<>> => pool' = pool /\ hired' = hired
  <2>1. PICK w : w = Team[s][hired[s] + 1]
    OBVIOUS
  <2>2. available = <<>> => ~hires
    BY <1>1, <2>1, SingleFacts
  <2>3. QED
    BY <1>1, <1>2, <1>3, <2>2
<1>7. QED
  BY <1>1, <1>4, <1>5, <1>6 DEF NextFree

(* So the pools stay right.                                                *)
LEMMA NextPool ==
  ASSUME KInv, Happens("trigger"), NEW x, NEW s, NEW b, NEW available, NEW waiting, NEW y, NEW r,
         NextKnown(x, s, b, available, waiting, y, r), NextDoes(s, available, y, r),
         NextFree(s, available, r)
  PROVE  PoolInv'
<1>1. PoolInv /\ hired \in [WorkStates -> Nat] /\ pool \in [WorkStates -> Seq(Workers)]
  BY Begin, TypesNow
<1>2. Upcoming = {Occurring} \cup Evs(Rest)
  BY BeginAgenda
<1>3. /\ x \in Tasks /\ s \in WorkStates /\ y \in Tasks
      /\ jobs'[x].resource = None /\ \A z \in Tasks : z # x => jobs'[z] = jobs[z]
      /\ available # <<>> => /\ r \in Range(Team[s]) /\ r \in Workers
                             /\ IsInjective(Tail(available)) /\ r \notin Range(Tail(available))
                             /\ Range(Tail(available)) \subseteq Range(pool[s])
  BY DEF NextKnown
<1>4. /\ \A e \in Upcoming' : \/ e \in Evs(Rest) \/ e = Returned(s)
                              \/ e = Assigned(y, r) /\ available # <<>>
      /\ Returned(s).kind = "returned"
      /\ Assigned(y, r).job = y /\ Assigned(y, r).resource = r
      /\ \A a, c \in Range(agenda') : Precedes(agenda', a, c) =>
               ~(a.ev.kind = "assigned" /\ a.ev = c.ev)
  BY DEF NextDoes
<1>5. /\ hired' \in [WorkStates -> Nat]
      /\ \A u \in WorkStates : hired[u] <= hired'[u] /\ hired'[u] <= Len(Team[u])
      /\ available # <<>> =>
            /\ pool' = [pool EXCEPT ![s] = Tail(available)]
            /\ \A n \in 1..Len(Team[s]) : Team[s][n] = r => n <= hired'[s]
            /\ \A z \in Tasks : ~AssignedTo(z, r) /\ ~HoldsPooled(z, r)
      /\ available = <<>> => pool' = pool /\ hired' = hired
  BY DEF NextFree
<1>6. \A z \in Tasks, q \in Workers : HoldsPooled(z, q)' => HoldsPooled(z, q)
  BY <1>3, TaskFacts DEF HoldsPooled
<1>7. \A z, q : AssignedTo(z, q)' =>
          AssignedTo(z, q) \/ (available # <<>> /\ z = y /\ q = r)
  BY <1>2, <1>4 DEF AssignedTo
<1>8. CASE available # <<>>
  <2>1. pool'[s] = Tail(available) /\ \A u \in WorkStates : u # s => pool'[u] = pool[u]
    BY <1>1, <1>3, <1>5, <1>8
  <2>2. \A u \in WorkStates : \A q : q \in Range(pool'[u]) => q \in Range(pool[u])
    BY <1>3, <1>8, <2>1
  <2>3. \A u \in WorkStates : /\ IsInjective(pool'[u]) /\ Range(pool'[u]) \subseteq Range(Team[u])
                              /\ hired'[u] <= Len(Team[u])
    <3>1. \A u \in WorkStates : IsInjective(pool[u]) /\ Range(pool[u]) \subseteq Range(Team[u])
      BY <1>1 DEF PoolInv
    <3>2. QED
      BY <1>3, <1>5, <1>8, <2>1, <2>2, <3>1
  <2>4. ASSUME NEW n \in 1..Len(Team[s]), Team[s][n] = r  PROVE PoolUse(s, n, r)'
    <3>1. r \notin Range(pool'[s]) /\ r \in Workers
      BY <1>3, <1>8, <2>1
    <3>2. \A z \in Tasks : ~HoldsPooled(z, r)' /\ (AssignedTo(z, r)' => z = y)
      BY <1>5, <1>6, <1>7, <1>8, <3>1
    <3>3. n <= hired'[s] /\ n \in Nat /\ hired'[s] \in Nat
      BY <1>3, <1>5, <1>8, <2>4, TeamFacts
    <3>4. ~(n > hired'[s])
      BY <3>3
    <3>5. QED
      BY <3>1, <3>2, <3>4 DEF PoolUse
  <2>5. \A z \in Tasks, q \in Workers : q # r =>
             /\ AssignedTo(z, q)' => AssignedTo(z, q)
             /\ HoldsPooled(z, q)' => HoldsPooled(z, q)
    BY <1>6, <1>7
  <2>6. /\ PoolInv /\ s \in WorkStates /\ r \in Range(Team[s])
        /\ hired \in [WorkStates -> Nat] /\ hired' \in [WorkStates -> Nat]
        /\ \A u \in WorkStates : hired[u] <= hired'[u]
        /\ \A u \in WorkStates : \A q : q # r /\ q \in Range(pool'[u]) => q \in Range(pool[u])
        /\ \A n \in 1..Len(Team[s]) : Team[s][n] = r => PoolUse(s, n, r)'
        /\ \A a, c \in Range(agenda') : Precedes(agenda', a, c) =>
               ~(a.ev.kind = "assigned" /\ a.ev = c.ev)
    BY <1>1, <1>3, <1>4, <1>5, <1>8, <2>2, <2>4
  <2>7. QED
    BY <2>3, <2>5, <2>6, PoolMove
<1>9. CASE available = <<>>
  <2>1. /\ PoolInv /\ hired' = hired /\ pool' = pool
        /\ \A z \in Tasks, q \in Workers : AssignedTo(z, q)' => AssignedTo(z, q)
        /\ \A z \in Tasks, q \in Workers : HoldsPooled(z, q)' => HoldsPooled(z, q)
        /\ \A a, c \in Range(agenda') : Precedes(agenda', a, c) =>
               ~(a.ev.kind = "assigned" /\ a.ev = c.ev)
    BY <1>1, <1>4, <1>5, <1>6, <1>7, <1>9
  <2>2. QED
    BY <2>1, PoolFrame
<1>10. QED
  BY <1>8, <1>9

(* What it leaves of jobs, events and places.                              *)
NextStarted(x, y) ==
    /\ SpotsInv' /\ SeqsInv' /\ JobsInv' /\ EventsInv' /\ PhaseInv' /\ AlarmInv'
    /\ \A z \in Tasks : z # x /\ z # y => (Engaged(z)' <=> Engaged(z))

(* It leaves them right.                                                   *)
LEMMA NextStarts ==
  ASSUME KInv, Happens("trigger"), NEW x, NEW s, NEW b, NEW hires, NEW available, NEW waiting,
         NEW job, NextStep(x, s, b, hires, available, waiting, job), NEW y, NEW r,
         NextKnown(x, s, b, available, waiting, y, r), NextDoes(s, available, y, r)
  PROVE  NextStarted(x, y)
<1>1. /\ Starts(x, s, b) /\ ~IsSupport(x) /\ Occurring.kind = "trigger"
      /\ history' = history /\ awaiting' = awaiting \cup {s}
      /\ UNCHANGED <<items, alarm, setting, phase, arrivals, queue, listening>>
  BY DEF NextStep
<1>2. /\ y \in Tasks /\ (y = x \/ jobs[y].at = "waiting")
      /\ jobs'[x] \in JobRecords /\ jobs'[x].at = "waiting" /\ jobs'[x].stage = s
      /\ jobs'[x].batch = b /\ jobs'[x].todo = b /\ jobs'[x].resource = None
      /\ jobs'[x].pooled = TRUE
      /\ jobs'[y].at = "waiting" /\ jobs'[y].stage = s
      /\ \A z \in Tasks : z # x => jobs'[z] = jobs[z]
      /\ available # <<>> => r \in Range(Team[s])
  BY DEF NextKnown
<1>3. PICK back : back = Returned(s)
  OBVIOUS
<1>4. PICK ev : ev = Assigned(y, r)
  OBVIOUS
<1>5. /\ agenda' \in Seq(Dated)
      /\ \A e \in Upcoming' : e \in Evs(Rest) \/ e = back \/ (e = ev /\ available # <<>>)
      /\ \A e \in Evs(Rest) : e \in Upcoming'
      /\ back.kind = "returned" /\ \A z : ~Concerns(back, z)
      /\ ev.kind = "assigned" /\ ev.job = y /\ ev.resource = r
      /\ \A z : Concerns(ev, z) => z = y
  BY <1>3, <1>4 DEF NextDoes
<1>6. EventOK(back)'
  BY <1>5 DEF EventOK
<1>7. available # <<>> => EventOK(ev)'
  <2>1. StateOf(ev) = "waiting"
    BY <1>5 DEF StateOf
  <2>2. QED
    BY <1>2, <1>5, <2>1 DEF EventOK
<1>8. \A e \in Upcoming' :
          \/ e \in Evs(Rest)
          \/ /\ e.kind \in {"assigned", "finish", "worked", "returned"} /\ EventOK(e)'
             /\ \A z \in Tasks : Concerns(e, z) => z = x \/ z = y
  BY <1>5, <1>6, <1>7
<1>9. StartStep(x, y, s, b)
  BY <1>1, <1>2, <1>5, <1>8 DEF StartStep
<1>10. PICK kind : kind = "trigger"
  OBVIOUS
<1>11. Happens(kind)
  BY <1>10
<1>12. QED
  BY <1>1, <1>9, <1>11, StartSpots, StartJobs, StartPhase DEF NextStarted

(* The request that is served waits no more.                               *)
LEMMA NextWaiters ==
  ASSUME KInv, Happens("trigger"), NEW x, NEW s, NEW b, NEW hires, NEW available, NEW waiting,
         NEW job, NextStep(x, s, b, hires, available, waiting, job), NEW y, NEW r,
         NextKnown(x, s, b, available, waiting, y, r), NextDoes(s, available, y, r),
         NextStarted(x, y)
  PROVE  WaitersInv' /\ waiters' \in [WorkStates -> Seq(Tasks)]
<1>1. /\ jobs[x].at = "none"
      /\ waiters' = [waiters EXCEPT ![s] = IF available # <<>> THEN Tail(waiting) ELSE waiting]
  BY DEF NextStep
<1>2. /\ x \in Tasks /\ s \in WorkStates /\ y \in Tasks
      /\ waiting \in Seq(Tasks) /\ Tail(waiting) \in Seq(Tasks)
      /\ IsInjective(waiting) /\ IsInjective(Tail(waiting))
      /\ Range(waiting) = Range(waiters[s]) \cup {x}
      /\ Range(waiting) = {y} \cup Range(Tail(waiting)) /\ y \notin Range(Tail(waiting))
      /\ \A e \in Evs(Rest) : ~Concerns(e, y) /\ ~Concerns(e, x)
      /\ jobs'[x].at = "waiting" /\ jobs'[x].stage = s
      /\ jobs'[y].at = "waiting" /\ jobs'[y].stage = s
      /\ \A z \in Tasks : z # x => jobs'[z] = jobs[z]
  BY DEF NextKnown
<1>3. /\ \A e \in Upcoming' : \/ e \in Evs(Rest) \/ e = Returned(s)
                              \/ e = Assigned(y, r) /\ available # <<>>
      /\ \A z : ~Concerns(Returned(s), z)
      /\ \A z : Concerns(Assigned(y, r), z) => z = y
  BY DEF NextDoes
<1>4. Upcoming = {Occurring} \cup Evs(Rest)
  BY BeginAgenda
<1>5. WaitersInv /\ waiters \in [WorkStates -> Seq(Tasks)]
  BY Begin, TypesNow DEF LiveInv
<1>6. /\ waiters' \in [WorkStates -> Seq(Tasks)]
      /\ waiters'[s] = IF available # <<>> THEN Tail(waiting) ELSE waiting
      /\ \A u \in WorkStates : u # s => waiters'[u] = waiters[u]
  BY <1>1, <1>2, <1>5
<1>7. ASSUME NEW z, \A e \in Evs(Rest) : ~Concerns(e, z), z # y \/ available = <<>>
      PROVE  ~Engaged(z)'
  BY <1>3, <1>7 DEF Engaged
<1>8. ASSUME NEW z, z \in Range(waiters[s])
      PROVE  /\ z \in Tasks /\ z # x /\ jobs'[z].at = "waiting" /\ jobs'[z].stage = s
             /\ \A e \in Evs(Rest) : ~Concerns(e, z)
  <2>1. z \in Tasks
    BY <1>2, <1>5, <1>8, RangeOfSeq
  <2>2. jobs[z].at = "waiting" /\ jobs[z].stage = s /\ ~Engaged(z)
    BY <1>2, <1>5, <1>8 DEF WaitersInv
  <2>3. QED
    BY <1>1, <1>2, <1>4, <2>1, <2>2 DEF Engaged
<1>9. \A z \in Range(waiting) : /\ jobs'[z].at = "waiting" /\ jobs'[z].stage = s
                                /\ \A e \in Evs(Rest) : ~Concerns(e, z)
  BY <1>2, <1>8
<1>10. /\ IsInjective(waiters'[s])
       /\ \A z \in Range(waiters'[s]) :
             jobs'[z].at = "waiting" /\ jobs'[z].stage = s /\ ~Engaged(z)'
  <2>1. CASE available # <<>>
    BY <1>2, <1>6, <1>7, <1>9, <2>1
  <2>2. CASE available = <<>>
    BY <1>2, <1>6, <1>7, <1>9, <2>2
  <2>3. QED
    BY <2>1, <2>2
<1>11. ASSUME NEW u \in WorkStates, u # s
       PROVE  /\ IsInjective(waiters'[u])
              /\ \A z \in Range(waiters'[u]) :
                    jobs'[z].at = "waiting" /\ jobs'[z].stage = u /\ ~Engaged(z)'
  <2>1. waiters'[u] = waiters[u] /\ IsInjective(waiters[u])
    BY <1>5, <1>6, <1>11 DEF WaitersInv
  <2>2. ASSUME NEW z, z \in Range(waiters[u])
        PROVE  jobs'[z].at = "waiting" /\ jobs'[z].stage = u /\ ~Engaged(z)'
    <3>1. z \in Tasks
      BY <1>5, <2>2, RangeOfSeq
    <3>2. jobs[z].at = "waiting" /\ jobs[z].stage = u /\ ~Engaged(z)
      BY <1>5, <2>2 DEF WaitersInv
    <3>3. z # x /\ z # y
      BY <1>1, <1>2, <1>11, <3>1, <3>2
    <3>4. \A e \in Evs(Rest) : ~Concerns(e, z)
      BY <1>4, <3>2 DEF Engaged
    <3>5. QED
      BY <1>2, <1>7, <3>1, <3>2, <3>3, <3>4
  <2>3. QED
    BY <2>1, <2>2
<1>12. WaitersInv'
  BY <1>10, <1>11 DEF WaitersInv
<1>13. QED
  BY <1>6, <1>12

(* No work starts in the step.                                             *)
LEMMA NextWork ==
  ASSUME KInv, Happens("trigger"), NEW x, NEW s, NEW b, NEW hires, NEW available, NEW waiting,
         NEW job, NextStep(x, s, b, hires, available, waiting, job), NEW y, NEW r,
         NextKnown(x, s, b, available, waiting, y, r), NextDoes(s, available, y, r),
         NextStarted(x, y)
  PROVE  SignalsInv' /\ ProcessInv' /\ FlowInv'
<1>1. /\ Starts(x, s, b) /\ jobs[x].at = "none" /\ Occurring.kind = "trigger"
      /\ history' = history /\ left' = left /\ rework' = rework /\ process' = process
      /\ suspended' = suspended
  BY DEF NextStep
<1>2. /\ x \in Tasks /\ s \in WorkStates /\ y \in Tasks
      /\ y = x \/ jobs[y].at = "waiting"
      /\ \A e \in Evs(Rest) : ~Concerns(e, y) /\ ~Concerns(e, x)
      /\ jobs'[x].at = "waiting" /\ jobs'[x].stage = s /\ jobs'[x].pooled = TRUE
      /\ \A z \in Tasks : z # x => jobs'[z] = jobs[z]
  BY DEF NextKnown
<1>3. /\ agenda' \in Seq(Dated)
      /\ \A e \in Upcoming' : \/ e \in Evs(Rest) \/ e = Returned(s) \/ e = Assigned(y, r)
      /\ \A e \in Evs(Rest) : e \in Upcoming'
      /\ \A a \in Range(agenda') : a \in Range(Rest) \/ a.ev = Returned(s) \/ a.ev = Assigned(y, r)
      /\ Returned(s).kind = "returned" /\ Assigned(y, r).kind = "assigned"
  BY DEF NextDoes
<1>4. Upcoming = {Occurring} \cup Evs(Rest)
  BY BeginAgenda
<1>5. SignalsInv /\ ProcessInv /\ FlowInv
  BY Begin DEF LiveInv
<1>6. /\ process \in [Workers -> Processes] /\ left \in [Tasks -> Nat]
      /\ suspended \in [Workers -> Seq([of : Tasks, on : BOOLEAN])]
  BY TypesNow
<1>7. PICK X : X = {x, y}
  OBVIOUS
<1>8. /\ X \subseteq Tasks
      /\ \A z \in Tasks : z \notin X => jobs'[z] = jobs[z] /\ (Engaged(z)' <=> Engaged(z))
  BY <1>2, <1>7 DEF NextStarted
<1>9. SignalsInv'
  <2>1. ASSUME NEW q \in Workers, NEW i \in DOMAIN suspended[q], suspended[q][i].of \in X
        PROVE  suspended[q][i].on
    <3>1. ~suspended[q][i].on => jobs[suspended[q][i].of].at = "paused"
      BY <1>5 DEF SignalsInv
    <3>2. QED
      BY <1>1, <1>2, <1>7, <2>1, <3>1
  <2>2. QED
    BY <1>1, <1>5, <1>6, <1>8, <2>1, SignalsFrame
<1>10. Finish(x).kind = "finish" /\ Finish(x).job = x
  BY DEF Finish
<1>11. ProcessInv'
  <2>1. \A e \in Upcoming : e.kind = "finish" => e \in Upcoming'
    BY <1>1, <1>3, <1>4
  <2>2. Finish(x) \notin Upcoming
    BY <1>1, <1>2, <1>4, <1>10 DEF Concerns, JobKinds
  <2>3. \A q \in Range(Team["qa_testing"]) : Busy(q) => process[q].of # x
    BY <1>1, <1>5 DEF ProcessInv
  <2>4. /\ ProcessInv /\ process' = process /\ process \in [Workers -> Processes]
        /\ \A z \in Tasks : z # x => jobs'[z] = jobs[z]
        /\ jobs'[x].at # "none" /\ jobs'[x].stage = "qa_testing" =>
            /\ jobs'[x].pooled /\ jobs'[x].at \in {"waiting", "working", "routing", "done"}
            /\ jobs'[x].at = "working" =>
                 process[jobs'[x].resource].of = x /\ Busy(jobs'[x].resource)
    BY <1>1, <1>2, <1>5, <1>6
  <2>5. QED
    BY <1>2, <2>1, <2>2, <2>3, <2>4, ProcessFrame
<1>12. \A e \in Evs(Rest) : e.kind \in {"finish", "worked"} => e.job # x /\ e.job # y
  BY <1>2 DEF Concerns, JobKinds
<1>13. FlowEvents'
  <2>1. \A a \in Range(agenda') : a.ev.kind = "finish" => a \in Range(Rest)
    BY <1>3
  <2>2. \A e \in Upcoming' : e.kind = "worked" => e \in Evs(Rest)
    BY <1>3
  <2>3. \A a \in Range(agenda') : a.ev.kind = "finish" => a.ev.job \notin X
    <3>1. \A a \in Range(Rest) : a.ev \in Evs(Rest)
      BY EvsRange
    <3>2. QED
      BY <1>7, <1>12, <2>1, <3>1
  <2>4. \A e \in Upcoming' : e.kind = "worked" => e.job \notin X
    BY <1>7, <1>12, <2>2
  <2>5. PICK kind : kind = "trigger"
    OBVIOUS
  <2>6. /\ Happens(kind) /\ X \subseteq Tasks
        /\ \A z \in Tasks : z \notin X => jobs'[z] = jobs[z]
        /\ \A z \in Tasks : z \notin X /\ jobs[z].at = "working" => left'[z] = left[z]
        /\ \A z \in Tasks : z \notin X /\ jobs[z].at = "working" /\ jobs[z].stage = "qa_testing" =>
             process'[jobs[z].resource].failed = process[jobs[z].resource].failed
        /\ left' \in [Tasks -> Nat] /\ agenda' \in Seq(Dated)
    BY <1>1, <1>3, <1>6, <1>8, <2>5
  <2>7. QED
    BY <2>1, <2>2, <2>3, <2>4, <2>6, FlowFrame
<1>14. QED
  BY <1>1, <1>5, <1>9, <1>11, <1>13, FlowStays

(* It keeps the types, and moves no task.                                  *)
LEMMA NextTypes ==
  ASSUME KInv, Happens("trigger"), NEW x, NEW s, NEW b, NEW hires, NEW available, NEW waiting,
         NEW job, NextStep(x, s, b, hires, available, waiting, job), NEW y, NEW r,
         NextKnown(x, s, b, available, waiting, y, r), NextDoes(s, available, y, r),
         NextFree(s, available, r), waiters' \in [WorkStates -> Seq(Tasks)]
  PROVE  TypeInv' /\ \A t \in Tasks : Moves(t)
<1>1. /\ awaiting' = awaiting \cup {s}
      /\ UNCHANGED <<raised, items, history, alarm, setting, left, rework, process, suspended,
                     failures, owners, phase, arrivals, queue, listening>>
  BY DEF NextStep
<1>2. /\ s \in WorkStates /\ jobs' \in [Tasks -> {NoJob} \cup JobRecords]
      /\ available # <<>> => Tail(available) \in Seq(Workers)
  BY DEF NextKnown
<1>3. agenda' \in Seq(Dated) /\ Sorted'
  BY DEF NextDoes
<1>4. /\ hired' \in [WorkStates -> Nat]
      /\ available # <<>> => pool' = [pool EXCEPT ![s] = Tail(available)]
      /\ available = <<>> => pool' = pool
  BY DEF NextFree
<1>5. pool' \in [WorkStates -> Seq(Workers)]
  BY <1>2, <1>4, TypesNow
<1>6. awaiting' \subseteq WorkStates
  BY <1>1, <1>2, TypesNow
<1>7. phase' \in {"seeding", "running", "stopped"}
  <2>1. PICK kind : kind = "trigger"
    OBVIOUS
  <2>2. phase # "over"
    BY <2>1, Begin
  <2>3. QED
    BY <1>1, <2>2, TypesNow
<1>8. TypeInv'
  BY <1>1, <1>2, <1>3, <1>4, <1>5, <1>6, <1>7, TypesNow, TypeStep
<1>9. \A t \in Tasks : Moves(t)
  BY <1>1 DEF Moves
<1>10. QED
  BY <1>8, <1>9

(* Together: serving the next request keeps the invariant.                 *)
LEMMA NextKeeps ==
  ASSUME KInv, Happens("trigger"), NEW x, NEW s, NEW b, NEW hires, NEW available, NEW waiting,
         NEW job, NextStep(x, s, b, hires, available, waiting, job)
  PROVE  KInv' /\ \A t \in Tasks : Moves(t)
<1>1. PICK y : y = Head(waiting)
  OBVIOUS
<1>2. PICK r : r = Head(available)
  OBVIOUS
<1>3. NextKnown(x, s, b, available, waiting, y, r)
  BY <1>1, <1>2, NextFacts
<1>4. NextDoes(s, available, y, r)
  BY <1>1, <1>2, <1>3, NextAgenda
<1>5. NextFree(s, available, r)
  BY <1>2, NextResource
<1>6. NextStarted(x, y)
  BY <1>3, <1>4, NextStarts
<1>7. WaitersInv' /\ waiters' \in [WorkStates -> Seq(Tasks)]
  BY <1>3, <1>4, <1>6, NextWaiters
<1>8. SignalsInv' /\ ProcessInv' /\ FlowInv'
  BY <1>3, <1>4, <1>6, NextWork
<1>9. TypeInv' /\ \A t \in Tasks : Moves(t)
  BY <1>3, <1>4, <1>5, <1>7, NextTypes
<1>10. PoolInv'
  BY <1>3, <1>4, <1>5, NextPool
<1>11. Orderly(setting.cadence, agenda)'
  BY <1>4 DEF NextDoes
<1>12. TimerInv'
  <2>1. PICK kind : kind = "trigger"
    OBVIOUS
  <2>2. Happens(kind) /\ kind \notin Delayed
    BY <2>1 DEF Delayed
  <2>3. \A a \in Range(agenda') : a.ev.kind = "timer" => a \in Range(Rest)
    BY <1>4 DEF NextDoes
  <2>4. QED
    BY <2>2, <2>3, TimerLate
<1>13. QED
  BY <1>6, <1>7, <1>8, <1>9, <1>10, <1>11, <1>12 DEF KInv, LiveInv, NextStarted

-----------------------------------------------------------------------------
(* The executor hears a trigger.                                           *)

(* A job of an owner or of a random resource.                              *)
LEMMA UnpooledFacts ==
  ASSUME NEW s \in WorkStates, NEW b \in Seq(Tasks), NEW r \in Workers
  PROVE  UnpooledJob(Job(s, b, r, FALSE, "working"), s, b, r)
BY DEF UnpooledJob, Job, JobRecords

(* Rework goes to its owner; only development has rework, so that it       *)
(* cannot meet a busy tester. An unknown owner raises.                     *)
LEMMA AssignOwnerKeeps ==
  ASSUME KInv, Happens("trigger"), NEW x, NEW s, NEW b, Starts(x, s, b), Head(b) = x,
         AssignOwner(s, b), awaiting' = awaiting \cup {s},
         UNCHANGED <<phase, arrivals, queue, listening>>
  PROVE  KInv' /\ \A t \in Tasks : Moves(t)
<1>1. x \in Tasks /\ s \in WorkStates /\ b \in Seq(Tasks) /\ x \in Range(b)
  BY DEF Starts
<1>2. PICK r : r = owners[s][x]
  OBVIOUS
<1>3. /\ x \in rework
      /\ IF r = None
         THEN /\ raised' = {"unknown owner"}
              /\ UNCHANGED <<storeVars, resourceVars, agenda>>
         ELSE Operate(x, Job(s, b, r, FALSE, "working"), r, Rest)
      /\ UNCHANGED poolVars
  <2>1. Strategy(b) = "owner" => x \in rework
    BY DEF Strategy
  <2>2. QED
    BY <1>2, <2>1 DEF AssignOwner
<1>4. /\ hired' = hired /\ pool' = pool /\ waiters' = waiters /\ owners' = owners
  BY <1>3 DEF poolVars
<1>5. PICK kind : kind = "trigger"
  OBVIOUS
<1>6. Happens(kind)
  BY <1>5
<1>7. /\ Live /\ LiveInv /\ PoolInv /\ phase # "over" /\ OwnersInv
  BY <1>6, Begin
<1>8. CASE r = None
  <2>1. /\ raised' = {"unknown owner"} /\ agenda' = agenda /\ items' = items /\ history' = history
        /\ alarm' = alarm /\ setting' = setting /\ left' = left /\ rework' = rework
        /\ jobs' = jobs /\ process' = process /\ suspended' = suspended /\ failures' = failures
    BY <1>3, <1>8 DEF storeVars, resourceVars
  <2>2. ~Live'
    BY <2>1 DEF Live
  <2>3. \A t \in Tasks : Moves(t)
    BY <2>1 DEF Moves
  <2>4. /\ PoolInv /\ hired' = hired /\ pool' = pool
        /\ \A z \in Tasks, q \in Workers : AssignedTo(z, q)' => AssignedTo(z, q)
        /\ \A z \in Tasks, q \in Workers : HoldsPooled(z, q)' => HoldsPooled(z, q)
        /\ \A a, c \in Range(agenda') : Precedes(agenda', a, c) =>
               ~(a.ev.kind = "assigned" /\ a.ev = c.ev)
    BY <1>4, <1>7, <2>1 DEF AssignedTo, HoldsPooled, Upcoming, PoolInv
  <2>5. PoolInv'
    BY <2>4, PoolFrame
  <2>6. awaiting' \subseteq WorkStates
    BY <1>1, TypesNow
  <2>7. Sorted'
    BY <2>1, TypesNow DEF Sorted
  <2>8. phase' \in {"seeding", "running", "stopped"}
    BY <1>7, TypesNow
  <2>9. raised' \subseteq {"put after alarm", "interrupts terminated process", "runaway",
                          "signal triggered twice", "value is not available", "unknown owner"}
    BY <2>1
  <2>10. TypeInv'
    BY <1>4, <2>1, <2>6, <2>7, <2>8, <2>9, TypesNow, TypeStep
  <2>11. QED
    BY <2>2, <2>3, <2>5, <2>10 DEF KInv
<1>9. CASE r # None
  <2>1. r \in Range(Team[s]) /\ r \in Workers
    BY <1>1, <1>2, <1>7, <1>9, TaskFacts DEF OwnersInv
  <2>2. PICK job : job = Job(s, b, r, FALSE, "working")
    OBVIOUS
  <2>3. UnpooledJob(job, s, b, r) /\ Operate(x, job, r, Rest)
    BY <1>1, <1>3, <1>9, <2>1, <2>2, UnpooledFacts
  <2>4. s # "qa_testing"
    <3>1. history[x] = Entry("start", Source(s))
      BY <1>1 DEF Starts
    <3>2. s = "qa_testing" => history[x].state = "dev_complete"
      BY <3>1, EntryFacts, Strings
    <3>3. QED
      BY <1>1, <1>3, <1>7, <3>2 DEF LiveInv, FlowInv
  <2>5. hired' = hired \/ hired' = [hired EXCEPT ![s] = Len(Team[s])]
    BY <1>4
  <2>6. QED
    BY <1>4, <2>1, <2>3, <2>4, <2>5, WithoutPool
<1>10. QED
  BY <1>8, <1>9

(* Support goes to any developer.                                          *)
LEMMA AssignRandomKeeps ==
  ASSUME KInv, Happens("trigger"), NEW x, NEW s, NEW b, Starts(x, s, b), Head(b) = x,
         AssignRandom(s, b), awaiting' = awaiting \cup {s},
         UNCHANGED <<phase, arrivals, queue, listening>>
  PROVE  KInv' /\ \A t \in Tasks : Moves(t)
<1>1. /\ x \in Tasks /\ s \in WorkStates /\ b \in Seq(Tasks) /\ (IsSupport(x) => s = "development")
  BY DEF Starts
<1>2. IsSupport(x)
  <2>1. Strategy(b) = "random" => IsSupport(x)
    BY DEF Strategy
  <2>2. QED
    BY <2>1 DEF AssignRandom
<1>3. PICK r \in Range(Team[s]) : Operate(x, Job(s, b, r, FALSE, "working"), r, Rest)
  BY DEF AssignRandom
<1>4. /\ hired' = hired \/ hired' = [hired EXCEPT ![s] = Len(Team[s])]
      /\ pool' = pool /\ waiters' = waiters /\ owners' = owners
  BY DEF AssignRandom
<1>5. PICK job : job = Job(s, b, r, FALSE, "working")
  OBVIOUS
<1>6. r \in Workers
  BY <1>1, TaskFacts
<1>7. UnpooledJob(job, s, b, r) /\ Operate(x, job, r, Rest)
  BY <1>1, <1>3, <1>5, <1>6, UnpooledFacts
<1>8. s # "qa_testing"
  BY <1>1, <1>2
<1>9. QED
  BY <1>4, <1>7, <1>8, WithoutPool

(* Otherwise the next available resource.                                  *)
LEMMA AssignNextKeeps ==
  ASSUME KInv, Happens("trigger"), NEW x, NEW s, NEW b, Starts(x, s, b), Head(b) = x,
         jobs[x].at = "none", AssignNext(s, b), awaiting' = awaiting \cup {s},
         UNCHANGED <<phase, arrivals, queue, listening>>
  PROVE  KInv' /\ \A t \in Tasks : Moves(t)
<1>1. PICK hires : hires = (pool[s] = <<>> /\ hired[s] < Len(Team[s]))
  OBVIOUS
<1>2. PICK available :
         available = IF hires THEN <<Team[s][hired[s] + 1]>> ELSE pool[s]
  OBVIOUS
<1>3. PICK waiting : waiting = Append(waiters[s], x)
  OBVIOUS
<1>4. PICK job : job = Job(s, b, None, TRUE, "waiting")
  OBVIOUS
<1>5. hires \in BOOLEAN /\ (hires => pool[s] = <<>> /\ hired[s] < Len(Team[s]))
  BY <1>1
<1>6. ~IsSupport(x) /\ Occurring.kind = "trigger"
  <2>1. Strategy(b) = "next_available" => ~IsSupport(x)
    BY DEF Strategy
  <2>2. QED
    BY <2>1, Begin DEF AssignNext
<1>7. /\ jobs' = [jobs EXCEPT ![x] = job]
      /\ hired' = IF hires THEN [hired EXCEPT ![s] = @ + 1] ELSE hired
      /\ pool' = [pool EXCEPT ![s] = IF available # <<>> THEN Tail(available) ELSE <<>>]
      /\ waiters' = [waiters EXCEPT ![s] = IF available # <<>> THEN Tail(waiting) ELSE waiting]
      /\ agenda' = Schedule(Rest,
           (IF hires THEN <<Now(Returned(s))>> ELSE <<>>)
           \o (IF available # <<>>
               THEN <<Now(Assigned(Head(waiting), Head(available)))>> ELSE <<>>))
      /\ UNCHANGED <<raised, storeVars, setting, left, rework, process, suspended,
                     failures, owners>>
  BY <1>1, <1>2, <1>3, <1>4 DEF AssignNext
<1>8. NextStep(x, s, b, hires, available, waiting, job)
  BY <1>2, <1>3, <1>4, <1>5, <1>6, <1>7 DEF NextStep, storeVars
<1>9. QED
  BY <1>8, NextKeeps

(* The executor starts a job for the batch.                                *)
LEMMA ExecutorStartsKeeps ==
  ASSUME KInv, ExecutorStarts
  PROVE  KInv' /\ \A t \in Tasks : Moves(t)
<1>1. PICK s : s = Occurring.stage
  OBVIOUS
<1>2. PICK b : b = Occurring.batch
  OBVIOUS
<1>3. PICK x : x = Head(b)
  OBVIOUS
<1>4. /\ Happens("trigger") /\ phase = "running"
      /\ awaiting' = awaiting \cup {s}
      /\ AssignOwner(s, b) \/ AssignRandom(s, b) \/ AssignNext(s, b)
      /\ UNCHANGED <<phase, arrivals, queue, listening>>
  BY <1>1, <1>2 DEF ExecutorStarts, Awaits
<1>5. Starts(x, s, b) /\ jobs[x].at = "none"
  BY <1>1, <1>2, <1>3, <1>4, TriggerFacts
<1>6. CASE AssignOwner(s, b)
  BY <1>3, <1>4, <1>5, <1>6, AssignOwnerKeeps
<1>7. CASE AssignRandom(s, b)
  BY <1>3, <1>4, <1>5, <1>7, AssignRandomKeeps
<1>8. CASE AssignNext(s, b)
  BY <1>3, <1>4, <1>5, <1>8, AssignNextKeeps
<1>9. QED
  BY <1>4, <1>6, <1>7, <1>8

-----------------------------------------------------------------------------
(* The initial state: the first task of the backlog is put.                *)

(* The first task is put and, if there is support, its first task is       *)
(* awaited.                                                                *)
InitAgenda(f, g, one) ==
    /\ f \in Dated /\ f.due = 0 /\ f.ev = Stored("pending", Backlog[1], "workflow")
    /\ g.ev = Arrival /\ g.due > 0 /\ (one => g \in Dated)
    /\ agenda = IF one THEN <<f, g>> ELSE <<f>>
    /\ one \in BOOLEAN /\ (one => Len(Requests) > 0)

(* The agenda of the initial state is of that form.                        *)
LEMMA InitAgendaFacts ==
  ASSUME Init
  PROVE  \E f, g, one : InitAgenda(f, g, one)
<1>1. /\ setting \in Settings
      /\ agenda = <<Now([kind |-> "stored", store |-> "pending",
                         task |-> Backlog[1], by |-> "workflow"])>>
                  \o (IF Requests = <<>> THEN <<>> ELSE <<After(setting.interval, Arrival)>>)
  BY DEF Init, ResourcesInit
<1>2. setting.interval \in Nat /\ setting.interval > 0
  BY <1>1, SettingFacts
<1>3. PICK f : f = Now(Stored("pending", Backlog[1], "workflow"))
  OBVIOUS
<1>4. PICK g : g = After(setting.interval, Arrival)
  OBVIOUS
<1>5. PICK one \in BOOLEAN : one <=> Requests # <<>>
  OBVIOUS
<1>6. Backlog[1] \in Tasks
  BY BacklogFacts, InjectiveFacts, TaskFacts
<1>7. Stored("pending", Backlog[1], "workflow") \in Events
  BY <1>6, Strings, EventTypes DEF Stored, Actors
<1>8. f \in Dated /\ f.due = 0 /\ f.ev = Stored("pending", Backlog[1], "workflow")
  BY <1>3, <1>7, NowFacts
<1>9. Arrival \in Events
  BY EventTypes
<1>10. g.ev = Arrival /\ g.due > 0 /\ g \in Dated
  BY <1>2, <1>4, <1>9, OneOrNoneFacts
<1>11. agenda = <<f>> \o (IF one THEN <<g>> ELSE <<>>)
  BY <1>1, <1>3, <1>4, <1>5 DEF Stored
<1>12. agenda = IF one THEN <<f, g>> ELSE <<f>>
  <2>2. <<f>> \in Seq(Dated)
    BY <1>8, SingleFacts
  <2>1. <<f>> \o <<g>> = <<f, g>>
    <3>1. Append(<<f>>, g) = <<f>> \o <<g>>
      BY <1>10, <2>2, AppendIsConcat
    <3>2. PICK q : q = <<f, g>>
      OBVIOUS
    <3>3. q \in Seq(Dated) /\ Len(q) = 2 /\ q[1] = f /\ q[2] = g
      BY <1>8, <1>10, <3>2
    <3>4. PICK p : p = <<f>>
      OBVIOUS
    <3>5. p \in Seq(Dated) /\ Len(p) = 1 /\ p[1] = f
      BY <2>2, <3>4
    <3>6. /\ Append(p, g) \in Seq(Dated) /\ Len(Append(p, g)) = 2
          /\ Append(p, g)[1] = f /\ Append(p, g)[2] = g
      <4>1. p \in Seq(Dated) /\ g \in Dated
        BY <1>10, <3>5
      <4>2. /\ Append(p, g) \in Seq(Dated) /\ Len(Append(p, g)) = Len(p) + 1
            /\ \A i \in 1..Len(p) : Append(p, g)[i] = p[i]
            /\ Append(p, g)[Len(p) + 1] = g
        BY <4>1, AppendProperties
      <4>3. Append(p, g)[2] = g /\ Append(p, g)[1] = f
        BY <3>5, <4>2
      <4>4. QED
        BY <3>5, <4>2, <4>3
    <3>7. \A i \in 1..Len(q) : q[i] = Append(p, g)[i]
      BY <3>3, <3>6
    <3>8. q = Append(p, g)
      BY <3>3, <3>6, <3>7, SeqEqual
    <3>9. QED
      BY <3>1, <3>2, <3>4, <3>8
  <2>3. <<f>> \o <<>> = <<f>>
    BY <2>2, ConcatEmptySeq
  <2>4. QED
    BY <1>5, <1>11, <2>1, <2>3
<1>13. one => Len(Requests) > 0
  <2>1. Requests \in Seq(Tasks) /\ Len(Requests) \in Nat
    BY BacklogFacts
  <2>2. Len(Requests) = 0 => Requests = <<>>
    BY <2>1, EmptySeq
  <2>3. QED
    BY <1>5, <2>1, <2>2
<1>14. InitAgenda(f, g, one)
  BY <1>5, <1>8, <1>10, <1>12, <1>13 DEF InitAgenda
<1>15. QED
  BY <1>14

(* Its events and their order.                                             *)
InitEvents(f, g) ==
    /\ agenda \in Seq(Dated) /\ Sorted /\ Orderly(setting.cadence, agenda)
    /\ \A a \in Range(agenda) : a = f \/ a = g
    /\ \A a, b : Precedes(agenda, a, b) => a = f /\ b = g
    /\ \A e \in Upcoming : e = f.ev \/ e = g.ev
    /\ f.ev \in Upcoming
    /\ g.ev \in Upcoming => Len(Requests) > 0
    /\ f.ev.kind = "stored" /\ f.ev.by = "workflow" /\ g.ev.kind = "arrival" /\ g.due > 0
    /\ \A t \in Tasks : ~Concerns(f.ev, t) /\ ~Concerns(g.ev, t)

(* They are so.                                                            *)
LEMMA InitEventsFacts ==
  ASSUME Init, NEW f, NEW g, NEW one, InitAgenda(f, g, one)
  PROVE  InitEvents(f, g)
<1>1. /\ f \in Dated /\ f.due = 0 /\ f.ev = Stored("pending", Backlog[1], "workflow")
      /\ g.ev = Arrival /\ g.due > 0 /\ (one => g \in Dated)
      /\ agenda = IF one THEN <<f, g>> ELSE <<f>>
      /\ one \in BOOLEAN /\ (one => Len(Requests) > 0)
  BY DEF InitAgenda
<1>2. /\ f.ev.kind = "stored" /\ f.ev.by = "workflow" /\ g.ev.kind = "arrival"
  BY <1>1 DEF Stored, Arrival
<1>3. \A t \in Tasks : ~Concerns(f.ev, t) /\ ~Concerns(g.ev, t)
  BY <1>2, TaskFacts DEF Concerns, JobKinds
<1>4. /\ DOMAIN agenda = IF one THEN {1, 2} ELSE {1}
      /\ agenda[1] = f /\ (one => agenda[2] = g)
      /\ agenda \in Seq(Dated)
  BY <1>1
<1>5. \A a \in Range(agenda) : a = f \/ (a = g /\ one)
  BY <1>1, <1>4 DEF Range
<1>6. \A a, b : Precedes(agenda, a, b) => a = f /\ b = g /\ one
  <2>1. ASSUME NEW i \in DOMAIN agenda, NEW j \in DOMAIN agenda, i < j
        PROVE  i = 1 /\ j = 2 /\ one
    BY <1>1, <1>4, <2>1
  <2>2. QED
    BY <1>1, <1>4, <2>1 DEF Precedes
<1>7. /\ \A e \in Upcoming : e = f.ev \/ (e = g.ev /\ one)
      /\ f.ev \in Upcoming
  BY <1>1, <1>4 DEF Upcoming, Evs
<1>8. g.ev \in Upcoming => Len(Requests) > 0
  BY <1>1, <1>2, <1>7
<1>9. Orderly(setting.cadence, agenda)
  <2>1. \A a \in Range(agenda) : Sane(a)
    BY <1>1, <1>2, <1>5 DEF Sane, Delayed
  <2>2. one => f.due <= g.due
    BY <1>1 DEF Dated
  <2>3. ~Clash(f.ev, g.ev)
    BY <1>2, <1>3 DEF Clash, OfWorkflow, OfGenerator
  <2>4. ~TooLate(setting.cadence, f.ev, g.ev)
    BY <1>2 DEF TooLate
  <2>5. QED
    BY <1>2, <1>6, <2>1, <2>2, <2>3, <2>4 DEF Orderly
<1>10. Sorted
  BY <1>4, <1>9, OrderlyAscends, SortedAscends
<1>11. QED
  BY <1>1, <1>2, <1>3, <1>4, <1>5, <1>6, <1>7, <1>8, <1>9, <1>10 DEF InitEvents

(* Stores and histories of the initial state.                              *)
InitStores(t0) ==
    /\ t0 = Backlog[1] /\ t0 \in Tasks /\ t0 \in DevTasks
    /\ items \in [Stores -> Seq(Tasks)] /\ history \in [Tasks -> Entries]
    /\ items["pending"] = <<t0>>
    /\ \A s \in Stores : s # "pending" => items[s] = <<>>
    /\ history[t0] = Entry("start", "pending")
    /\ \A t \in Tasks : t # t0 => history[t] = NoEntry
    /\ alarm = [limit |-> 0, signal |-> "off"]

(* They are so.                                                            *)
LEMMA InitStoresFacts ==
  ASSUME Init
  PROVE  \E t0 : InitStores(t0)
<1>1. PICK t0 : t0 = Backlog[1]
  OBVIOUS
<1>2. t0 \in DevTasks /\ t0 \in Tasks
  BY <1>1, BacklogFacts, InjectiveFacts, TaskFacts
<1>3. /\ items = [s \in Stores |-> IF s = "pending" THEN <<t0>> ELSE <<>>]
      /\ history = [t \in Tasks |-> IF t = t0 THEN Start(NoEntry, "pending") ELSE NoEntry]
      /\ alarm = [limit |-> 0, signal |-> "off"]
  BY <1>1 DEF Init, StoresInit
<1>4. /\ Start(NoEntry, "pending") = Entry("start", "pending")
      /\ Entry("start", "pending") \in Entries /\ NoEntry \in Entries
  BY EntryFacts, Strings DEF Open
<1>5. "pending" \in Stores
  BY Strings
<1>6. <<t0>> \in Seq(Tasks) /\ <<>> \in Seq(Tasks)
  BY <1>2, SingleFacts, EmptyFacts
<1>7. /\ items \in [Stores -> Seq(Tasks)] /\ items["pending"] = <<t0>>
      /\ \A s \in Stores : s # "pending" => items[s] = <<>>
  BY <1>3, <1>5, <1>6
<1>8. /\ history \in [Tasks -> Entries] /\ history[t0] = Entry("start", "pending")
      /\ \A t \in Tasks : t # t0 => history[t] = NoEntry
  BY <1>2, <1>3, <1>4
<1>9. QED
  BY <1>1, <1>2, <1>3, <1>7, <1>8 DEF InitStores

(* Types and pools.                                                        *)
LEMMA InitTypes ==
  ASSUME Init, NEW t0, InitStores(t0), NEW f, NEW g, InitEvents(f, g)
  PROVE  TypeInv /\ PoolInv
<1>1. /\ setting \in Settings /\ left = [t \in Tasks |-> Points(t)] /\ rework = {}
      /\ jobs = [t \in Tasks |-> NoJob]
      /\ process = [r \in Workers |-> [of |-> None, state |-> "none", failed |-> FALSE]]
      /\ suspended = [r \in Workers |-> <<>>] /\ failures = 0
      /\ raised = {} /\ phase = "seeding" /\ arrivals = 0
      /\ queue = [s \in WorkStates |-> <<>>] /\ listening = {} /\ awaiting = {}
      /\ hired = [s \in WorkStates |-> 0] /\ pool = [s \in WorkStates |-> <<>>]
      /\ waiters = [s \in WorkStates |-> <<>>]
      /\ owners = [s \in WorkStates |-> [t \in Tasks |-> None]]
  BY DEF Init, ResourcesInit
<1>2. \A S : <<>> \in Seq(S)
  BY EmptyFacts
<1>3. ResourcesTypeOK
  <2>1. left \in [Tasks -> Nat]
    BY <1>1, SettingFacts
  <2>2. 0 \in 0..MaxFailures
    BY ResourcesAssumption
  <2>3. jobs \in [Tasks -> {NoJob} \cup JobRecords]
    BY <1>1
  <2>4. process \in [Workers -> Processes]
    BY <1>1 DEF Processes
  <2>5. suspended \in [Workers -> Seq([of : Tasks, on : BOOLEAN])]
    BY <1>1, <1>2
  <2>6. QED
    BY <1>1, <2>1, <2>2, <2>3, <2>4, <2>5 DEF ResourcesTypeOK, JobRecords, Processes
<1>4. StoresTypeOK
  BY DEF StoresTypeOK, InitStores
<1>5. WorkflowTypeOK
  <2>1. /\ queue \in [WorkStates -> Seq(Tasks)] /\ waiters \in [WorkStates -> Seq(Tasks)]
        /\ pool \in [WorkStates -> Seq(Workers)]
    BY <1>1, <1>2
  <2>2. 0 \in 0..Len(Requests)
    BY BacklogFacts
  <2>3. Sorted
    BY DEF InitEvents
  <2>4. QED
    BY <1>1, <1>3, <1>4, <2>1, <2>2, <2>3 DEF WorkflowTypeOK
<1>6. \A t \in Tasks : history[t] # Invalid
  <2>1. Entry("start", "pending") # Invalid
    BY EntryFacts DEF Open
  <2>2. NoEntry # Invalid
    BY DEF NoEntry, Invalid, Entry
  <2>3. QED
    BY <2>1, <2>2 DEF InitStores
<1>7. TypeInv
  BY <1>1, <1>5, <1>6 DEF TypeInv, InitEvents, OwnersInv
<1>8. \A x, r : ~AssignedTo(x, r)
  BY DEF AssignedTo, InitEvents
<1>9. \A x \in Tasks : \A r : ~HoldsPooled(x, r)
  BY <1>1 DEF HoldsPooled, NoJob
<1>10. ASSUME NEW s \in WorkStates
       PROVE  /\ IsInjective(pool[s]) /\ Range(pool[s]) = {} /\ hired[s] <= Len(Team[s])
              /\ \A n \in 1..Len(Team[s]) : PoolUse(s, n, Team[s][n])
  <2>1. pool[s] = <<>> /\ hired[s] = 0
    BY <1>1
  <2>2. Range(pool[s]) = {} /\ IsInjective(pool[s])
    BY <2>1, EmptyFacts
  <2>3. hired[s] <= Len(Team[s])
    BY <2>1, TeamFacts
  <2>4. \A n, r : PoolUse(s, n, r)
    BY <1>8, <1>9, <2>2 DEF PoolUse
  <2>5. QED
    BY <2>2, <2>3, <2>4
<1>11. \A a, b \in Range(agenda) : Precedes(agenda, a, b) =>
           ~(a.ev.kind = "assigned" /\ a.ev = b.ev)
  BY DEF InitEvents
<1>12. PoolInv
  BY <1>10, <1>11 DEF PoolInv
<1>13. QED
  BY <1>7, <1>12

(* Places.                                                                 *)
LEMMA InitSpots ==
  ASSUME Init, NEW t0, InitStores(t0), NEW f, NEW g, InitEvents(f, g)
  PROVE  SpotsInv /\ SeqsInv
<1>1. /\ jobs = [t \in Tasks |-> NoJob] /\ queue = [s \in WorkStates |-> <<>>]
  BY DEF Init, ResourcesInit
<1>2. /\ t0 \in Tasks /\ items["pending"] = <<t0>>
      /\ \A s \in Stores : s # "pending" => items[s] = <<>>
      /\ history[t0] = Entry("start", "pending")
      /\ \A t \in Tasks : t # t0 => history[t] = NoEntry
  BY DEF InitStores
<1>3. \A e \in Upcoming : e.kind \notin {"got", "trigger"}
  BY DEF InitEvents
<1>4. /\ Range(<<>>) = {} /\ IsInjective(<<>>) /\ Range(<<t0>>) = {t0} /\ IsInjective(<<t0>>)
  BY EmptyFacts, SingleFacts
<1>5. \A x \in Tasks : Holds(x) = {}
  BY <1>1 DEF Holds, NoJob
<1>6. ASSUME NEW k \in Spots, NEW p \in Wheres, NEW t \in Tasks, In(k, p, t)
      PROVE  k = "store" /\ p = "pending" /\ t = t0
  <2>1. k = "store" => p \in Stores /\ t \in Range(items[p])
    BY <1>6 DEF In
  <2>2. k = "store"
    BY <1>1, <1>3, <1>4, <1>5, <1>6 DEF In
  <2>3. QED
    BY <1>2, <1>4, <2>1, <2>2
<1>7. In("store", "pending", t0) /\ "store" \in Spots /\ "pending" \in Wheres
  BY <1>2, <1>4, Strings DEF In, Spots, Wheres
<1>8. Written("store", "pending") = Entry("start", "pending")
  BY EntryFacts, Strings DEF Open
<1>9. SpotsInv
  BY <1>2, <1>6, <1>7, <1>8 DEF SpotsInv
<1>10. SeqsInv
  BY <1>1, <1>2, <1>3, <1>4 DEF SeqsInv
<1>11. QED
  BY <1>9, <1>10

(* Jobs, resources and remaining work.                                     *)
LEMMA InitWork ==
  ASSUME Init, NEW t0, InitStores(t0), NEW f, NEW g, InitEvents(f, g)
  PROVE  /\ JobsInv /\ EventsInv /\ WaitersInv /\ SignalsInv /\ ProcessInv /\ TimerInv
         /\ AlarmInv /\ FlowInv
<1>1. /\ jobs = [t \in Tasks |-> NoJob] /\ rework = {}
      /\ process = [r \in Workers |-> [of |-> None, state |-> "none", failed |-> FALSE]]
      /\ suspended = [r \in Workers |-> <<>>]
      /\ waiters = [s \in WorkStates |-> <<>>]
  BY DEF Init, ResourcesInit
<1>2. \A x \in Tasks : jobs[x].at = "none"
  BY <1>1 DEF NoJob
<1>3. /\ \A e \in Upcoming : e.kind \in {"stored", "arrival"} /\ \A x \in Tasks : ~Concerns(e, x)
      /\ \A e \in Upcoming : e.kind = "stored" => e.by = "workflow"
      /\ \A a \in Range(agenda) : a.ev.kind \in {"stored", "arrival"}
  BY DEF InitEvents
<1>4. JobsInv
  BY <1>2 DEF JobsInv, JobOK
<1>5. EventsInv
  BY <1>3, TaskFacts DEF EventsInv
<1>6. WaitersInv
  <2>1. Range(<<>>) = {} /\ IsInjective(<<>>)
    BY EmptyFacts
  <2>2. QED
    BY <1>1, <2>1 DEF WaitersInv
<1>7. SignalsInv
  BY <1>1 DEF SignalsInv
<1>8. ProcessInv
  <2>1. \A r \in Workers : process[r].state = "none" /\ ~process[r].failed
    BY <1>1
  <2>2. /\ \A r \in Range(Team["development"]) : r \in Workers
        /\ \A r \in Range(Team["qa_testing"]) : r \in Workers
    BY TaskFacts, Strings
  <2>3. QED
    BY <1>2, <2>1, <2>2 DEF ProcessInv, Busy
<1>9. TimerInv
  BY <1>2 DEF TimerInv
<1>10. /\ \A t \in Tasks : history[t].state \in {"none", "pending"}
       /\ \A t \in Tasks : IsSupport(t) => history[t].state = "none"
  <2>1. Entry("start", "pending").state = "pending" /\ NoEntry.state = "none"
    BY EntryFacts
  <2>2. QED
    BY <2>1 DEF InitStores, IsSupport
<1>11. AlarmInv
  <2>1. alarm.signal = "off" /\ items["delivery"] = <<>>
    BY Strings DEF InitStores
  <2>2. QED
    BY <1>10, <2>1 DEF AlarmInv
<1>12. FlowInv
  BY <1>1, <1>3, <1>10 DEF FlowInv
<1>13. QED
  BY <1>4, <1>5, <1>6, <1>7, <1>8, <1>9, <1>11, <1>12

(* Phase.                                                                  *)
LEMMA InitPhase ==
  ASSUME Init, NEW t0, InitStores(t0), NEW f, NEW g, InitEvents(f, g)
  PROVE  PhaseInv
<1>1. /\ phase = "seeding" /\ arrivals = 0 /\ listening = {} /\ awaiting = {}
      /\ setting \in Settings
  BY DEF Init, ResourcesInit
<1>2. /\ t0 = Backlog[1] /\ t0 \in Tasks /\ t0 \in DevTasks /\ items["pending"] = <<t0>>
      /\ \A t \in Tasks : t # t0 => history[t] = NoEntry
      /\ alarm.signal = "off"
  BY DEF InitStores
<1>3. /\ \A e \in Upcoming : e = f.ev \/ e = g.ev
      /\ f.ev \in Upcoming /\ (g.ev \in Upcoming => Len(Requests) > 0)
      /\ f.ev.kind = "stored" /\ f.ev.by = "workflow" /\ g.ev.kind = "arrival" /\ g.due > 0
      /\ \A a \in Range(agenda) : a = f \/ a = g
  BY DEF InitEvents
<1>4. Seeding
  <2>1. PICK q : q = <<t0>>
    OBVIOUS
  <2>2. Len(q) = 1 /\ q[1] = Backlog[1] /\ t0 \in Range(q)
    BY <1>2, <2>1, SingleFacts
  <2>3. 1 \in 1..Len(Backlog)
    BY BacklogFacts
  <2>4. LET k == Len(items["pending"]) IN
          /\ k \in 1..Len(Backlog) /\ \A i \in 1..k : items["pending"][i] = Backlog[i]
          /\ \A t \in Tasks : history[t] # NoEntry => t \in Range(items["pending"])
    BY <1>2, <2>1, <2>2, <2>3
  <2>5. QED
    BY <1>1, <1>2, <1>3, <2>4 DEF Seeding, OfWorkflow
<1>5. \A i \in 1..Len(Requests) : history[Requests[i]] = NoEntry
  BY <1>2, InjectiveFacts
<1>6. \A e \in Upcoming : e.kind = "arrival" => arrivals < Len(Requests)
  BY <1>1, <1>3, BacklogFacts
<1>7. QED
  BY <1>1, <1>3, <1>4, <1>5, <1>6 DEF PhaseInv

(* What holds initially.                                                   *)
LEMMA InitKeeps ==
  ASSUME Init
  PROVE  KInv
<1>1. PICK f, g, one : InitAgenda(f, g, one)
  BY InitAgendaFacts
<1>2. InitEvents(f, g)
  BY <1>1, InitEventsFacts
<1>3. PICK t0 : InitStores(t0)
  BY InitStoresFacts
<1>4. TypeInv /\ PoolInv
  BY <1>2, <1>3, InitTypes
<1>5. SpotsInv /\ SeqsInv
  BY <1>2, <1>3, InitSpots
<1>6. /\ JobsInv /\ EventsInv /\ WaitersInv /\ SignalsInv /\ ProcessInv /\ TimerInv
      /\ AlarmInv /\ FlowInv
  BY <1>2, <1>3, InitWork
<1>7. PhaseInv
  BY <1>2, <1>3, InitPhase
<1>8. Orderly(setting.cadence, agenda)
  BY <1>2 DEF InitEvents
<1>9. QED
  BY <1>4, <1>5, <1>6, <1>7, <1>8 DEF KInv, LiveInv

-----------------------------------------------------------------------------
(* The theorems: types and the invariant.                                  *)

(* Every step of a resource keeps the invariant.                           *)
LEMMA ResourceStepsKeep ==
  ASSUME KInv, ResourceSteps
  PROVE  KInv' /\ \A t \in Tasks : Moves(t)
<1>1. UNCHANGED <<phase, arrivals, operatorVars, poolVars>>
  BY DEF ResourceSteps
<1>2. DoWorkEnds \/ InterruptedPauses \/ PauseEnds \/ WorkResumes
  BY DEF ResourceSteps
<1>3. CASE DoWorkEnds
  BY <1>1, <1>3, DoWorkEndsKeeps
<1>4. CASE InterruptedPauses
  BY <1>1, <1>4, InterruptedPausesKeeps
<1>5. CASE PauseEnds
  BY <1>1, <1>5, PauseEndsKeeps
<1>6. CASE WorkResumes
  BY <1>1, <1>6, WorkResumesKeeps
<1>7. QED
  BY <1>2, <1>3, <1>4, <1>5, <1>6

(* Every step of the simulation does, and moves tasks as they may move.    *)
LEMMA RunKeeps ==
  ASSUME KInv, Run
  PROVE  KInv' /\ \A t \in Tasks : Moves(t)
<1>1. CASE SeedNext
  BY <1>1, SeedNextKeeps
<1>2. CASE StartOperators
  BY <1>2, StartOperatorsKeeps
<1>3. CASE SupportArrives
  BY <1>3, SupportArrivesKeeps
<1>4. CASE GeneratorContinues
  BY <1>4, GeneratorContinuesKeeps
<1>5. CASE WorkEnds
  BY <1>5, WorkEndsKeeps
<1>6. CASE RouteNext
  BY <1>6, RouteNextKeeps
<1>7. CASE OperateEnds
  BY <1>7, OperateEndsKeeps
<1>8. CASE MonitorCollects
  BY <1>8, MonitorCollectsKeeps
<1>9. CASE MonitorStopped
  BY <1>9, MonitorStoppedKeeps
<1>10. CASE TimerTicks
  BY <1>10, TimerTicksKeeps
<1>11. CASE ExecutorStarts
  BY <1>11, ExecutorStartsKeeps
<1>12. CASE ResourceAssigned
  BY <1>12, ResourceAssignedKeeps
<1>13. CASE JobEnds
  BY <1>13, JobEndsKeeps
<1>14. CASE PoolServes
  BY <1>14, PoolServesKeeps
<1>15. CASE AlarmRings
  BY <1>15, AlarmRingsKeeps
<1>16. CASE Ignored
  BY <1>16, IgnoredKeeps
<1>17. CASE RunEnds
  BY <1>17, RunEndsKeeps
<1>18. CASE ResourceSteps
  BY <1>18, ResourceStepsKeep
<1>19. QED
  BY <1>1, <1>2, <1>3, <1>4, <1>5, <1>6, <1>7, <1>8, <1>9, <1>10, <1>11, <1>12, <1>13, <1>14,
     <1>15, <1>16, <1>17, <1>18 DEF Run

(* So does a step that changes nothing.                                    *)
LEMMA StutterKeeps ==
  ASSUME KInv, UNCHANGED vars
  PROVE  KInv'
<1>1. /\ agenda' = agenda /\ raised' = raised /\ items' = items /\ history' = history
      /\ alarm' = alarm /\ setting' = setting /\ left' = left /\ rework' = rework
      /\ jobs' = jobs /\ process' = process /\ suspended' = suspended /\ failures' = failures
      /\ phase' = phase /\ arrivals' = arrivals /\ queue' = queue /\ listening' = listening
      /\ awaiting' = awaiting /\ hired' = hired /\ pool' = pool /\ waiters' = waiters
      /\ owners' = owners
  BY DEF vars, simVars, storeVars, resourceVars, operatorVars, poolVars
<1>2. TypeInv'
  BY <1>1 DEF KInv, TypeInv, WorkflowTypeOK, StoresTypeOK, ResourcesTypeOK, Sorted, OwnersInv
<1>3. Upcoming' = Upcoming
  BY <1>1 DEF Upcoming
<1>4. \A x : Holds(x)' = Holds(x) /\ At(x)' = At(x) /\ (Engaged(x)' <=> Engaged(x))
  BY <1>1, <1>3 DEF Holds, At, Engaged
<1>5. \A x, r : (AssignedTo(x, r)' <=> AssignedTo(x, r)) /\ (HoldsPooled(x, r)' <=> HoldsPooled(x, r))
  BY <1>1, <1>3 DEF AssignedTo, HoldsPooled
<1>6. PoolInv'
  BY <1>1, <1>5 DEF KInv, PoolInv, PoolUse
<1>7. \A k, p, t : In(k, p, t)' <=> In(k, p, t)
  BY <1>1, <1>3, <1>4 DEF In
<1>8. \A t : InTrigger(t)' <=> InTrigger(t)
  BY <1>7 DEF InTrigger
<1>9. \A k, p : Written(k, p)' = Written(k, p)
  BY <1>4 DEF Written
<1>10. ASSUME Live'  PROVE LiveInv'
  <2>1. LiveInv
    BY <1>1, <1>10 DEF KInv, Live
  <2>2. SpotsInv'
    BY <1>1, <1>7, <1>9, <2>1 DEF LiveInv, SpotsInv
  <2>3. SeqsInv'
    BY <1>1, <1>3, <2>1 DEF LiveInv, SeqsInv
  <2>4. JobsInv'
    <3>1. \A x \in Tasks : JobOK(x)
      BY <2>1 DEF LiveInv, JobsInv
    <3>2. ASSUME NEW x \in Tasks  PROVE JobOK(x)'
      BY <1>1, <1>4, <1>8, <3>1 DEF JobOK, Windowed
    <3>3. QED
      BY <3>2 DEF JobsInv
  <2>5. EventsInv'
    BY <1>1, <1>3, <2>1 DEF LiveInv, EventsInv
  <2>6. WaitersInv'
    BY <1>1, <1>4, <2>1 DEF LiveInv, WaitersInv
  <2>7. SignalsInv'
    BY <1>1, <1>4, <2>1 DEF LiveInv, SignalsInv
  <2>8. ProcessInv'
    BY <1>1, <1>3, <2>1 DEF LiveInv, ProcessInv, Busy
  <2>9. PhaseInv'
    BY <1>1, <1>3, <2>1 DEF LiveInv, PhaseInv, Seeding
  <2>10. TimerInv' /\ AlarmInv'
    BY <1>1, <2>1 DEF LiveInv, TimerInv, AlarmInv
  <2>11. FlowInv'
    BY <1>1, <1>3, <2>1 DEF LiveInv, FlowInv
  <2>12. Orderly(setting.cadence, agenda)'
    BY <1>1, <2>1 DEF LiveInv
  <2>13. QED
    BY <2>2, <2>3, <2>4, <2>5, <2>6, <2>7, <2>8, <2>9, <2>10, <2>11, <2>12 DEF LiveInv
<1>11. QED
  BY <1>2, <1>6, <1>10 DEF KInv

(* The invariant is inductive.                                             *)
LEMMA StepKeeps ==
  ASSUME KInv, [Next]_vars
  PROVE  KInv'
<1>1. CASE Run
  BY <1>1, RunKeeps
<1>2. CASE UNCHANGED vars
  BY <1>2, StutterKeeps
<1>3. QED
  BY <1>1, <1>2 DEF Next, Ended

(* The simulation kernel (simulation.py, workflow/, resources/) keeps its  *)
(* invariant for every backlog, team, setting, cadence and stream of       *)
(* support: as long as no exception has ended the run, every task is in    *)
(* one place that its history names, every event finds its process waiting *)
(* for it, every resource of a pool is in one place, and no operation on a *)
(* history (task_history.py) ever raises.                                  *)
THEOREM KernelInvariant == Spec => []KInv
<1>1. Init => KInv
  BY InitKeeps
<1>2. KInv /\ [Next]_vars => KInv'
  BY StepKeeps
<1>3. QED
  BY <1>1, <1>2, PTL DEF Spec

(* In every state of every run the kernel's variables have their types:    *)
(* the agenda is in the order of time, and what has been raised is one of  *)
(* the exceptions the code has.                                            *)
THEOREM KernelTypes == Spec => []WorkflowTypeOK
<1>1. KInv => WorkflowTypeOK
  BY DEF KInv, TypeInv
<1>2. QED
  BY <1>1, KernelInvariant, PTL

(* No operation on the history of a task (start, end, resume and terminate *)
(* of task_history.py) ever raises: an entry is ended in the state that    *)
(* was started, a wait is resumed only if its end is the last entry, and   *)
(* nothing follows a terminal state. It is a part of NeverRaises that      *)
(* holds for every model.                                                  *)
THEOREM KernelHistories == Spec => [](\A t \in Tasks : history[t] # Invalid)
<1>1. KInv => \A t \in Tasks : history[t] # Invalid
  BY DEF KInv, TypeInv
<1>2. QED
  BY <1>1, KernelInvariant, PTL

(* No task is put into the store of delivered tasks after its alarm was    *)
(* processed.                                                              *)
NoneTooLate == "put after alarm" \notin raised

(* A resource that is to operate on a batch raises other exceptions only.  *)
LEMMA OperateRaises ==
  ASSUME NEW x, NEW job, NEW r, NEW q, Operate(x, job, r, q)
  PROVE  NoneTooLate'
<1> USE DEF NoneTooLate
<1>1. CASE OperateIdle(x, job, r, q)
  BY <1>1 DEF OperateIdle
<1>2. CASE OperateInterrupts(x, job, r, q)
  <2>1. raised' = {} \/ raised' = {"interrupts terminated process"}
    BY <1>2, Zenon DEF OperateInterrupts
  <2>2. "put after alarm" # "interrupts terminated process"
    OBVIOUS
  <2>3. QED
    BY <2>1, <2>2
<1>3. CASE OperateWaits(x, job, r, q)
  BY <1>3 DEF OperateWaits, PauseRaises
<1>4. QED
  BY <1>1, <1>2, <1>3 DEF Operate

(* Every step of a simulation keeps that: what is delivered is delivered   *)
(* by a step that routes it, and the alarm is armed then.                  *)
LEMMA DeliveriesInTime ==
  ASSUME KInv, Run, NoneTooLate
  PROVE  NoneTooLate'
<1> USE DEF NoneTooLate
<1>1. CASE SeedNext \/ StartOperators \/ GeneratorContinues
  <2>1. SeedNext => raised' = raised
    BY DEF SeedNext
  <2>2. StartOperators => raised' = raised
    BY DEF StartOperators
  <2>3. GeneratorContinues => raised' = raised
    BY DEF GeneratorContinues
  <2>4. QED
    BY <1>1, <2>1, <2>2, <2>3
<1>2. CASE SupportArrives
  BY <1>2 DEF SupportArrives
<1>3. CASE WorkEnds \/ RouteNext
  BY <1>3, WorkEndsKeeps, RouteNextKeeps
<1>4. CASE OperateEnds
  BY <1>4 DEF OperateEnds
<1>5. CASE MonitorCollects \/ MonitorStopped \/ TimerTicks
  BY <1>5 DEF MonitorCollects, MonitorStopped, TimerTicks
<1>6. CASE ExecutorStarts
  <2>1. PICK s, b : AssignOwner(s, b) \/ AssignRandom(s, b) \/ AssignNext(s, b)
    BY <1>6 DEF ExecutorStarts
  <2>2. CASE AssignOwner(s, b)
    <3>1. \/ raised' = {"unknown owner"}
          \/ \E x, job, r : Operate(x, job, r, Rest)
      BY <2>2, Zenon DEF AssignOwner
    <3>2. "put after alarm" # "unknown owner"
      OBVIOUS
    <3>3. CASE raised' = {"unknown owner"}
      BY <3>2, <3>3
    <3>4. QED
      BY <3>1, <3>3, OperateRaises
  <2>3. CASE AssignRandom(s, b)
    BY <2>3, OperateRaises DEF AssignRandom
  <2>4. CASE AssignNext(s, b)
    <3>1. raised' = raised
      BY <2>4, Zenon DEF AssignNext
    <3>2. QED
      BY <3>1
  <2>5. QED
    BY <2>1, <2>2, <2>3, <2>4
<1>7. CASE ResourceAssigned
  BY <1>7, OperateRaises DEF ResourceAssigned
<1>8. CASE JobEnds \/ PoolServes \/ AlarmRings \/ Ignored \/ RunEnds
  BY <1>8 DEF JobEnds, PoolServes, AlarmRings, Ignored, RunEnds
<1>9. CASE ResourceSteps
  <2>1. DoWorkEnds => raised' = raised
    BY DEF DoWorkEnds
  <2>2. InterruptedPauses => raised' \subseteq {"runaway"}
    BY DEF InterruptedPauses, PauseRaises
  <2>3. PauseEnds => raised' = raised
    BY DEF PauseEnds
  <2>4. WorkResumes => raised' = raised
    BY DEF WorkResumes
  <2>5. QED
    BY <1>9, <2>1, <2>2, <2>3, <2>4 DEF ResourceSteps
<1>10. QED
  BY <1>1, <1>2, <1>3, <1>4, <1>5, <1>6, <1>7, <1>8, <1>9 DEF Run

(* No task reaches the store of delivered tasks after the alarm that ends  *)
(* the run was processed, where put raises (task_store.py,                 *)
(* TerminalTaskStore.put): the alarm rings with the last delivery and      *)
(* never before, and nothing is delivered twice. For every model; it is    *)
(* another part of NeverRaises.                                            *)
THEOREM KernelDeliveries == Spec => []NoneTooLate
<1>1. Init => NoneTooLate
  BY DEF Init, NoneTooLate
<1>2. KInv /\ [Next]_vars /\ NoneTooLate => NoneTooLate'
  <2> SUFFICES ASSUME KInv, [Next]_vars, NoneTooLate
               PROVE  NoneTooLate'
    OBVIOUS
  <2>1. CASE Run
    BY <2>1, DeliveriesInTime
  <2>2. CASE UNCHANGED vars
    BY <2>2 DEF vars, simVars, NoneTooLate
  <2>3. QED
    BY <2>1, <2>2 DEF Next, Ended
<1>3. QED
  BY <1>1, <1>2, KernelInvariant, PTL DEF Spec

(* A set without two different elements has at most one.                   *)
LEMMA AtMostOne ==
  ASSUME NEW S, \A a, b \in S : a = b
  PROVE  Cardinality(S) <= 1 /\ (S = {} => Cardinality(S) <= 0)
<1>1. CASE S = {}
  BY <1>1, FS_EmptySet
<1>2. CASE S # {}
  <2>1. PICK a : a \in S
    BY <1>2
  <2>2. S = {a}
    BY <2>1
  <2>3. Cardinality({a}) = 1
    BY FS_Singleton
  <2>4. QED
    BY <1>2, <2>2, <2>3
<1>3. QED
  BY <1>1, <1>2

(* Where a resource of a pool is.                                          *)
PlacesOf(s, r) ==
    {<<"pool", i>> : i \in Positions(pool[s], r)}
    \cup {<<"agenda", i>> : i \in {i \in DOMAIN agenda :
            agenda[i].ev.kind = "assigned" /\ agenda[i].ev.resource = r}}
    \cup {<<"job", x>> : x \in {x \in JobsOn(r) : jobs[x].pooled}}

(* The three kinds of places.                                              *)
LEMMA PlaceCases ==
  ASSUME NEW s, NEW r, NEW a \in PlacesOf(s, r)
  PROVE  \/ \E i \in DOMAIN pool[s] : pool[s][i] = r /\ a = <<"pool", i>>
         \/ \E i \in DOMAIN agenda : /\ agenda[i].ev.kind = "assigned"
                                     /\ agenda[i].ev.resource = r /\ a = <<"agenda", i>>
         \/ \E x \in Tasks : HoldsPooled(x, r) /\ a = <<"job", x>>
  BY DEF PlacesOf, Positions, JobsOn, HoldsPooled

(* An assignment is determined by its job and its resource.                *)
LEMMA AssignedEvent ==
  ASSUME NEW e \in Events, e.kind = "assigned"
  PROVE  e = Assigned(e.job, e.resource) /\ e.job \in Tasks
  BY DEF Events, Assigned

(* A resource is assigned by one event of the agenda.                      *)
LEMMA OneAssigned ==
  ASSUME KInv, NEW s \in WorkStates, NEW n, NEW r, PoolUse(s, n, r),
         NEW i \in DOMAIN agenda, NEW j \in DOMAIN agenda,
         agenda[i].ev.kind = "assigned", agenda[i].ev.resource = r,
         agenda[j].ev.kind = "assigned", agenda[j].ev.resource = r
  PROVE  i = j /\ \E x \in Tasks : AssignedTo(x, r)
<1>1. agenda \in Seq(Dated)
  BY TypesNow
<1>2. /\ agenda[i].ev \in Events /\ agenda[j].ev \in Events
      /\ agenda[i].ev \in Upcoming /\ agenda[j].ev \in Upcoming
      /\ i \in Nat /\ j \in Nat
  <2>1. /\ i \in 1..Len(agenda) /\ j \in 1..Len(agenda) /\ Len(agenda) \in Nat
    BY <1>1, LenProperties
  <2>2. agenda[i] \in Dated /\ agenda[j] \in Dated
    BY <1>1, <2>1, ElementOfSeq
  <2>3. QED
    BY <2>1, <2>2 DEF Dated, Upcoming, Evs
<1>3. PICK x : x = agenda[i].ev.job
  OBVIOUS
<1>4. PICK y : y = agenda[j].ev.job
  OBVIOUS
<1>5. x \in Tasks /\ y \in Tasks /\ AssignedTo(x, r) /\ AssignedTo(y, r)
  BY <1>2, <1>3, <1>4, AssignedEvent DEF AssignedTo
<1>6. x = y
  BY <1>5 DEF PoolUse
<1>7. agenda[i].ev = agenda[j].ev
  BY <1>2, <1>3, <1>4, <1>6, AssignedEvent
<1>8. \A a, b \in Range(agenda) : Precedes(agenda, a, b) =>
          ~(a.ev.kind = "assigned" /\ a.ev = b.ev)
  BY DEF KInv, PoolInv
<1>9. /\ agenda[i] \in Range(agenda) /\ agenda[j] \in Range(agenda)
      /\ i < j => Precedes(agenda, agenda[i], agenda[j])
      /\ j < i => Precedes(agenda, agenda[j], agenda[i])
  BY DEF Precedes, Range
<1>10. ~(i < j) /\ ~(j < i)
  BY <1>7, <1>8, <1>9
<1>11. QED
  BY <1>2, <1>5, <1>10

(* It is available once.                                                   *)
LEMMA OneInPool ==
  ASSUME NEW q, IsInjective(q), NEW r, NEW i \in DOMAIN q, NEW j \in DOMAIN q,
         q[i] = r, q[j] = r
  PROVE  i = j /\ r \in Range(q)
  BY DEF IsInjective, Range

(* A resource is in one place, and in none before it is hired.             *)
PoolBound(s, n, r) == Cardinality(PlacesOf(s, r)) <= IF n <= hired[s] THEN 1 ELSE 0

(* Every resource of every team is.                                        *)
LEMMA ResourcePlaces ==
  ASSUME KInv, NEW s \in WorkStates, NEW n \in 1..Len(Team[s]), NEW r, r = Team[s][n]
  PROVE  PoolBound(s, n, r)
<1>1. PoolInv /\ hired \in [WorkStates -> Nat]
  BY TypesNow DEF KInv
<1>2. PoolUse(s, n, r)
  BY <1>1 DEF PoolInv
<1>3. IsInjective(pool[s])
  BY <1>1 DEF PoolInv
<1>4. ASSUME NEW a \in PlacesOf(s, r), NEW b \in PlacesOf(s, r)
      PROVE  a = b
  <2> DEFINE InPool(c, i) == i \in DOMAIN pool[s] /\ pool[s][i] = r /\ c = <<"pool", i>>
             InAgenda(c, i) == /\ i \in DOMAIN agenda /\ agenda[i].ev.kind = "assigned"
                               /\ agenda[i].ev.resource = r /\ c = <<"agenda", i>>
             InJob(c, x) == x \in Tasks /\ HoldsPooled(x, r) /\ c = <<"job", x>>
  <2>1. (\E i : InPool(a, i)) \/ (\E i : InAgenda(a, i)) \/ (\E x : InJob(a, x))
    BY PlaceCases
  <2>2. (\E i : InPool(b, i)) \/ (\E i : InAgenda(b, i)) \/ (\E x : InJob(b, x))
    BY PlaceCases
  <2>3. \A c, i : InPool(c, i) => r \in Range(pool[s])
    BY <1>3, OneInPool
  <2>4. \A c, i : InAgenda(c, i) => \E x \in Tasks : AssignedTo(x, r)
    BY <1>2, OneAssigned
  <2>5. \A i, j : InPool(a, i) /\ InPool(b, j) => a = b
    BY <1>3, OneInPool
  <2>6. \A i, j : InAgenda(a, i) /\ InAgenda(b, j) => a = b
    BY <1>2, OneAssigned
  <2>7. \A x, y : InJob(a, x) /\ InJob(b, y) => a = b
    BY <1>2 DEF PoolUse
  <2>8. \A c, x : InJob(c, x) => x \in Tasks /\ HoldsPooled(x, r)
    OBVIOUS
  <2> HIDE DEF InPool, InAgenda, InJob
  <2>9. /\ ~(r \in Range(pool[s]) /\ \E x \in Tasks : AssignedTo(x, r))
        /\ ~(r \in Range(pool[s]) /\ \E x \in Tasks : HoldsPooled(x, r))
        /\ ~((\E x \in Tasks : AssignedTo(x, r)) /\ \E x \in Tasks : HoldsPooled(x, r))
    BY <1>2 DEF PoolUse
  <2>10. QED
    BY <2>1, <2>2, <2>3, <2>4, <2>5, <2>6, <2>7, <2>8, <2>9
<1>5. CASE n <= hired[s]
  BY <1>4, <1>5, AtMostOne DEF PoolBound
<1>6. CASE ~(n <= hired[s])
  <2>1. n > hired[s]
    BY <1>1, <1>6, TeamFacts
  <2>2. /\ r \notin Range(pool[s])
        /\ \A x \in Tasks : ~AssignedTo(x, r) /\ ~HoldsPooled(x, r)
    BY <1>2, <2>1 DEF PoolUse
  <2>3. \A i \in DOMAIN pool[s] : pool[s][i] # r
    BY <1>3, <2>2, OneInPool
  <2>4. \A i \in DOMAIN agenda : ~(agenda[i].ev.kind = "assigned" /\ agenda[i].ev.resource = r)
    BY <1>2, <2>2, OneAssigned
  <2>5. ASSUME NEW a \in PlacesOf(s, r)  PROVE FALSE
    BY <2>2, <2>3, <2>4, PlaceCases
  <2>6. PlacesOf(s, r) = {}
    BY <2>5
  <2>7. QED
    BY <1>6, <2>6, AtMostOne DEF PoolBound
<1>7. QED
  BY <1>5, <1>6

(* A resource that a pool gives away (pool_manager.py, get and put) is     *)
(* never available, assigned or used at two places at once, in any run,    *)
(* for every team and every order of requests and returns.                 *)
THEOREM KernelPools == Spec => []PoolExclusive
<1>1. KInv => PoolExclusive
  <2>1. SUFFICES ASSUME KInv, NEW s \in WorkStates, NEW n \in 1..Len(Team[s])
                 PROVE  PoolBound(s, n, Team[s][n])
    BY DEF PoolExclusive, PlacesOf, PoolBound
  <2>2. PICK r : r = Team[s][n]
    OBVIOUS
  <2>3. PoolBound(s, n, r)
    BY <2>1, <2>2, ResourcePlaces
  <2>4. QED
    BY <2>2, <2>3
<1>2. QED
  BY <1>1, KernelInvariant, PTL

(* The ways w can be a place of a task.                                    *)
StorePlace(w, p, i, t) ==
    p \in Stores /\ i \in DOMAIN items[p] /\ items[p][i] = t /\ w = <<p, "in store", i>>
QueuePlace(w, p, i, t) ==
    /\ p \in WorkStates /\ i \in DOMAIN queue[p] /\ queue[p][i] = t
    /\ w = <<Source(p), "in queue", i>>
GotPlace(w, p, i, t) ==
    /\ p \in WorkStates /\ i \in DOMAIN agenda /\ agenda[i].ev.kind = "got"
    /\ agenda[i].ev.stage = p /\ agenda[i].ev.task = t /\ w = <<Source(p), "handed over", i>>
TriggerPlace(w, p, i, t) ==
    /\ p \in WorkStates /\ i \in DOMAIN agenda /\ agenda[i].ev.kind = "trigger"
    /\ agenda[i].ev.stage = p /\ t \in Range(agenda[i].ev.batch)
    /\ w = <<Source(p), "handed over", i>>
JobPlace(w, p, i, t) == p \in Tasks /\ t \in Holds(p) /\ i = p /\ w = <<At(p), "in job", p>>

(* The place that spot k, p is for a task; i says where in it.             *)
Spot(w, k, p, i, t) ==
    \/ k = "store" /\ StorePlace(w, p, i, t)
    \/ k = "queue" /\ QueuePlace(w, p, i, t)
    \/ k = "got" /\ GotPlace(w, p, i, t)
    \/ k = "trigger" /\ TriggerPlace(w, p, i, t)
    \/ k = "job" /\ JobPlace(w, p, i, t)

(* The places by their kinds.                                              *)
LEMMA SpotCases ==
  ASSUME NEW w, NEW k, NEW p, NEW i, NEW t, Spot(w, k, p, i, t)
  PROVE  \/ k = "store" /\ StorePlace(w, p, i, t)
         \/ k = "queue" /\ QueuePlace(w, p, i, t)
         \/ k = "got" /\ GotPlace(w, p, i, t)
         \/ k = "trigger" /\ TriggerPlace(w, p, i, t)
         \/ k = "job" /\ JobPlace(w, p, i, t)
  BY DEF Spot

(* The state that a place's entry of the history names.                    *)
LEMMA WrittenStates ==
  /\ \A p \in Stores : Written("store", p).state = p
  /\ \A k \in {"queue", "got", "trigger"}, p \in WorkStates : Written(k, p).state = Source(p)
  /\ \A p : Written("job", p).state = At(p)
<1>1. \A a, u : Entry(a, u).state = u
  BY EntryFacts
<1>2. \A p : Written("job", p) = Entry("start", At(p))
  BY DEF Written
<1>3. \A p \in Stores : \E a : Written("store", p) = Entry(a, p)
  BY DEF Written
<1>4. \A k \in {"queue", "got", "trigger"}, p \in WorkStates : Written(k, p) = Entry("start", Source(p))
  BY EntryFacts
<1>5. QED
  BY <1>1, <1>2, <1>3, <1>4

(* The entries of the agenda.                                              *)
LEMMA AgendaElements ==
  ASSUME KInv, NEW i \in DOMAIN agenda
  PROVE  /\ agenda[i].ev \in Events /\ agenda[i].ev \in Upcoming /\ i \in Nat
         /\ agenda[i].ev.kind \in {"got", "trigger"} => agenda[i].ev.stage \in WorkStates
<1>1. agenda \in Seq(Dated)
  BY TypesNow
<1>2. i \in 1..Len(agenda) /\ Len(agenda) \in Nat
  BY <1>1, LenProperties
<1>3. agenda[i] \in Dated
  BY <1>1, <1>2, ElementOfSeq
<1>4. agenda[i].ev \in Events /\ agenda[i].ev \in Upcoming
  BY <1>3 DEF Dated, Upcoming, Evs
<1>5. QED
  BY <1>2, <1>4, EventFields

(* A task is handed over by an entry of the agenda.                        *)
HandedOver(w, i, t) ==
    /\ i \in DOMAIN agenda
    /\ \/ agenda[i].ev.kind = "got" /\ agenda[i].ev.task = t
       \/ agenda[i].ev.kind = "trigger" /\ t \in Range(agenda[i].ev.batch)
    /\ w = <<Source(agenda[i].ev.stage), "handed over", i>>

(* The places of a task, spelled out.                                      *)
LEMMA PlacesAre ==
  ASSUME NEW t, NEW w
  PROVE  w \in Places(t) <=> \/ \E s, i : StorePlace(w, s, i, t)
                             \/ \E s, i : QueuePlace(w, s, i, t)
                             \/ \E i : HandedOver(w, i, t)
                             \/ \E x : JobPlace(w, x, x, t)
<1> DEFINE InStores == UNION {{<<s, "in store", i>> : i \in Positions(items[s], t)} : s \in Stores}
           InQueues == UNION {{<<Source(s), "in queue", i>> : i \in Positions(queue[s], t)} :
                                  s \in WorkStates}
           InHand == {<<Source(agenda[i].ev.stage), "handed over", i>> : i \in {i \in DOMAIN agenda :
                        \/ agenda[i].ev.kind = "got" /\ agenda[i].ev.task = t
                        \/ agenda[i].ev.kind = "trigger" /\ t \in Range(agenda[i].ev.batch)}}
           InJobs == {<<At(x), "in job", x>> : x \in {x \in Tasks : t \in Holds(x)}}
<1>1. w \in InStores <=> \E s, i : StorePlace(w, s, i, t)
  <2>1. w \in InStores <=> \E s \in Stores : w \in {<<s, "in store", i>> : i \in Positions(items[s], t)}
    OBVIOUS
  <2>2. ASSUME NEW s \in Stores
        PROVE  w \in {<<s, "in store", i>> : i \in Positions(items[s], t)}
                   <=> \E i : StorePlace(w, s, i, t)
    BY DEF StorePlace, Positions
  <2>3. \A s, i : StorePlace(w, s, i, t) => s \in Stores
    BY DEF StorePlace
  <2> HIDE DEF InStores
  <2>4. QED
    BY <2>1, <2>2, <2>3, Zenon
<1>2. w \in InQueues <=> \E s, i : QueuePlace(w, s, i, t)
  <2>1. w \in InQueues <=>
            \E s \in WorkStates : w \in {<<Source(s), "in queue", i>> : i \in Positions(queue[s], t)}
    OBVIOUS
  <2>2. ASSUME NEW s \in WorkStates
        PROVE  w \in {<<Source(s), "in queue", i>> : i \in Positions(queue[s], t)}
                   <=> \E i : QueuePlace(w, s, i, t)
    BY DEF QueuePlace, Positions
  <2>3. \A s, i : QueuePlace(w, s, i, t) => s \in WorkStates
    BY DEF QueuePlace
  <2> HIDE DEF InQueues
  <2>4. QED
    BY <2>1, <2>2, <2>3, Zenon
<1>3. w \in InHand <=> \E i : HandedOver(w, i, t)
  BY DEF HandedOver
<1>4. w \in InJobs <=> \E x : JobPlace(w, x, x, t)
  BY DEF JobPlace
<1>5. Places(t) = InStores \cup InQueues \cup InHand \cup InJobs
  BY Zenon DEF Places
<1> HIDE DEF InStores, InQueues, InHand, InJobs
<1>6. QED
  BY <1>1, <1>2, <1>3, <1>4, <1>5

(* Handed over, it is with a monitor or in a trigger.                      *)
LEMMA HandedIsSpot ==
  ASSUME KInv, NEW t, NEW w, NEW i, HandedOver(w, i, t)
  PROVE  \E p \in WorkStates : GotPlace(w, p, i, t) \/ TriggerPlace(w, p, i, t)
<1>1. i \in DOMAIN agenda /\ agenda[i].ev.kind \in {"got", "trigger"}
  BY DEF HandedOver
<1>2. PICK p : p = agenda[i].ev.stage
  OBVIOUS
<1>3. p \in WorkStates
  BY <1>1, <1>2, AgendaElements
<1>4. GotPlace(w, p, i, t) \/ TriggerPlace(w, p, i, t)
  BY <1>2, <1>3 DEF HandedOver, GotPlace, TriggerPlace
<1>5. QED
  BY <1>3, <1>4

(* The places that InOnePlace counts are the spots of the invariant.       *)
LEMMA PlaceOfSpot ==
  ASSUME KInv, NEW t \in Tasks, NEW w
  PROVE  w \in Places(t) <=> \E k \in Spots, p \in Wheres : \E i : Spot(w, k, p, i, t)
<1>0. /\ {"store", "queue", "got", "trigger", "job"} = Spots
      /\ \A p : p \in Stores \/ p \in WorkStates \/ p \in Tasks => p \in Wheres
  BY DEF Spots, Wheres
<1>1. \A p, i : /\ StorePlace(w, p, i, t) => p \in Stores
                /\ QueuePlace(w, p, i, t) => p \in WorkStates
                /\ GotPlace(w, p, i, t) => p \in WorkStates
                /\ TriggerPlace(w, p, i, t) => p \in WorkStates
                /\ JobPlace(w, p, i, t) => p \in Tasks
  BY DEF StorePlace, QueuePlace, GotPlace, TriggerPlace, JobPlace
<1>2. (\E k \in Spots, p \in Wheres : \E i : Spot(w, k, p, i, t))
         <=> \/ \E s, i : StorePlace(w, s, i, t)
             \/ \E s, i : QueuePlace(w, s, i, t)
             \/ \E s, i : GotPlace(w, s, i, t) \/ TriggerPlace(w, s, i, t)
             \/ \E x, i : JobPlace(w, x, i, t)
  <2>1. ASSUME NEW k \in Spots, NEW p \in Wheres, NEW i, Spot(w, k, p, i, t)
        PROVE  \/ \E s, j : StorePlace(w, s, j, t)
               \/ \E s, j : QueuePlace(w, s, j, t)
               \/ \E s, j : GotPlace(w, s, j, t) \/ TriggerPlace(w, s, j, t)
               \/ \E x, j : JobPlace(w, x, j, t)
    BY <2>1, SpotCases
  <2>2. ASSUME NEW p, NEW i, StorePlace(w, p, i, t)
        PROVE  p \in Wheres /\ Spot(w, "store", p, i, t)
    BY <2>2, <1>0, <1>1 DEF Spot
  <2>3. ASSUME NEW p, NEW i, QueuePlace(w, p, i, t)
        PROVE  p \in Wheres /\ Spot(w, "queue", p, i, t)
    BY <2>3, <1>0, <1>1 DEF Spot
  <2>4. ASSUME NEW p, NEW i, GotPlace(w, p, i, t)
        PROVE  p \in Wheres /\ Spot(w, "got", p, i, t)
    BY <2>4, <1>0, <1>1 DEF Spot
  <2>5. ASSUME NEW p, NEW i, TriggerPlace(w, p, i, t)
        PROVE  p \in Wheres /\ Spot(w, "trigger", p, i, t)
    BY <2>5, <1>0, <1>1 DEF Spot
  <2>6. ASSUME NEW p, NEW i, JobPlace(w, p, i, t)
        PROVE  p \in Wheres /\ Spot(w, "job", p, i, t)
    BY <2>6, <1>0, <1>1 DEF Spot
  <2>7. QED
    BY <2>1, <2>2, <2>3, <2>4, <2>5, <2>6, <1>0
<1>3. (\E x, i : JobPlace(w, x, i, t)) <=> \E x : JobPlace(w, x, x, t)
  BY DEF JobPlace
<1>4. (\E i : HandedOver(w, i, t)) <=> \E s, i : GotPlace(w, s, i, t) \/ TriggerPlace(w, s, i, t)
  <2>1. \A i : HandedOver(w, i, t) => \E s : GotPlace(w, s, i, t) \/ TriggerPlace(w, s, i, t)
    BY HandedIsSpot
  <2>2. \A s, i : GotPlace(w, s, i, t) \/ TriggerPlace(w, s, i, t) => HandedOver(w, i, t)
    BY DEF GotPlace, TriggerPlace, HandedOver
  <2>3. QED
    BY <2>1, <2>2
<1>5. QED
  BY <1>2, <1>3, <1>4, PlacesAre

(* A spot is where the task is, and its state is the history's.            *)
LEMMA SpotIsIn ==
  ASSUME KInv, NEW t \in Tasks, NEW k \in Spots, NEW p \in Wheres
  PROVE  /\ \A w, i : Spot(w, k, p, i, t) => In(k, p, t) /\ w[1] = Written(k, p).state
         /\ In(k, p, t) => \E w, i : Spot(w, k, p, i, t)
<1>1. ASSUME NEW w, NEW i, Spot(w, k, p, i, t)
      PROVE  In(k, p, t) /\ w[1] = Written(k, p).state
  <2>0. \/ k = "store" /\ StorePlace(w, p, i, t)
        \/ k = "queue" /\ QueuePlace(w, p, i, t)
        \/ k = "got" /\ GotPlace(w, p, i, t)
        \/ k = "trigger" /\ TriggerPlace(w, p, i, t)
        \/ k = "job" /\ JobPlace(w, p, i, t)
    BY <1>1, SpotCases
  <2>1. CASE k = "store" /\ StorePlace(w, p, i, t)
    <3>1. p \in Stores /\ w[1] = p
      BY <2>1 DEF StorePlace
    <3>2. w[1] = Written(k, p).state
      BY <2>1, <3>1, WrittenStates
    <3>3. In(k, p, t)
      BY <2>1 DEF In, Range, StorePlace
    <3>4. QED
      BY <3>2, <3>3
  <2>2. CASE k = "queue" /\ QueuePlace(w, p, i, t)
    <3>1. p \in WorkStates /\ w[1] = Source(p)
      BY <2>2 DEF QueuePlace
    <3>2. w[1] = Written(k, p).state
      BY <2>2, <3>1, WrittenStates
    <3>3. In(k, p, t)
      BY <2>2 DEF In, Range, QueuePlace
    <3>4. QED
      BY <3>2, <3>3
  <2>3. CASE k = "got" /\ GotPlace(w, p, i, t)
    <3>1. p \in WorkStates /\ w[1] = Source(p) /\ i \in DOMAIN agenda
      BY <2>3 DEF GotPlace
    <3>2. w[1] = Written(k, p).state
      BY <2>3, <3>1, WrittenStates
    <3>3. agenda[i].ev \in Upcoming
      BY <3>1, AgendaElements
    <3>4. In(k, p, t)
      BY <2>3, <3>3 DEF In, GotPlace
    <3>5. QED
      BY <3>2, <3>4
  <2>4. CASE k = "trigger" /\ TriggerPlace(w, p, i, t)
    <3>1. p \in WorkStates /\ w[1] = Source(p) /\ i \in DOMAIN agenda
      BY <2>4 DEF TriggerPlace
    <3>2. w[1] = Written(k, p).state
      BY <2>4, <3>1, WrittenStates
    <3>3. agenda[i].ev \in Upcoming
      BY <3>1, AgendaElements
    <3>4. In(k, p, t)
      BY <2>4, <3>3 DEF In, TriggerPlace
    <3>5. QED
      BY <3>2, <3>4
  <2>5. CASE k = "job" /\ JobPlace(w, p, i, t)
    <3>1. w[1] = At(p)
      BY <2>5 DEF JobPlace
    <3>2. w[1] = Written(k, p).state
      BY <2>5, <3>1, WrittenStates
    <3>3. In(k, p, t)
      BY <2>5 DEF In, JobPlace
    <3>4. QED
      BY <3>2, <3>3
  <2>6. QED
    BY <2>0, <2>1, <2>2, <2>3, <2>4, <2>5
<1>2. ASSUME In(k, p, t)
      PROVE  \E w, i : Spot(w, k, p, i, t)
  <2>1. CASE k = "store"
    BY <1>2, <2>1 DEF Spot, In, Range, StorePlace
  <2>2. CASE k = "queue"
    BY <1>2, <2>2 DEF Spot, In, Range, QueuePlace
  <2>3. CASE k = "got"
    BY <1>2, <2>3 DEF Spot, In, Upcoming, Evs, GotPlace
  <2>4. CASE k = "trigger"
    BY <1>2, <2>4 DEF Spot, In, Upcoming, Evs, TriggerPlace
  <2>5. CASE k = "job"
    BY <1>2, <2>5 DEF Spot, In, JobPlace
  <2>6. QED
    BY <2>1, <2>2, <2>3, <2>4, <2>5 DEF Spots
<1>3. QED
  BY <1>1, <1>2

(* One spot is one place: neither a sequence nor the agenda has the task   *)
(* twice.                                                                  *)
LEMMA OneSpot ==
  ASSUME KInv, Live, NEW t \in Tasks, NEW k \in Spots, NEW p \in Wheres,
         NEW w, NEW i, Spot(w, k, p, i, t), NEW v, NEW j, Spot(v, k, p, j, t)
  PROVE  w = v
<1>1. SeqsInv /\ Orderly(setting.cadence, agenda)
  BY DEF KInv, LiveInv
<1>2. CASE k = "store"
  <2>1. StorePlace(w, p, i, t) /\ StorePlace(v, p, j, t)
    BY <1>2 DEF Spot
  <2>2. QED
    BY <1>1, <2>1 DEF SeqsInv, IsInjective, StorePlace
<1>3. CASE k = "queue"
  <2>1. QueuePlace(w, p, i, t) /\ QueuePlace(v, p, j, t)
    BY <1>3 DEF Spot
  <2>2. QED
    BY <1>1, <2>1 DEF SeqsInv, IsInjective, QueuePlace
<1>4. CASE k \in {"got", "trigger"}
  <2>0. /\ GotPlace(w, p, i, t) \/ TriggerPlace(w, p, i, t)
        /\ GotPlace(v, p, j, t) \/ TriggerPlace(v, p, j, t)
        /\ k = "got" => GotPlace(w, p, i, t) /\ GotPlace(v, p, j, t)
        /\ k = "trigger" => TriggerPlace(w, p, i, t) /\ TriggerPlace(v, p, j, t)
    BY <1>4 DEF Spot
  <2>1. /\ i \in DOMAIN agenda /\ j \in DOMAIN agenda
        /\ w = <<Source(p), "handed over", i>> /\ v = <<Source(p), "handed over", j>>
        /\ agenda[i].ev.kind = k /\ agenda[j].ev.kind = k
        /\ agenda[i].ev.stage = p /\ agenda[j].ev.stage = p
    BY <1>4, <2>0 DEF GotPlace, TriggerPlace
  <2>2. Clash(agenda[i].ev, agenda[j].ev) /\ Clash(agenda[j].ev, agenda[i].ev)
    BY <1>4, <2>1 DEF Clash
  <2>3. /\ agenda[i] \in Range(agenda) /\ agenda[j] \in Range(agenda)
        /\ i < j => Precedes(agenda, agenda[i], agenda[j])
        /\ j < i => Precedes(agenda, agenda[j], agenda[i])
    BY <2>1 DEF Precedes, Range
  <2>4. ~(i < j) /\ ~(j < i)
    BY <1>1, <2>2, <2>3 DEF Orderly
  <2>5. i \in Nat /\ j \in Nat
    BY <2>1, AgendaElements
  <2>6. i = j
    BY <2>4, <2>5
  <2>7. QED
    BY <2>1, <2>6
<1>5. CASE k = "job"
  <2>1. JobPlace(w, p, i, t) /\ JobPlace(v, p, j, t)
    BY <1>5 DEF Spot
  <2>2. QED
    BY <2>1 DEF JobPlace
<1>6. QED
  BY <1>2, <1>3, <1>4, <1>5 DEF Spots

(* In every run, until it stops, every task that has entered is in exactly *)
(* one place (a store, an operator's queue, handed over, or a job), and    *)
(* the open entry of its history (task_history.py) names that place: no    *)
(* interleaving of puts, gets, triggers, interruptions and routings loses  *)
(* or duplicates a task.                                                   *)
THEOREM KernelPlaces == Spec => []InOnePlace
<1>1. KInv => InOnePlace
  <2>1. SUFFICES ASSUME KInv, phase \in {"seeding", "running"}, ~Raised, NEW t \in Tasks
                 PROVE  IF history[t] = NoEntry THEN Places(t) = {}
                        ELSE \E where \in Places(t) : /\ Places(t) = {where}
                                                      /\ where[1] = history[t].state
    BY DEF InOnePlace
  <2>2. Live /\ SpotsInv
    BY <2>1 DEF Raised, Live, KInv, LiveInv
  <2>3. \A k \in Spots, p \in Wheres : In(k, p, t) =>
            /\ history[t] = Written(k, p)
            /\ \A l \in Spots, r \in Wheres : In(l, r, t) => l = k /\ r = p
    BY <2>2 DEF SpotsInv
  <2>4. CASE history[t] = NoEntry
    <3>1. \A k, p : Written(k, p) # NoEntry
      BY DEF Written, Entry, NoEntry
    <3>2. ASSUME NEW w, w \in Places(t)  PROVE FALSE
      <4>0. PICK k \in Spots, p \in Wheres : \E i : Spot(w, k, p, i, t)
        BY <2>1, <3>2, PlaceOfSpot
      <4>1. PICK i : Spot(w, k, p, i, t)
        BY <4>0
      <4>2. In(k, p, t)
        BY <2>1, <4>1, SpotIsIn
      <4>3. QED
        BY <2>3, <2>4, <3>1, <4>2
    <3>3. Places(t) = {}
      BY <3>2
    <3>4. QED
      BY <2>4, <3>3
  <2>5. CASE history[t] # NoEntry
    <3>1. PICK k \in Spots, p \in Wheres : In(k, p, t)
      BY <2>1, <2>2, <2>5 DEF SpotsInv
    <3>2. PICK w, i : Spot(w, k, p, i, t)
      BY <2>1, <3>1, SpotIsIn
    <3>3. w[1] = Written(k, p).state
      BY <2>1, <3>2, SpotIsIn
    <3>4. w \in Places(t)
      BY <2>1, <3>2, PlaceOfSpot
    <3>5. ASSUME NEW v, v \in Places(t)  PROVE v = w
      <4>0. PICK l \in Spots, r \in Wheres : \E j : Spot(v, l, r, j, t)
        BY <2>1, <3>5, PlaceOfSpot
      <4>1. PICK j : Spot(v, l, r, j, t)
        BY <4>0
      <4>2. In(l, r, t)
        BY <2>1, <4>1, SpotIsIn
      <4>3. l = k /\ r = p
        BY <2>3, <3>1, <4>2
      <4>4. Spot(v, k, p, j, t)
        BY <4>1, <4>3
      <4>5. QED
        BY <2>1, <2>2, <3>2, <4>4, OneSpot
    <3>6. Places(t) = {w}
      BY <3>4, <3>5
    <3>7. w[1] = history[t].state
      BY <2>3, <3>1, <3>3
    <3>8. QED
      BY <2>5, <3>4, <3>6, <3>7
  <2>6. QED
    BY <2>4, <2>5
<1>2. QED
  BY <1>1, KernelInvariant, PTL

(* Whatever a step of the simulation does, the run it is a step of has not *)
(* returned, and its parameters stay.                                      *)
RunOpen == phase # "over" /\ setting' = setting

(* A step that changes nothing changes nothing of the flow.                *)
LEMMA MappedStays ==
  ASSUME KInv, UNCHANGED vars
  PROVE  history' = history /\ setting' = setting /\ left' = left /\ phase' = phase
  BY DEF vars, simVars, storeVars, resourceVars, operatorVars, poolVars

(* The parameters are among the variables of the resources.                *)
LEMMA Resourceful ==
  ASSUME UNCHANGED resourceVars
  PROVE  setting' = setting
  BY DEF resourceVars

(* The steps of workflow and operators.                                    *)
LEMMA OperatorsOpen ==
  ASSUME KInv,
         SeedNext \/ StartOperators \/ SupportArrives \/ GeneratorContinues
           \/ MonitorCollects \/ MonitorStopped \/ TimerTicks \/ PoolServes \/ JobEnds
           \/ AlarmRings \/ Ignored \/ RunEnds
  PROVE  RunOpen
<1>1. CASE SeedNext
  BY <1>1, Begin, Resourceful DEF SeedNext, RunOpen
<1>2. CASE StartOperators
  BY <1>2, Begin, Resourceful DEF StartOperators, RunOpen
<1>3. CASE SupportArrives
  BY <1>3, Begin, Resourceful DEF SupportArrives, RunOpen
<1>4. CASE GeneratorContinues
  BY <1>4, Begin, Resourceful DEF GeneratorContinues, RunOpen
<1>5. CASE MonitorCollects
  BY <1>5, Begin, Resourceful DEF MonitorCollects, RunOpen
<1>6. CASE MonitorStopped
  BY <1>6, Begin, Resourceful DEF MonitorStopped, RunOpen
<1>7. CASE TimerTicks
  BY <1>7, Begin, Resourceful DEF TimerTicks, RunOpen
<1>8. CASE PoolServes
  BY <1>8, Begin, Resourceful DEF PoolServes, RunOpen
<1>9. CASE JobEnds
  BY <1>9, Begin DEF JobEnds, RunOpen
<1>10. CASE AlarmRings
  BY <1>10, Begin, Resourceful DEF AlarmRings, RunOpen
<1>11. CASE Ignored
  BY <1>11, Begin, Resourceful DEF Ignored, RunOpen
<1>12. CASE RunEnds
  BY <1>12, Begin, Resourceful DEF RunEnds, RunOpen
<1>13. QED
  BY <1>1, <1>2, <1>3, <1>4, <1>5, <1>6, <1>7, <1>8, <1>9, <1>10, <1>11, <1>12

(* The steps of jobs and resources.                                        *)
LEMMA WorkersOpen ==
  ASSUME KInv, WorkEnds \/ RouteNext \/ OperateEnds \/ ExecutorStarts \/ ResourceAssigned
                 \/ ResourceSteps
  PROVE  RunOpen
<1>1. CASE WorkEnds
  BY <1>1, Begin DEF WorkEnds, RunOpen
<1>2. CASE RouteNext
  BY <1>2, Begin DEF RouteNext, RunOpen
<1>3. CASE OperateEnds
  BY <1>3, Begin DEF OperateEnds, RunOpen
<1>4. CASE ExecutorStarts
  <2>1. Happens("trigger")
    BY <1>4 DEF ExecutorStarts
  <2>2. \/ AssignOwner(Occurring.stage, Occurring.batch)
        \/ AssignRandom(Occurring.stage, Occurring.batch)
        \/ AssignNext(Occurring.stage, Occurring.batch)
    BY <1>4 DEF ExecutorStarts
  <2>3. AssignOwner(Occurring.stage, Occurring.batch) => setting' = setting
    BY DEF AssignOwner, Operate, resourceVars
  <2>4. AssignRandom(Occurring.stage, Occurring.batch) => setting' = setting
    BY DEF AssignRandom, Operate
  <2>5. AssignNext(Occurring.stage, Occurring.batch) => setting' = setting
    BY DEF AssignNext
  <2>6. QED
    BY <2>1, <2>2, <2>3, <2>4, <2>5, Begin DEF RunOpen
<1>5. CASE ResourceAssigned
  <2>1. Happens("assigned")
    BY <1>5 DEF ResourceAssigned
  <2>2. Operate(Occurring.job, jobs[Occurring.job], Occurring.resource, Rest)
    BY <1>5 DEF ResourceAssigned
  <2>3. setting' = setting
    BY <2>2 DEF Operate
  <2>4. QED
    BY <2>1, <2>3, Begin DEF RunOpen
<1>6. CASE ResourceSteps
  <2>1. DoWorkEnds \/ InterruptedPauses \/ PauseEnds \/ WorkResumes
    BY <1>6 DEF ResourceSteps
  <2>2. DoWorkEnds => Happens("finish") /\ setting' = setting
    BY DEF DoWorkEnds
  <2>3. InterruptedPauses => Happens("worked") /\ setting' = setting
    BY DEF InterruptedPauses
  <2>4. PauseEnds => Happens("wake") /\ setting' = setting
    BY DEF PauseEnds
  <2>5. WorkResumes => Happens("resumed") /\ setting' = setting
    BY DEF WorkResumes
  <2>6. QED
    BY <2>1, <2>2, <2>3, <2>4, <2>5, Begin DEF RunOpen
<1>7. QED
  BY <1>1, <1>2, <1>3, <1>4, <1>5, <1>6

(* All steps.                                                              *)
LEMMA RunIsOpen ==
  ASSUME KInv, Run
  PROVE  RunOpen
<1>1. CASE \/ SeedNext \/ StartOperators \/ SupportArrives \/ GeneratorContinues
           \/ MonitorCollects \/ MonitorStopped \/ TimerTicks \/ PoolServes \/ JobEnds
           \/ AlarmRings \/ Ignored \/ RunEnds
  BY <1>1, OperatorsOpen
<1>2. CASE \/ WorkEnds \/ RouteNext \/ OperateEnds \/ ExecutorStarts \/ ResourceAssigned
           \/ ResourceSteps
  BY <1>2, WorkersOpen
<1>3. QED
  BY <1>1, <1>2 DEF Run

(* Only the end of the run lets it return.                                   *)
LEMMA OnlyEnd ==
  ASSUME Run, ~RunEnds, phase # "over"
  PROVE  phase' # "over"
<1>1. CASE SeedNext \/ SupportArrives \/ GeneratorContinues \/ WorkEnds \/ RouteNext \/ OperateEnds
  BY <1>1 DEF SeedNext, SupportArrives, GeneratorContinues, WorkEnds, RouteNext, OperateEnds
<1>2. CASE MonitorCollects \/ MonitorStopped \/ TimerTicks \/ ExecutorStarts \/ ResourceAssigned
  BY <1>2 DEF MonitorCollects, MonitorStopped, TimerTicks, ExecutorStarts, ResourceAssigned
<1>3. CASE JobEnds \/ PoolServes \/ Ignored \/ ResourceSteps
  BY <1>3 DEF JobEnds, PoolServes, Ignored, ResourceSteps
<1>4. CASE StartOperators \/ AlarmRings
  BY <1>4 DEF StartOperators, AlarmRings
<1>5. QED
  BY <1>1, <1>2, <1>3, <1>4 DEF Run

(* The move of a task by a step of the simulation is one that the flow       *)
(* allows.                                                                   *)
LEMMA MoveIsAllowed ==
  ASSUME NEW t \in Tasks, Moves(t)
  PROVE  \/ Flow!Stays(t) \/ Flow!Enters(t) \/ Flow!IsBegun(t) \/ Flow!IsWorkedOn(t)
         \/ Flow!IsDeveloped(t) \/ Flow!IsRejected(t) \/ Flow!IsReturned(t)
         \/ Flow!IsAccepted(t) \/ Flow!IsDeployed(t) \/ Flow!IsRetried(t)
<1> DEFINE goes(from, to) == history[t].state = from /\ history'[t].state = to
           same == left'[t] = left[t]
<1>1. \/ history'[t].state = history[t].state /\ same
      \/ goes("none", "pending") /\ same
      \/ \E s \in WorkStates : goes(Source(s), s) /\ same
      \/ goes("development", "development") /\ left'[t] <= left[t]
      \/ /\ goes("development", IF t \in DevTasks THEN "dev_complete" ELSE "support_complete")
         /\ left[t] = 0 /\ same
      \/ goes("qa_testing", "qa_testing") /\ left'[t] <= left[t] + Points(t)
      \/ goes("qa_testing", "pending") /\ same
      \/ goes("qa_testing", "qa_complete") /\ left[t] = 0 /\ same
      \/ goes("deployment", "delivery") /\ same
      \/ goes("deployment", "qa_complete") /\ same
  BY DEF Moves
<1>2. \A from, to : Flow!Goes(t, from, to) <=> goes(from, to)
  BY DEF Flow!Goes
<1>3. Flow!Same(t) <=> same
  BY DEF Flow!Same
<1>4. CASE history'[t].state = history[t].state /\ same
  BY <1>4 DEF Flow!Stays, Flow!Goes, Flow!Same
<1>5. CASE goes("none", "pending") /\ same
  BY <1>2, <1>3, <1>5 DEF Flow!Enters
<1>6. CASE \E s \in WorkStates : goes(Source(s), s) /\ same
  <2>1. PICK s \in WorkStates : goes(Source(s), s) /\ same
    BY <1>6
  <2>2. \/ s = "development" /\ Source(s) = "pending"
        \/ s = "qa_testing" /\ Source(s) = "dev_complete"
        \/ s = "deployment" /\ Source(s) = "qa_complete"
    BY DEF WorkStates, Source
  <2>3. QED
    BY <1>2, <1>3, <2>1, <2>2 DEF Flow!IsBegun
<1>7. CASE goes("development", "development") /\ left'[t] <= left[t]
  BY <1>2, <1>7 DEF Flow!IsWorkedOn
<1>8. CASE /\ goes("development", IF t \in DevTasks THEN "dev_complete" ELSE "support_complete")
           /\ left[t] = 0 /\ same
  BY <1>2, <1>3, <1>8 DEF Flow!IsDeveloped
<1>9. CASE goes("qa_testing", "qa_testing") /\ left'[t] <= left[t] + Points(t)
  BY <1>2, <1>9 DEF Flow!IsRejected
<1>10. CASE goes("qa_testing", "pending") /\ same
  BY <1>2, <1>3, <1>10 DEF Flow!IsReturned
<1>11. CASE goes("qa_testing", "qa_complete") /\ left[t] = 0 /\ same
  BY <1>2, <1>3, <1>11 DEF Flow!IsAccepted
<1>12. CASE goes("deployment", "delivery") /\ same
  BY <1>2, <1>3, <1>12 DEF Flow!IsDeployed
<1>13. CASE goes("deployment", "qa_complete") /\ same
  BY <1>2, <1>3, <1>13 DEF Flow!IsRetried
<1>14. QED
  BY <1>1, <1>4, <1>5, <1>6, <1>7, <1>8, <1>9, <1>10, <1>11, <1>12, <1>13

(* The flow is about the same tasks.                                       *)
LEMMA FlowTasks == Flow!Tasks = Tasks
  BY DEF Flow!Tasks, Tasks

(* The initial states map to initial states of the flow.                   *)
LEMMA FlowInit ==
  ASSUME Init
  PROVE  Flow!Init
<1>1. PICK t0 : InitStores(t0)
  BY InitStoresFacts
<1>2. /\ t0 \in Tasks /\ history[t0].state = "pending"
      /\ \A t \in Tasks : t # t0 => history[t].state = "none"
  BY <1>1 DEF InitStores, Entry, NoEntry
<1>3. [t \in Tasks |-> history[t].state] \in [Tasks -> {"none", "pending"}]
  BY <1>2
<1>4. setting \in Settings /\ left = [t \in Tasks |-> Points(t)]
  BY DEF Init, ResourcesInit
<1>5. \A t \in Tasks : Points(t) \in Nat
  BY <1>4, SettingFacts
<1>6. [t \in Tasks |-> Points(t)] \in [Tasks -> Nat]
  BY <1>5
<1>7. ~(phase = "over")
  BY DEF Init
<1>8. QED
  BY <1>3, <1>4, <1>6, <1>7, FlowTasks DEF Flow!Init

(* The end of the run returns, with everything delivered.                  *)
LEMMA FlowReturns ==
  ASSUME KInv, RunEnds
  PROVE  Flow!Return
<1>1. RunOpen
  BY OperatorsOpen
<1>2. \A t \in DevTasks : t \in Tasks /\ history[t].state = "delivery"
  <2>1. \A t \in DevTasks : history[t] = Entry("terminal", "delivery")
    BY RunEndsKeeps
  <2>2. QED
    BY <2>1 DEF Entry, Tasks
<1>3. history' = history /\ setting' = setting /\ left' = left /\ phase' = "over"
  BY DEF RunEnds, storeVars, resourceVars
<1>4. [t \in Tasks |-> Points(t)]' = [t \in Tasks |-> Points(t)]
  BY <1>3 DEF Points
<1>5. QED
  BY <1>1, <1>2, <1>3, <1>4 DEF Flow!Return, RunOpen

(* Every other step moves tasks as the flow allows, or none.               *)
LEMMA FlowMoves ==
  ASSUME KInv, Run, ~RunEnds
  PROVE  Flow!Move
<1>1. RunOpen
  BY RunIsOpen
<1>2. phase # "over" /\ phase' # "over" /\ setting' = setting
  BY <1>1, OnlyEnd DEF RunOpen
<1>3. KInv' /\ \A t \in Tasks : Moves(t)
  BY RunKeeps
<1>4. DOMAIN left' = Tasks
  BY <1>3 DEF KInv, TypeInv, WorkflowTypeOK, ResourcesTypeOK
<1>5. DOMAIN [t \in Tasks |-> history[t].state]' = Tasks
  OBVIOUS
<1>6. [t \in Tasks |-> Points(t)]' = [t \in Tasks |-> Points(t)]
  BY <1>2 DEF Points
<1>7. \A t \in Tasks : \/ Flow!Stays(t) \/ Flow!Enters(t) \/ Flow!IsBegun(t) \/ Flow!IsWorkedOn(t)
                       \/ Flow!IsDeveloped(t) \/ Flow!IsRejected(t) \/ Flow!IsReturned(t)
                       \/ Flow!IsAccepted(t) \/ Flow!IsDeployed(t) \/ Flow!IsRetried(t)
  BY <1>3, MoveIsAllowed
<1>8. QED
  BY <1>2, <1>4, <1>5, <1>6, <1>7, FlowTasks DEF Flow!Move

(* The simulation implements the flow of tasks that TaskFlow states        *)
(* (sdlc_workflow.py, task_router.py): every step moves each task along an *)
(* arrow of the lifecycle or leaves it where it is, a task leaves          *)
(* development, and passes its tests, only when no work of a developer is  *)
(* left on it, and the run returns only when the whole backlog is          *)
(* delivered. For every value of the constants.                            *)
THEOREM KernelFlow == Spec => ImplementsFlow
<1>1. Init => Flow!Init
  BY FlowInit
<1>2. KInv /\ [Next]_vars => [Flow!Next]_<<[t \in Tasks |-> history[t].state],
                                           [t \in Tasks |-> Points(t)], left, phase = "over">>
  <2>1. SUFFICES ASSUME KInv, [Next]_vars
                 PROVE  [Flow!Next]_<<[t \in Tasks |-> history[t].state],
                                      [t \in Tasks |-> Points(t)], left, phase = "over">>
    OBVIOUS
  <2> DEFINE mapped == <<[t \in Tasks |-> history[t].state], [t \in Tasks |-> Points(t)], left,
                         phase = "over">>
  <2>5. CASE UNCHANGED vars
    <3>1. history' = history /\ setting' = setting /\ left' = left /\ phase' = phase
      BY <2>1, <2>5, MappedStays
    <3>2. [t \in Tasks |-> history[t].state]' = [t \in Tasks |-> history[t].state]
      BY <3>1
    <3>3. [t \in Tasks |-> Points(t)]' = [t \in Tasks |-> Points(t)]
      BY <3>1 DEF Points
    <3>4. UNCHANGED mapped
      BY <3>1, <3>2, <3>3
    <3>5. QED
      BY <3>4
  <2> HIDE DEF mapped
  <2>2. CASE RunEnds
    BY <2>1, <2>2, FlowReturns DEF Flow!Next
  <2>3. CASE Run /\ ~RunEnds
    BY <2>1, <2>3, FlowMoves DEF Flow!Next
  <2>4. Run \/ UNCHANGED vars
    BY <2>1 DEF Next, Ended
  <2>6. QED
    BY <2>2, <2>3, <2>4, <2>5
<1>3. QED
  BY <1>1, <1>2, KernelInvariant, PTL DEF Spec, ImplementsFlow, Flow!Spec
=============================================================================
