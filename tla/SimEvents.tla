----------------------------- MODULE SimEvents -----------------------------
(* The event queue of the simulation library (SimPy's Environment), modelled *)
(* from how src/src/value_stream uses it. Events are processed in the order   *)
(* of their time and, at equal times, in the order they were scheduled.       *)
(* The urgent events of the library (the first step of a process, an          *)
(* interruption) run before any other event, so they are part of the action   *)
(* that causes them. Times are relative: the time of the head is how long it  *)
(* is until then.                                                             *)
EXTENDS Naturals, Sequences, FiniteSets, SequencesExt

VARIABLES agenda,  \* scheduled events, [due, ev], in the order they happen
          raised   \* exceptions that ended the run

simVars == <<agenda, raised>>

\* An exception nobody handles ends the run, so nothing occurs after one.
Occurs(kind) == /\ raised = {}
                /\ agenda # <<>>
                /\ Head(agenda).ev.kind = kind

Occurring == Head(agenda).ev

\* What is scheduled once the head is taken and its time has come.
Rest == [i \in 1..Len(agenda) - 1 |->
            [agenda[i + 1] EXCEPT !.due = @ - Head(agenda).due]]

Now(ev) == [due |-> 0, ev |-> ev]
After(delay, ev) == [due |-> delay, ev |-> ev]

Insert(queue, e) ==
    InsertAt(queue, 1 + Cardinality({i \in DOMAIN queue : queue[i].due <= e.due}), e)

Schedule(queue, events) == FoldLeft(Insert, queue, events)

\* The queue without an event that will not happen.
Without(queue, ev) == RemoveAt(queue, CHOOSE i \in DOMAIN queue : queue[i].ev = ev)

\* How long until the scheduled event.
DueIn(queue, ev) == (CHOOSE e \in Range(queue) : e.ev = ev).due

Scheduled(ev) == \E i \in DOMAIN agenda : agenda[i].ev = ev

Sorted == \A i \in 2..Len(agenda) : agenda[i - 1].due <= agenda[i].due
=============================================================================
