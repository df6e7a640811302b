----------------------------- MODULE TaskStores -----------------------------
(* The stores a task moves through (workflow/task_store.py), the history each *)
(* move writes (task/task_history.py) and the alarm of the store of delivered *)
(* tasks. Times of history entries and statuses are left out: a history is    *)
(* known by its last entry, which is all its legality depends on.             *)
EXTENDS SimEvents

CONSTANTS Backlog,   \* the development tasks, in their order
          Requests   \* the support tasks, in the order they are generated

ASSUME StoresAssumption ==
    /\ Backlog \in Seq(Range(Backlog)) /\ Requests \in Seq(Range(Requests))
    /\ IsInjective(Backlog \o Requests)
    /\ Len(Backlog) > 0
    /\ {"workflow", "generator"} \cap Range(Backlog \o Requests) = {}

DevTasks == Range(Backlog)
Tasks == DevTasks \cup Range(Requests)
IsSupport(t) == t \notin DevTasks

Open == {"pending", "dev_complete", "qa_complete"}
Terminal == {"delivery", "support_complete"}
Stores == Open \cup Terminal
WorkStates == {"development", "qa_testing", "deployment"}

VARIABLES items,    \* store -> tasks in it, first in first out
          history,  \* task -> the last entry of its history
          alarm     \* of the store of delivered tasks

storeVars == <<items, history, alarm>>

Entry(type, state) == [type |-> type, state |-> state]
NoEntry == Entry("none", "none")
Invalid == Entry("invalid", "none")   \* the operation raised ValueError

Entries == {NoEntry, Invalid}
    \cup [type : {"start", "end"}, state : Open \cup WorkStates]
    \cup [type : {"terminal"}, state : Terminal]

Start(h, state) == IF h.type \in {"none", "end"} THEN Entry("start", state) ELSE Invalid
End(h, state) == IF h = Entry("start", state) THEN Entry("end", state) ELSE Invalid
EndCurrent(h) == End(h, h.state)
Terminate(h, state) ==
    IF h.type \in {"terminal", "invalid"} THEN Invalid ELSE Entry("terminal", state)
\* Mutant: the end entry stays.
ResumeNot(h, state) == h

\* The end entry is deleted; the start entry it ended is the last one again.
Resume(h, state) == IF h = Entry("end", state) THEN Entry("start", state) ELSE Invalid

Enter(h, store) == IF store \in Terminal THEN Terminate(h, store) ELSE Start(h, store)

\* An event is processed as long as no operation on a history has raised.
Happens(kind) == Occurs(kind) /\ \A t \in Tasks : history[t] # Invalid

StoresInit(first) ==
    /\ items = [s \in Stores |-> IF s = "pending" THEN <<first>> ELSE <<>>]
    /\ history = [t \in Tasks |-> IF t = first THEN Start(NoEntry, "pending") ELSE NoEntry]
    /\ alarm = [limit |-> 0, signal |-> "off"]

\* Between the alarm and its processing an item is silently left out.
Blocked(store) == store = "delivery" /\ alarm.signal = "triggered"
Rings(its, store) == /\ store = "delivery"
                     /\ alarm.signal = "armed"
                     /\ Len(its[store]) + 1 = alarm.limit

(* put of task t, whose last history entry is h, into a store, the stores     *)
(* holding its.                                                               *)
Put(its, store, t, h) ==
    /\ items' = IF Blocked(store) THEN its ELSE [its EXCEPT ![store] = Append(@, t)]
    /\ history' = [history EXCEPT ![t] = IF Blocked(store) THEN h ELSE Enter(h, store)]
    /\ alarm' = IF Rings(its, store) THEN [alarm EXCEPT !.signal = "triggered"] ELSE alarm

PutRaises(store) ==
    IF store = "delivery" /\ alarm.signal = "processed" THEN {"put after alarm"} ELSE {}

PutEvents(its, store, t, by) ==
    <<Now([kind |-> "stored", store |-> store, task |-> t, by |-> by])>>
        \o (IF Rings(its, store) THEN <<Now([kind |-> "alarm"])>> ELSE <<>>)

\* Mutants: the alarm rings one task too early, or too late.
SetAlarmEarly == alarm' = [limit |-> Len(items["pending"]) - 1, signal |-> "armed"]
SetAlarmLate == alarm' = [limit |-> Len(items["pending"]) + 1, signal |-> "armed"]

SetAlarm == alarm' = [limit |-> Len(items["pending"]), signal |-> "armed"]

StoresTypeOK ==
    /\ items \in [Stores -> Seq(Tasks)]
    /\ history \in [Tasks -> Entries]
    /\ alarm \in [limit : Nat, signal : {"off", "armed", "triggered", "processed"}]
=============================================================================
