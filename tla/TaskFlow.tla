------------------------------ MODULE TaskFlow ------------------------------
(* What the workflow promises about tasks: where they may go, that work on    *)
(* them is done before they go on, and that the run is over when every        *)
(* development task is delivered. Tasks move independently; one step of the   *)
(* simulation may move several.                                               *)
EXTENDS Naturals

CONSTANTS DevTasks, SupportTasks

VARIABLES place,  \* task -> the state it is in
          points, \* task -> its size
          left,   \* task -> remaining work of a developer
          over    \* the run has returned

Tasks == DevTasks \cup SupportTasks

Init == /\ place \in [Tasks -> {"none", "pending"}]
        /\ points \in [Tasks -> Nat]
        /\ left = points
        /\ ~over

Goes(t, from, to) == place[t] = from /\ place'[t] = to
Same(t) == left'[t] = left[t]

Enters(t) == Goes(t, "none", "pending") /\ Same(t)

IsBegun(t) == /\ \/ Goes(t, "pending", "development")
                 \/ Goes(t, "dev_complete", "qa_testing")
                 \/ Goes(t, "qa_complete", "deployment")
              /\ Same(t)

IsWorkedOn(t) == Goes(t, "development", "development") /\ left'[t] <= left[t]

\* Only completed work leaves development.
IsDeveloped(t) ==
    /\ Goes(t, "development", IF t \in DevTasks THEN "dev_complete" ELSE "support_complete")
    /\ left[t] = 0 /\ Same(t)

\* A failed test gives back at most all of the work.
IsRejected(t) == Goes(t, "qa_testing", "qa_testing") /\ left'[t] <= left[t] + points[t]
IsReturned(t) == Goes(t, "qa_testing", "pending") /\ Same(t)
IsAccepted(t) == Goes(t, "qa_testing", "qa_complete") /\ left[t] = 0 /\ Same(t)

IsDeployed(t) == Goes(t, "deployment", "delivery") /\ Same(t)
IsRetried(t) == Goes(t, "deployment", "qa_complete") /\ Same(t)

Stays(t) == Goes(t, place[t], place[t]) /\ Same(t)

Move == /\ ~over
        /\ DOMAIN place' = Tasks /\ DOMAIN left' = Tasks
        /\ \A t \in Tasks : \/ Stays(t) \/ Enters(t) \/ IsBegun(t) \/ IsWorkedOn(t)
                            \/ IsDeveloped(t) \/ IsRejected(t) \/ IsReturned(t)
                            \/ IsAccepted(t) \/ IsDeployed(t) \/ IsRetried(t)
        /\ UNCHANGED <<points, over>>

Return == /\ ~over
          /\ \A t \in DevTasks : place[t] = "delivery"
          /\ over'
          /\ UNCHANGED <<place, points, left>>

Next == Move \/ Return

Spec == Init /\ [][Next]_<<place, points, left, over>>
=============================================================================
