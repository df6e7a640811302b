--------------------------- MODULE RunCoordinator ---------------------------
(***************************************************************************)
(* The run coordinator of the web application over the workspace store:    *)
(* requests that start, cancel and resume runs, one execution per running  *)
(* run that submits a job to the simulation service and polls it, and the  *)
(* gateway whose calls fail or lose their answers.                         *)
(*                                                                         *)
(* Everything runs on one event loop.  An execution suspends at its calls  *)
(* of the gateway and between polls, and only there; each action is what   *)
(* happens between two suspensions, with one exception: the loop over the  *)
(* outcomes of a page completes one outcome per action, and "batch" keeps  *)
(* the event loop until it is done.                                        *)
(*                                                                         *)
(* The service is not the model of JobService but what it promises:        *)
(* its jobs take the steps of JobContract.  There is one job per run,      *)
(* because the submission identifier is derived from the run.              *)
(***************************************************************************)
EXTENDS WorkspaceStore, SequencesExt

CONSTANTS
  MaxFailures,        (* bound: failures in a row that exhaust the retries  *)
  MaxRestarts,        (* bound: restarts of the service in a behaviour      *)
  MayClose,           (* bound: whether the application closes              *)
  MayForget           (* bound: whether jobs expire at the service          *)

ASSUME CoordinatorAssumption ==
  /\ MaxFailures \in Nat \ {0, 1}
  /\ MaxRestarts \in Nat
  /\ MayClose \in BOOLEAN
  /\ MayForget \in BOOLEAN
  /\ Verdicts = {"succeeded", "failed", "cancelled"}
  /\ Null \notin (1..2) \cup (Runs \X (1..2))

(* An execution that ended may still await its callback while the next one *)
(* runs, so a run needs two places for executions.                         *)
Slots == 1..2
Executions == Runs \X Slots

VARIABLES
  status,             (* RunStatus as far as the store does not read it     *)
  tasks,              (* self.tasks: the execution known for a run          *)
  exec,               (* where each execution stands, with its variables    *)
  batch,              (* the outcomes being completed, and by whom          *)
  closing,            (* progress of close: "open", "closing" or "closed"   *)
  accepted, log, announced, forgotten,   (* the service, see JobContract    *)
  restarts            (* restarts of the service so far                     *)

serviceVars == <<accepted, log, announced, forgotten, restarts>>
coordinatorVars == <<status, tasks, exec, batch, closing>>
vars == <<workspaceVars, coordinatorVars, serviceVars>>

Service == INSTANCE JobContract WITH
  Jobs <- Runs, MaxModels <- Cardinality(Configs)

Terminal == {"completed", "completed_with_errors", "cancelled", "failed"}
States == {"submitting", "running", "cancelling", "reconnecting"} \cup Terminal
Errors == {"none", "unavailable", "refused", "lost", "too_large", "internal",
           "incomplete"}

(* Suspension points, in the order execute reaches them; "abort" is the    *)
(* cancellation in its exception handler, "over" precedes the callback.    *)
Places == {"idle", "begin", "ready", "submit", "cancel", "status", "page",
           "sleep", "abort", "batch", "over"}
Live == Places \ {"idle", "over"}

Outcome == [key : Keys, verdict : Verdicts]
NoBatch == [todo |-> <<>>, then |-> "none", by |-> Null, next |-> 0]

CoordinatorTypeOK ==
  /\ WorkspaceTypeOK
  /\ status \in [Runs -> [state : States, cancel : BOOLEAN, job : BOOLEAN,
                          paused : BOOLEAN, error : Errors,
                          cursor : 0..Cardinality(Configs)]]
  /\ tasks \in [Runs -> Slots \cup {Null}]
  /\ exec \in [Executions -> [at : Places, seen : States, failures : 0..MaxFailures]]
  /\ batch.todo \in Seq(Outcome)
  /\ batch.then \in {"none", "cached", "page", "failed"}
  /\ batch.next \in 0..Cardinality(Configs)
  /\ batch.by \in Executions \cup {Null}
  /\ closing \in {"open", "closing", "closed"}

Idling == [at |-> "idle", seen |-> "running", failures |-> 0]

NewStatus == [state |-> "submitting", cancel |-> FALSE, job |-> FALSE,
              paused |-> FALSE, error |-> "none", cursor |-> 0]

Init ==
  /\ WorkspaceInit
  /\ status = [r \in Runs |-> NewStatus]
  /\ tasks = [r \in Runs |-> Null]
  /\ exec = [c \in Executions |-> Idling]
  /\ batch = NoBatch
  /\ closing = "open"
  /\ Service!ContractInit
  /\ restarts = 0

LoopIsFree == batch = NoBatch
Serving == LoopIsFree /\ closing = "open"

-----------------------------------------------------------------------------
(* The service                                                             *)

Exists(r) == accepted[r] > 0 /\ r \notin forgotten

AnsweredModels(r) == {log[r][i].model : i \in DOMAIN log[r]}
OpenModels(r) == (1..accepted[r]) \ AnsweredModels(r)

Append1(r, i, v) == log' = [log EXCEPT ![r] = Append(@, [model |-> i, verdict |-> v])]

ServiceAnswers(r) ==
  /\ Exists(r)
  /\ \E i \in OpenModels(r), v \in {"succeeded", "failed"} : Append1(r, i, v)
  /\ Service!Answer(r)
  /\ UNCHANGED <<workspaceVars, coordinatorVars, forgotten, restarts>>

(* A job expires; if the coordinator never learned its identifier, the     *)
(* same submission may start another one.                                  *)
ServiceForgets(r) ==
  /\ MayForget
  /\ r \in announced \ forgotten
  /\ IF status[r].job
       THEN /\ forgotten' = forgotten \cup {r}
            /\ UNCHANGED <<accepted, log, announced>>
       ELSE /\ accepted' = [accepted EXCEPT ![r] = 0]
            /\ log' = [log EXCEPT ![r] = <<>>]
            /\ announced' = announced \ {r}
            /\ UNCHANGED forgotten
  /\ UNCHANGED <<workspaceVars, coordinatorVars, restarts>>

(* A restarted service knows no jobs.                                      *)
ServiceRestarts ==
  /\ restarts < MaxRestarts
  /\ restarts' = restarts + 1
  /\ accepted' = [r \in Runs |-> 0]
  /\ log' = [r \in Runs |-> <<>>]
  /\ announced' = {} /\ forgotten' = {}
  /\ UNCHANGED <<workspaceVars, coordinatorVars>>

UpstreamVerdicts(r) == {log[r][i].verdict : i \in DOMAIN log[r]}

UpstreamStatus(r) ==
  IF r \notin announced THEN "running"
  ELSE IF "cancelled" \in UpstreamVerdicts(r) THEN "cancelled"
  ELSE IF "failed" \in UpstreamVerdicts(r) THEN "completed_with_errors"
  ELSE "completed"

(* The requests a call of the gateway carries, when they are served.       *)
ServeNothing == UNCHANGED serviceVars

ServeSubmit(r) ==
  IF Exists(r) THEN ServeNothing
  ELSE /\ accepted' = [accepted EXCEPT ![r] = Cardinality(runs[r].missing)]
       /\ Service!Accept(r)
       /\ UNCHANGED <<forgotten, restarts>>

ServeCancel(r) ==
  IF ~Exists(r) \/ r \in announced THEN ServeNothing
  ELSE LET open == SetToSeq(OpenModels(r))
       IN /\ log' = [log EXCEPT ![r] = @ \o
               [i \in DOMAIN open |-> [model |-> open[i], verdict |-> "cancelled"]]]
          /\ Service!Answer(r)
          /\ UNCHANGED <<forgotten, restarts>>

-----------------------------------------------------------------------------
(* Routes: start, cancel and resume runs                                   *)

(* launch: the execution starts when the event loop comes to it.           *)
Launch(r) ==
  \E s \in Slots :
    /\ s = Min({t \in Slots : exec[<<r, t>>].at = "idle"} \cup {3})
    /\ tasks' = [tasks EXCEPT ![r] = s]
    /\ exec' = [exec EXCEPT ![<<r, s>>] = [Idling EXCEPT !.at = "begin"]]

LaunchUnlessRunning(r) ==
  IF tasks[r] = Null THEN Launch(r) ELSE UNCHANGED <<tasks, exec>>

(* The status of a run goes with its record.                               *)
StatusOfRuns == [r \in Runs |-> IF r \in DOMAIN runs' THEN status[r] ELSE NewStatus]

Admit(w, ks, intent) ==
  /\ nextRun \in Runs
  /\ Register(w, workspaces[w].current, ks, intent)
  /\ IF nextRun' = nextRun THEN UNCHANGED <<tasks, exec>> ELSE Launch(nextRun)
  /\ status' = StatusOfRuns
  /\ UNCHANGED <<batch, closing, serviceVars>>

StartManual(w, ks) == Serving /\ Admit(w, ks, "manual")

(* A change applies to scenarios of a source comparison, each to one.      *)
Changes(w, source, ks) ==
  /\ ~Active(source)
  /\ runs[source].retained # {}
  /\ runs[source].taskSet = workspaces[w].current
  /\ Cardinality(ks) <= Cardinality(runs[source].keys)

RequestCancel(r) ==
  /\ status' = [status EXCEPT ![r].cancel = TRUE, ![r].state = "cancelling",
                              ![r].paused = @ /\ tasks[r] # Null]
  /\ LaunchUnlessRunning(r)

StartInteractive(w, source, ks) ==
  /\ Serving
  /\ Changes(w, source, ks)
  /\ IF Idle(w)
       THEN Admit(w, ks, "interactive")
       ELSE \E r \in Owned(w) \cap ActiveRuns :
              /\ Supersede(r)
              /\ RequestCancel(r)
              /\ UNCHANGED <<batch, closing, serviceVars>>

\* Mutant: a run that is over may be cancelled.
CancelAnyway(r) ==
  /\ Serving
  /\ RequestCancel(r)
  /\ UNCHANGED <<workspaceVars, batch, closing, serviceVars>>

CancelRun(r) ==
  /\ Serving
  /\ Active(r)
  /\ RequestCancel(r)
  /\ UNCHANGED <<workspaceVars, batch, closing, serviceVars>>

Resume(r) ==
  /\ Serving
  /\ Active(r) /\ tasks[r] = Null
  /\ status' = [status EXCEPT ![r].paused = FALSE]
  /\ Launch(r)
  /\ UNCHANGED <<workspaceVars, batch, closing, serviceVars>>

StoreRoutes ==
  /\ Serving
  /\ \/ \E w \in Workspaces : Create(w)
     \/ \E w \in DOMAIN workspaces, ts \in TaskSets :
          SaveEditor(w, ts) \/ DeleteTaskSet(w, ts)
     \/ \E r \in DOMAIN runs : Pin(r) \/ Unpin(r) \/ Baseline(r)
     \/ Deletion
  /\ status' = StatusOfRuns
  /\ UNCHANGED <<tasks, exec, batch, closing, serviceVars>>

-----------------------------------------------------------------------------
(* An execution: one batch of outcomes                                     *)

(* Scenarios in the order the request to the service lists them.           *)
KeyOf(r, i) == SetToSeq(runs[r].missing)[i]

Pending(r) == {k \in runs[r].keys : runs[r].verdict[k] = Unanswered}

AllAs(keys, v) == [i \in 1..Cardinality(keys) |->
                     [key |-> SetToSeq(keys)[i], verdict |-> v]]

\* Mutant: a run that fails leaves its open scenarios pending.
UnfinishedNone(r) == <<>>

(* What a run that fails makes of its open scenarios.                      *)
Unfinished(r) == AllAs(Pending(r), "failed")

Start(c, then, todo, next) ==
  /\ batch' = [todo |-> todo, then |-> then, by |-> c, next |-> next]
  /\ exec' = [exec EXCEPT ![c].at = "batch"]

MoveTo(c, place) ==
  /\ exec' = [exec EXCEPT ![c].at = place]
  /\ batch' = NoBatch

(* Nothing of an execution outlives its last step.                         *)
End(c) == exec' = [exec EXCEPT ![c] = [Idling EXCEPT !.at = "over"]]

(* The handler of every failure other than an unreachable service.         *)
Raise(c, error) ==
  LET r == c[1]
  IN /\ status' = [status EXCEPT ![r].error = error]
     /\ IF status[r].job THEN MoveTo(c, "abort")
        ELSE Start(c, "failed", Unfinished(r), 0)
     /\ UNCHANGED <<workspaceVars, tasks, closing>>

Begin(c) ==
  LET r == c[1]
  IN /\ exec[c].at = "begin"
     /\ Start(c, "cached", AllAs(Pending(r) \ runs[r].missing, "succeeded"), 0)
     /\ UNCHANGED <<workspaceVars, status, tasks, closing, serviceVars>>

Acceptable(r, o) ==
  o.verdict = "succeeded" =>
    CanRetain(r, o.key) /\ (o.key \in runs[r].missing \/ o.key \in cache)

CompleteOne(c) ==
  LET r == c[1]
      o == Head(batch.todo)
      rest == [batch EXCEPT !.todo = Tail(@)]
  IN /\ batch.by = c /\ batch.todo # <<>>
     /\ UNCHANGED serviceVars
     /\ IF runs[r].verdict[o.key] # Unanswered
          THEN batch' = rest /\ UNCHANGED <<workspaceVars, status, tasks, exec, closing>>
        ELSE IF Acceptable(r, o)
          THEN /\ Answer(r, o.key, o.verdict)
               /\ batch' = rest
               /\ UNCHANGED <<status, tasks, exec, closing>>
        ELSE Raise(c, IF CanRetain(r, o.key) THEN "internal" ELSE "too_large")

(* The next call of the gateway at the top of the polling loop.            *)
NextCall(st) == IF ~st.job THEN "ready" ELSE IF st.cancel THEN "cancel" ELSE "status"

Onward(c, st) ==
  LET place == NextCall(st)
  IN /\ status' = [status EXCEPT ![c[1]] =
                     IF place = "cancel" THEN [st EXCEPT !.state = "cancelling"] ELSE st]
     /\ MoveTo(c, place)
     /\ UNCHANGED <<workspaceVars, tasks, closing>>

Settle(c, st) ==
  /\ status' = [status EXCEPT ![c[1]] = st]
  /\ Finish(c[1])
  /\ End(c)
  /\ batch' = NoBatch
  /\ UNCHANGED <<tasks, closing>>

(* The expanded request may turn out too large for the body limit.         *)
CachedDone(c) ==
  LET r == c[1]
  IN IF runs[r].missing = {} THEN Settle(c, [status[r] EXCEPT !.state = "completed"])
     ELSE \/ ~status[r].job /\ Raise(c, "too_large")
          \/ Onward(c, status[r])

\* Mutant: the status is read after the outcomes.
SeenLate(c) == UpstreamStatus(c[1])
Seen(c) == exec[c].seen

(* The status read before the outcomes decides whether this page was the   *)
(* last.                                                                   *)
PageDone(c) ==
  LET r == c[1]
      st == [status[r] EXCEPT !.cursor = batch.next, !.error = "none"]
  IN IF Seen(c) \in Terminal
       THEN IF Pending(r) # {} THEN Raise(c, "incomplete")
            ELSE Settle(c, [st EXCEPT !.state = Seen(c)])
       ELSE /\ status' = [status EXCEPT ![r] =
                 [st EXCEPT !.state = IF st.cancel THEN "cancelling" ELSE "running"]]
            /\ exec' = [exec EXCEPT ![c] = [Idling EXCEPT !.at = "sleep"]]
            /\ batch' = NoBatch
            /\ UNCHANGED <<workspaceVars, tasks, closing>>

BatchDone(c) ==
  /\ batch.by = c /\ batch.todo = <<>>
  /\ UNCHANGED serviceVars
  /\ \/ batch.then = "cached" /\ CachedDone(c)
     \/ batch.then = "page" /\ PageDone(c)
     \/ /\ batch.then = "failed"
        /\ Settle(c, [status[c[1]] EXCEPT !.state = "failed"])

-----------------------------------------------------------------------------
(* An execution: calls of the gateway.  A call takes effect in the step    *)
(* that resumes the execution: what other requests do meanwhile does not   *)
(* touch the service.                                                      *)

Answered(c) ==
  LET r == c[1]
      st == status[r]
      next(place) == /\ MoveTo(c, place)
                     /\ UNCHANGED <<workspaceVars, status, tasks, closing>>
  IN \/ exec[c].at = "ready" /\ ServeNothing /\ next("submit")
     \/ exec[c].at = "submit" /\ ServeSubmit(r) /\ Onward(c, [st EXCEPT !.job = TRUE])
     \/ exec[c].at = "cancel" /\ Exists(r) /\ ServeCancel(r) /\ next("status")
     \/ /\ exec[c].at = "status" /\ Exists(r) /\ ServeNothing
        /\ exec' = [exec EXCEPT ![c].at = "page", ![c].seen = UpstreamStatus(r)]
        /\ UNCHANGED <<workspaceVars, status, tasks, closing, batch>>
     \/ /\ exec[c].at = "page" /\ Exists(r) /\ ServeNothing
        /\ Start(c, "page", [i \in 1..(Len(log[r]) - st.cursor) |->
                    LET e == log[r][st.cursor + i]
                    IN [key |-> KeyOf(r, e.model), verdict |-> e.verdict]], Len(log[r]))
        /\ UNCHANGED <<workspaceVars, status, tasks, closing>>

(* A request that reached the service or not.                              *)
Reached(c) ==
  \/ ServeNothing
  \/ exec[c].at = "submit" /\ ServeSubmit(c[1])
  \/ exec[c].at = "cancel" /\ ServeCancel(c[1])

\* Mutant: the coordinator retries for ever.
ExhaustedNever(n) == FALSE
Exhausted(n) == n = MaxFailures

\* Mutant: the paused run is still known as running.
ReleasedNever(c) == tasks
Released(c) == IF tasks[c[1]] = c[2] THEN [tasks EXCEPT ![c[1]] = Null] ELSE tasks

Unavailable(c) ==
  LET n == exec[c].failures + 1
      st == [status[c[1]] EXCEPT !.state = "reconnecting", !.error = "unavailable"]
  IN /\ Reached(c)
     /\ \/ /\ ~Exhausted(n)
           /\ status' = [status EXCEPT ![c[1]] = st]
           /\ exec' = [exec EXCEPT ![c] = [Idling EXCEPT
                        !.at = "sleep", !.failures = Min({n, MaxFailures})]]
           /\ UNCHANGED tasks
        \/ /\ n > 1
           /\ status' = [status EXCEPT ![c[1]] = [st EXCEPT !.paused = TRUE]]
           /\ End(c)
           /\ tasks' = Released(c)
     /\ UNCHANGED <<workspaceVars, batch, closing>>

Refused(c) ==
  \/ Reached(c) /\ Raise(c, "refused")
  \/ /\ exec[c].at \in {"cancel", "status", "page"} /\ ~Exists(c[1])
     /\ ServeNothing /\ Raise(c, "lost")

Call(c) ==
  /\ exec[c].at \in {"ready", "submit", "cancel", "status", "page"}
  /\ Answered(c) \/ Unavailable(c) \/ Refused(c)

(* The failed execution tries to cancel its job, whatever comes of it.     *)
Abort(c) ==
  /\ exec[c].at = "abort"
  /\ ServeNothing \/ ServeCancel(c[1])
  /\ Start(c, "failed", Unfinished(c[1]), 0)
  /\ UNCHANGED <<workspaceVars, status, tasks, closing>>

Wake(c) ==
  /\ exec[c].at = "sleep"
  /\ Onward(c, status[c[1]])
  /\ UNCHANGED serviceVars

\* Mutant: the callback removes whatever execution is known.
ForgottenAnyway(c) == [tasks EXCEPT ![c[1]] = Null]
Forgotten(c) == Released(c)

Callback(c) ==
  /\ LoopIsFree
  /\ exec[c].at = "over"
  /\ exec' = [exec EXCEPT ![c] = Idling]
  /\ tasks' = Forgotten(c)
  /\ UNCHANGED <<workspaceVars, status, batch, closing, serviceVars>>

-----------------------------------------------------------------------------
(* close, once no requests are served: a chance to cancel each job known,  *)
(* then the executions are stopped.                                        *)

BeginClose ==
  /\ MayClose
  /\ Serving
  /\ closing' = "closing"
  /\ UNCHANGED <<workspaceVars, status, tasks, exec, batch, serviceVars>>

CloseCancel(r) ==
  /\ LoopIsFree
  /\ closing = "closing"
  /\ Active(r) /\ status[r].job
  /\ ServeCancel(r)
  /\ UNCHANGED <<workspaceVars, coordinatorVars>>

FinishClose ==
  /\ LoopIsFree
  /\ closing = "closing"
  /\ closing' = "closed"
  /\ tasks' = [r \in Runs |-> Null]
  /\ exec' = [c \in Executions |-> Idling]
  /\ UNCHANGED <<workspaceVars, status, batch, serviceVars>>

Execution(c) ==
  \/ LoopIsFree /\ (Begin(c) \/ Call(c) \/ Abort(c) \/ Wake(c))
  \/ CompleteOne(c)
  \/ BatchDone(c)

Requests ==
  \/ \E w \in DOMAIN workspaces : \E ks \in Selections(workspaces[w].current) :
       \/ workspaces[w].current # Null /\ StartManual(w, ks)
       \/ \E source \in Owned(w) : StartInteractive(w, source, ks)
  \/ \E r \in DOMAIN runs : CancelRun(r) \/ Resume(r)
  \/ StoreRoutes

(* What happens to the job of a run that is over nobody asks any more.     *)
SimulationService ==
  \/ \E r \in ActiveRuns : ServiceAnswers(r) \/ ServiceForgets(r)
  \/ ServiceRestarts

Next ==
  \/ Requests
  \/ \E c \in Executions : Execution(c) \/ Callback(c)
  \/ BeginClose \/ FinishClose
  \/ \E r \in ActiveRuns : CloseCancel(r)
  \/ SimulationService

Spec == Init /\ [][Next]_vars

(* The event loop runs every execution it holds and its callbacks; the     *)
(* service ends every job it accepted.                                     *)
Fairness ==
  /\ \A c \in Executions : WF_vars(Execution(c)) /\ WF_vars(Callback(c))
  /\ \A r \in Runs : WF_vars(r \in ActiveRuns /\ ServiceAnswers(r))

LiveSpec == Spec /\ Fairness

-----------------------------------------------------------------------------
(* Whatever the order of launches, pauses, resumes, cancellations and      *)
(* callbacks, at most one execution works on a run, and it is the one the  *)
(* coordinator knows: no outcome is handled twice and none is unheard.     *)
OneExecution ==
  \A r \in Runs, s \in Slots : exec[<<r, s>>].at \in Live => tasks[r] = s

(* A run that is not over has an execution that works on it until the      *)
(* application closes, or is paused, and then a resume takes effect at     *)
(* once: "Publish the pause only after the run can be relaunched."         *)
ActiveIsServed ==
  \A r \in ActiveRuns :
    IF status[r].paused THEN tasks[r] = Null
    ELSE closing = "open" => tasks[r] # Null /\ exec[<<r, tasks[r]>>].at \in Live

(* What a run that is over says of itself is what became of its scenarios, *)
(* although they come from the cache, from pages, or from giving up.       *)
FinalStateTruthful ==
  \A r \in DOMAIN runs :
    LET verdicts == {runs[r].verdict[k] : k \in runs[r].keys}
        state == status[r].state
    IN /\ runs[r].over <=> state \in Terminal
       /\ runs[r].over => Unanswered \notin verdicts
       /\ state = "completed" => verdicts = {"succeeded"}
       /\ state = "completed_with_errors" =>
            "failed" \in verdicts /\ "cancelled" \notin verdicts
       /\ state = "cancelled" => "cancelled" \in verdicts
       /\ state = "failed" => status[r].error # "none"

(* "Status and outcomes are separate reads; a terminal state must have a   *)
(* complete outcome set by the time the page is fetched", and a result the *)
(* run was registered with is still cached when its execution collects it. *)
ReadsConsistent ==
  \A r \in Runs : status[r].error \notin {"incomplete", "internal"}

(* Once a run is over, no late execution, answer or request changes what   *)
(* it says.                                                                *)
FinalIsFinal ==
  [][\A r \in DOMAIN runs \cap DOMAIN runs' : runs[r].over =>
       /\ status'[r] = status[r]
       /\ runs'[r] = [runs[r] EXCEPT !.pinned = runs'[r].pinned]]_vars

(* The coordinator keeps the discipline under which the store was checked: *)
(* in particular it answers every scenario before it finishes a run.       *)
UsesWorkspace == WorkspaceSpec

(* Every run that is running gets over or is paused for the user to        *)
(* resume, however the service fails, unless the application closes.       *)
EveryRunSettles ==
  \A r \in Runs :
    r \in ActiveRuns ~> \/ r \notin ActiveRuns
                       \/ status[r].paused
                       \/ closing # "open"

=============================================================================
