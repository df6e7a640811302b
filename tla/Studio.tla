------------------------------- MODULE Studio -------------------------------
(***************************************************************************)
(* The browser's view of a workspace: tabs that edit, preview and run the  *)
(* inputs of one workspace and explore changes of its baseline, and the    *)
(* guards of the application that decide about their requests.             *)
(*                                                                         *)
(* A tab is one thread that never waits: it sends requests, goes on with   *)
(* what the user does, and continues when an answer arrives.  msgs[t] are  *)
(* the requests under way; they may be served in any order, and any may    *)
(* fail.  The application serves one request at a time.                    *)
(*                                                                         *)
(* What a run does until it is over is the subject of RunCoordinator;      *)
(* memory, task sets and comparisons that of WorkspaceStore.               *)
(***************************************************************************)
EXTENDS Integers, Sequences, FiniteSets

CONSTANTS
  Tabs,               (* browser tabs that show the workspace               *)
  Explorers,          (* bound: the tabs that use the interactive mode      *)
  TaskSets,           (* what the task editor may hold                      *)
  Definitions,        (* what the model editors may hold                    *)
  MaxRevision,        (* bound: revisions the input storage has room for    *)
  MaxRuns,            (* bound: runs the result memory has room for         *)
  MaxPressed,         (* bound: buttons pressed and changes committed       *)
  Null

(* The contents of the editors.                                            *)
Inputs == [tasks : TaskSets, definitions : Definitions]

ASSUME StudioAssumption ==
  /\ Explorers \subseteq Tabs
  /\ TaskSets # {} /\ Definitions # {} /\ Null \notin Inputs
  /\ MaxRevision \in Nat \ {0} /\ MaxRuns \in Nat \ {0}
  /\ MaxPressed \in Nat

Revisions == 1..MaxRevision

VARIABLES
  workspace,          (* the workspace as a GET returns it                  *)
  recent,             (* the last run was registered a moment ago           *)
  msgs,               (* requests under way, per tab                        *)
  shown,              (* the workspace a tab shows, workspaceRef            *)
  editor, base,       (* what its editors hold; the revision they come from *)
  dirty, preview, busy,
  interactive,        (* the toggle of the interactive mode                 *)
  pending, sending,   (* the committed change not sent; a POST is under way *)
  pressed             (* buttons pressed and changes committed so far       *)

server == <<workspace, recent>>
editing == <<editor, base, dirty, preview>>
exploring == <<interactive, pending, sending>>
vars == <<server, msgs, shown, editing, busy, exploring, pressed>>

-----------------------------------------------------------------------------
(* The workspace                                                           *)

Runs == workspace.runs
RunNumbers == 1..MaxRuns
IsOver(run) == run.state = "over"
ActiveIn(w) == {r \in DOMAIN w.runs : ~IsOver(w.runs[r])}

(* The change that a tab's n-th commit asks for, of a source comparison.   *)
Request(t, n, source) == [tab |-> t, n |-> n, source |-> source]

(* A comparison is listed while its task set is that of the workspace.     *)
SameTasks(run, w) == run.inputs.tasks = w.saved.tasks
Listed(w) == {r \in DOMAIN w.runs : SameTasks(w.runs[r], w)}

(* What a tab uses of the workspace it is shown.                           *)
View(w) == [revision |-> w.revision, baseline |-> w.baseline,
            active |-> ActiveIn(w), over |-> Listed(w) \ ActiveIn(w)]

(* A new workspace, and one whose first run is over.  Revisions count from *)
(* the one that the tabs open.                                             *)
Fresh(i) == [revision |-> 1, saved |-> i, baseline |-> Null, runs |-> <<>>]

(* What a preview's digest is made of: the revision and what it stands for.*)
PreviewOf(w) == [revision |-> w.revision, inputs |-> w.saved]

NewRun(intent, inputs, m) ==
  [state |-> "running", intent |-> intent, results |-> FALSE, superseded |-> FALSE,
   inputs |-> inputs, asked |-> m]

Explored(i) ==
  LET run == NewRun("manual", i, [kind |-> "start", preview |-> PreviewOf(Fresh(i))])
  IN [Fresh(i) EXCEPT !.baseline = 1,
        !.runs = <<[run EXCEPT !.state = "over", !.results = TRUE]>>]

StudioTypeOK ==
  /\ workspace.revision \in Revisions /\ workspace.saved \in Inputs
  /\ workspace.baseline \in RunNumbers \cup {Null}
  /\ Len(Runs) <= MaxRuns /\ Cardinality(ActiveIn(workspace)) <= 1
  /\ recent \in BOOLEAN
  /\ editor \in [Tabs -> Inputs] /\ base \in [Tabs -> Revisions]
  /\ dirty \in [Tabs -> BOOLEAN] /\ busy \in [Tabs -> BOOLEAN]
  /\ preview \in [Tabs -> [revision : Revisions, inputs : Inputs] \cup {Null}]
  /\ interactive \in [Tabs -> BOOLEAN] /\ sending \in [Tabs -> BOOLEAN]
  /\ pressed \in 0..MaxPressed

(* Every tab has opened the workspace; the editors start dirty.            *)
Init ==
  /\ LET i == CHOOSE i \in Inputs : TRUE
     IN workspace \in {Fresh(i), Explored(i)}
  /\ recent = FALSE
  /\ msgs = [t \in Tabs |-> {}]
  /\ shown = [t \in Tabs |-> View(workspace)]
  /\ editor = [t \in Tabs |-> workspace.saved]
  /\ base = [t \in Tabs |-> 1]
  /\ dirty = [t \in Tabs |-> TRUE]
  /\ preview = [t \in Tabs |-> Null]
  /\ busy = [t \in Tabs |-> FALSE]
  /\ interactive = [t \in Tabs |-> FALSE]
  /\ pending = [t \in Tabs |-> Null]
  /\ sending = [t \in Tabs |-> FALSE]
  /\ pressed = 0

-----------------------------------------------------------------------------
(* What the user does                                                      *)

Press == pressed < MaxPressed /\ pressed' = pressed + 1
Send(t, m) == msgs' = [msgs EXCEPT ![t] = @ \cup {m}]
Idle(t) == shown[t].active = {}

Edit(t, i) ==
  /\ i # editor[t]
  /\ editor' = [editor EXCEPT ![t] = i]
  /\ dirty' = [dirty EXCEPT ![t] = TRUE]
  /\ UNCHANGED <<server, msgs, shown, base, preview, busy, exploring, pressed>>

Acts(t) == {m \in msgs[t] : m.kind # "post" /\ (m.kind = "load" => m.for = "action")}

(* action: the only buttons it disables are those of preview and run.      *)
Act(t, m) ==
  /\ Press
  /\ busy' = [busy EXCEPT ![t] = TRUE]
  /\ Send(t, m)
  /\ UNCHANGED <<server, shown, editing>>

(* previewInputs sends the revision that is shown, whatever the editors    *)
(* were loaded from.                                                       *)
Preview(t) ==
  /\ ~busy[t] /\ Idle(t)
  /\ Act(t, [kind |-> "save", inputs |-> editor[t], expected |-> shown[t].revision,
             base |-> base[t]])
  /\ UNCHANGED exploring

StartManual(t) ==
  /\ ~busy[t] /\ Idle(t) /\ ~dirty[t] /\ preview[t] # Null
  /\ Act(t, [kind |-> "start", preview |-> preview[t]])
  /\ UNCHANGED exploring

Cancel(t) ==
  /\ \E r \in shown[t].active : Act(t, [kind |-> "cancel", run |-> r])
  /\ pending' = [pending EXCEPT ![t] = Null]
  /\ interactive' = [interactive EXCEPT ![t] = FALSE]
  /\ UNCHANGED sending

UseAsBaseline(t, r) ==
  /\ r \in shown[t].over
  /\ Act(t, [kind |-> "baseline", run |-> r])
  /\ UNCHANGED exploring

Load(for, restore) == [kind |-> "load", for |-> for, restore |-> restore]

(* The button next to an error, which a failed poll may show.              *)
Reload(t) == Act(t, Load("action", TRUE)) /\ UNCHANGED exploring

Toggle(t) ==
  /\ t \in Explorers /\ shown[t].baseline # Null
  /\ interactive' = [interactive EXCEPT ![t] = ~@]
  /\ pending' = [pending EXCEPT ![t] = IF interactive[t] THEN Null ELSE @]
  /\ UNCHANGED <<server, msgs, shown, editing, busy, sending, pressed>>

(* A value other than the one committed last replaces what is pending.     *)
Commit(t) ==
  /\ interactive[t] /\ shown[t].baseline # Null
  /\ Press
  /\ pending' = [pending EXCEPT ![t] = Request(t, pressed', shown[t].baseline)]
  /\ UNCHANGED <<server, msgs, shown, editing, busy, interactive, sending>>

-----------------------------------------------------------------------------
(* What a tab does by itself                                               *)

\* Mutant: requests may overtake each other.
MaySendAlways(t) == TRUE
MaySend(t) == ~sending[t]

(* flushInteractive, after a commit and every 450 ms.  That a tab sends at *)
(* most once a second only delays it.                                      *)
Flush(t) ==
  /\ pending[t] # Null /\ MaySend(t)
  /\ sending' = [sending EXCEPT ![t] = TRUE]
  /\ Send(t, [kind |-> "post", request |-> pending[t]])
  /\ UNCHANGED <<server, shown, editing, busy, interactive, pending, pressed>>

(* The poll of every second.  That polls and loads may overtake each other *)
(* is left out: a tab shows an old workspace as long as it likes, but never *)
(* an older one than before.                                               *)
Poll(t) ==
  /\ shown' = [shown EXCEPT ![t] = View(workspace)]
  /\ UNCHANGED <<server, msgs, editing, busy, exploring, pressed>>

-----------------------------------------------------------------------------
(* The application serves a request, and its tab goes on.                  *)

Forget(t, m) == msgs' = [msgs EXCEPT ![t] = @ \ {m}]
Then(t, m, next) == msgs' = [msgs EXCEPT ![t] = (@ \ {m}) \cup {next}]

(* An error ends an action; its other button presses may still be busy.    *)
ActionFails(t, m) ==
  /\ busy' = [busy EXCEPT ![t] = FALSE]
  /\ Forget(t, m)
  /\ UNCHANGED <<editing, exploring>>

MaySave(m) == m.expected = workspace.revision /\ workspace.revision < MaxRevision

(* save_editor: another task set starts another comparison context.        *)
SaveEditor(m) ==
  /\ MaySave(m)
  /\ workspace' = [workspace EXCEPT !.saved = m.inputs, !.revision = @ + 1,
                     !.baseline = IF m.inputs.tasks = workspace.saved.tasks THEN @ ELSE Null]
  /\ UNCHANGED recent

(* The user may have edited on since the request was sent.                 *)
Save(t, m) ==
  /\ SaveEditor(m)
  /\ preview' = [preview EXCEPT ![t] = PreviewOf(workspace')]
  /\ dirty' = [dirty EXCEPT ![t] = FALSE]
  /\ base' = [base EXCEPT ![t] = workspace'.revision]
  /\ Then(t, m, Load("action", FALSE))
  /\ UNCHANGED <<editor, busy, exploring>>

Register(run) ==
  /\ workspace' = [workspace EXCEPT !.runs = Append(@, run)]
  /\ recent' = TRUE

HasRoom == Len(Runs) < MaxRuns

\* Mutant: the digest is not compared.
UpToDateAlways(m) == TRUE
UpToDate(m) == m.preview = PreviewOf(workspace)

\* Mutant: a run is started beside the active one.
MayStartBeside(m) == UpToDate(m) /\ HasRoom
(* start_run and register for a manual run.                                *)
MayStart(m) == UpToDate(m) /\ ActiveIn(workspace) = {} /\ HasRoom

StartManualRun(m) == MayStart(m) /\ Register(NewRun("manual", workspace.saved, m))

CancelRun(m) ==
  /\ workspace' = IF IsOver(Runs[m.run]) THEN workspace
                  ELSE [workspace EXCEPT !.runs[m.run].state = "cancelling"]
  /\ UNCHANGED recent

(* The bound on revisions refuses baselines that the code would accept.    *)
MayBeBaseline(m) == Runs[m.run].results /\ workspace.revision < MaxRevision

(* comparison: the workspace takes the task set of the run, and keeps the   *)
(* definitions.                                                            *)
Baseline(m) ==
  /\ MayBeBaseline(m)
  /\ workspace' = [workspace EXCEPT !.baseline = m.run, !.revision = @ + 1,
                     !.saved.tasks = Runs[m.run].inputs.tasks]
  /\ UNCHANGED recent

(* What a button's request does to the workspace.                          *)
ActionEffect(m) ==
  \/ m.kind = "save" /\ SaveEditor(m)
  \/ m.kind = "start" /\ StartManualRun(m)
  \/ m.kind = "cancel" /\ CancelRun(m)
  \/ m.kind = "baseline" /\ Baseline(m)

(* And what its tab goes on with, unless it was a save.                    *)
Answered(t, m) ==
  /\ m.kind # "save" /\ ActionEffect(m)
  /\ Then(t, m, Load("action", m.kind = "baseline"))
  /\ UNCHANGED <<editing, busy, exploring>>

Refused(t, m) ==
  /\ \/ m.kind = "save" /\ ~MaySave(m)
     \/ m.kind = "start" /\ ~MayStart(m)
     \/ m.kind = "baseline" /\ ~MayBeBaseline(m)
  /\ UNCHANGED server
  /\ ActionFails(t, m)

Known(q) == \E r \in DOMAIN Runs : Runs[r].asked.kind = "post" /\ Runs[r].asked.request = q

Source(q) ==
  /\ q.source \in DOMAIN Runs
  /\ IsOver(Runs[q.source]) /\ Runs[q.source].results
  /\ SameTasks(Runs[q.source], workspace)

\* Mutant: a POST to be tried again is taken for one under way.
StillSending(t) == UNCHANGED sending
StopsSending(t) == sending' = [sending EXCEPT ![t] = FALSE]

(* A newer commit stays pending, and the request's own until its run is    *)
(* registered; the next flush tries again.                                 *)
PostAccepted(t, m) ==
  /\ pending' = [pending EXCEPT ![t] = IF @ = m.request THEN Null ELSE @]
  /\ Then(t, m, Load("flush", FALSE))
  /\ UNCHANGED <<sending, busy, editing, interactive>>

TryAgain(t, m) ==
  /\ StopsSending(t)
  /\ Forget(t, m)
  /\ UNCHANGED <<pending, busy, editing, interactive>>

(* The error branch does not look whether a newer commit is pending.       *)
PostFails(t, m) ==
  /\ pending' = [pending EXCEPT ![t] = Null]
  /\ sending' = [sending EXCEPT ![t] = FALSE]
  /\ Forget(t, m)
  /\ UNCHANGED <<busy, editing, interactive>>

(* start_run and register for an interactive run: an active interactive    *)
(* run is superseded and cancelled, an active manual run is waited for.    *)
Supersede ==
  /\ workspace' = [workspace EXCEPT !.runs =
       [r \in DOMAIN @ |->
          IF r \in ActiveIn(workspace) /\ @[r].intent = "interactive"
            THEN [@[r] EXCEPT !.superseded = TRUE, !.state = "cancelling"]
            ELSE @[r]]]
  /\ UNCHANGED recent

PostEffect(m) ==
  IF Known(m.request) \/ ~Source(m.request) THEN UNCHANGED server
  ELSE IF ActiveIn(workspace) # {} THEN Supersede
  ELSE IF ~recent /\ HasRoom THEN Register(NewRun("interactive", Runs[m.request.source].inputs, m))
  ELSE UNCHANGED server

Post(t, m) ==
  /\ m.kind = "post" /\ PostEffect(m)
  /\ IF Known(m.request) THEN PostAccepted(t, m)
     ELSE IF ~Source(m.request) THEN PostFails(t, m)
     ELSE IF ActiveIn(workspace) # {} \/ recent THEN TryAgain(t, m)
     ELSE IF HasRoom THEN PostAccepted(t, m) ELSE PostFails(t, m)

Serve(t, m) ==
  /\ m \in msgs[t]
  /\ \/ m.kind = "save" /\ Save(t, m)
     \/ Answered(t, m) \/ Refused(t, m) \/ Post(t, m)
  /\ UNCHANGED <<shown, pressed>>

(* A connection fails before the request is served, or its answer is lost. *)
Fail(t, m) ==
  /\ m \in msgs[t]
  /\ \/ UNCHANGED server
     \/ ActionEffect(m)
     \/ m.kind = "post" /\ PostEffect(m)
  /\ IF m \in Acts(t) THEN ActionFails(t, m) ELSE PostFails(t, m)
  /\ UNCHANGED <<shown, pressed>>

(* load, with the rest of the function that awaits it.                     *)
Reloaded(t, m) ==
  /\ m \in msgs[t] /\ m.kind = "load"
  /\ shown' = [shown EXCEPT ![t] = View(workspace)]
  /\ IF m.restore
       THEN /\ editor' = [editor EXCEPT ![t] = workspace.saved]
            /\ base' = [base EXCEPT ![t] = workspace.revision]
            /\ dirty' = [dirty EXCEPT ![t] = TRUE]
            /\ preview' = [preview EXCEPT ![t] = Null]
       ELSE UNCHANGED editing
  /\ busy' = [busy EXCEPT ![t] = @ /\ m.for # "action"]
  /\ sending' = [sending EXCEPT ![t] = @ /\ m.for # "flush"]
  /\ Forget(t, m)
  /\ UNCHANGED <<server, interactive, pending, pressed>>

-----------------------------------------------------------------------------
(* Runs and time                                                           *)

(* A run gets over; the first one with results becomes the baseline.       *)
FinishRun(r) ==
  /\ r \in ActiveIn(workspace)
  /\ \E ok \in BOOLEAN :
       workspace' = [workspace EXCEPT
         !.runs[r].state = "over", !.runs[r].results = ok,
         !.baseline = IF @ = Null /\ ok /\ ~Runs[r].superseded
                           /\ SameTasks(Runs[r], workspace) THEN r ELSE @]
  /\ UNCHANGED <<recent, msgs, shown, editing, busy, exploring, pressed>>

MomentPasses ==
  /\ recent
  /\ recent' = FALSE
  /\ UNCHANGED <<workspace, msgs, shown, editing, busy, exploring, pressed>>

-----------------------------------------------------------------------------
(* The whole                                                               *)

Next ==
  \/ \E t \in Tabs :
       \/ \E i \in Inputs : Edit(t, i)
       \/ Preview(t) \/ StartManual(t) \/ Cancel(t) \/ Reload(t) \/ Toggle(t) \/ Commit(t)
       \/ \E r \in RunNumbers : UseAsBaseline(t, r)
       \/ Flush(t) \/ Poll(t)
       \/ \E m \in msgs[t] : Serve(t, m) \/ Fail(t, m) \/ Reloaded(t, m)
  \/ \E r \in RunNumbers : FinishRun(r)
  \/ MomentPasses

Spec == Init /\ [][Next]_vars

(* The application serves, connections deliver or fail, timers tick, and   *)
(* runs get over, which they do while the simulation service answers.  The *)
(* user need not do anything.                                              *)
LiveSpec ==
  /\ Spec
  /\ \A t \in Tabs :
       /\ WF_vars(Flush(t))
       /\ WF_vars(\E m \in msgs[t] \ Acts(t) : Serve(t, m) \/ Reloaded(t, m))
  /\ WF_vars(\E r \in RunNumbers : FinishRun(r))
  /\ WF_vars(MomentPasses)

-----------------------------------------------------------------------------
(* Properties                                                              *)

(* A manual run executes the inputs of the preview whose run was asked     *)
(* for, whatever other tabs save or choose as baseline in between.         *)
ManualRunsPreviewed ==
  \A r \in DOMAIN Runs :
    Runs[r].intent = "manual" => Runs[r].inputs = Runs[r].asked.preview.inputs

(* The interactive changes of a tab become runs in the order in which they *)
(* were committed, each at most once.                                      *)
ChangesInOrder ==
  \A r, s \in DOMAIN Runs :
    /\ r < s
    /\ Runs[r].intent = "interactive" /\ Runs[s].intent = "interactive"
    /\ Runs[r].asked.request.tab = Runs[s].asked.request.tab
    => Runs[r].asked.request.n < Runs[s].asked.request.n

(* A committed change does not stay pending: it supersedes the change that *)
(* runs, outlasts a manual run and the rate limit, or fails.               *)
CommitsSettle == \A t \in Tabs : pending[t] # Null ~> pending[t] = Null

(* "return a conflict for stale edits, including edits from a second       *)
(* browser tab": what a save replaces is what its editors were loaded from *)
(* or saved to.                                                            *)
StaleEditsRefused ==
  [][\A t \in Tabs : \A m \in msgs[t] :
       m.kind = "save" /\ Save(t, m)
         => m.base = workspace.revision \/ m.inputs = workspace.saved]_vars

=============================================================================
