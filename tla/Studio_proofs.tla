---------------------------- MODULE Studio_proofs ----------------------------
(***************************************************************************)
(* Proofs about the browser interface, for any number of tabs, revisions   *)
(* and runs, and anything users press: a manual run executes what was      *)
(* previewed, and interactive changes become runs in their order.          *)
(***************************************************************************)
EXTENDS Studio, FiniteSetTheorems, SequenceTheorems, TLAPS

-----------------------------------------------------------------------------
(* What the variables hold.                                                *)

Previews == [revision : Revisions, inputs : Inputs]
Requests(t) == [tab : {t}, n : Nat, source : RunNumbers]

SaveMessages ==
  [kind : {"save"}, inputs : Inputs, expected : Revisions, base : Revisions]
StartMessages == [kind : {"start"}, preview : Previews]
RunMessages == [kind : {"cancel", "baseline"}, run : RunNumbers]
LoadMessages ==
  [kind : {"load"}, for : {"action", "flush"}, restore : BOOLEAN]
PostMessages(t) == [kind : {"post"}, request : Requests(t)]

Messages(t) ==
  SaveMessages \cup StartMessages \cup RunMessages \cup LoadMessages
    \cup PostMessages(t)

AllPosts == UNION {PostMessages(t) : t \in Tabs}

(* A run remembers the request that asked for it.                          *)
RunRecord ==
  [state : {"running", "cancelling", "over"}, intent : {"manual", "interactive"},
   results : BOOLEAN, superseded : BOOLEAN, inputs : Inputs,
   asked : StartMessages \cup AllPosts]

Workspace ==
  [revision : Revisions, saved : Inputs, baseline : RunNumbers \cup {Null},
   runs : Seq(RunRecord)]

AskedInKind ==
  \A r \in DOMAIN Runs :
    \/ Runs[r].intent = "manual" /\ Runs[r].asked \in StartMessages
    \/ Runs[r].intent = "interactive" /\ Runs[r].asked \in AllPosts

OneActive == \A r, s \in ActiveIn(workspace) : r = s

ServerInv ==
  /\ workspace \in Workspace /\ Len(Runs) <= MaxRuns
  /\ recent \in BOOLEAN
  /\ AskedInKind
  /\ OneActive
  /\ ManualRunsPreviewed

(* The views and messages refer to known runs.                             *)
ViewOK(v, known) ==
  /\ v.revision \in Revisions
  /\ v.baseline \in RunNumbers \cup {Null}
  /\ v.active \subseteq known
  /\ v.over \subseteq known

MessageOK(t, m, known) ==
  /\ m \in Messages(t)
  /\ m \in RunMessages => m.run \in known

ViewsOK ==
  DOMAIN shown = Tabs /\ \A t \in Tabs : ViewOK(shown[t], DOMAIN Runs)

MessagesOK ==
  /\ DOMAIN msgs = Tabs
  /\ \A t \in Tabs : \A m \in msgs[t] : MessageOK(t, m, DOMAIN Runs)

EditorsOK ==
  /\ editor \in [Tabs -> Inputs] /\ base \in [Tabs -> Revisions]
  /\ dirty \in [Tabs -> BOOLEAN] /\ busy \in [Tabs -> BOOLEAN]
  /\ preview \in [Tabs -> Previews \cup {Null}]
  /\ interactive \in [Tabs -> BOOLEAN] /\ sending \in [Tabs -> BOOLEAN]
  /\ DOMAIN pending = Tabs
  /\ \A t \in Tabs : pending[t] # Null => pending[t] \in Requests(t)
  /\ pressed \in 0..MaxPressed

TabInv == ViewsOK /\ MessagesOK /\ EditorsOK

(* Requests of a tab: those that became runs, the one under way, and the   *)
(* change that waits.  Each is followed only by later ones, or is the same *)
(* again after a POST whose answer was lost.                               *)
Registered(t) ==
  {Runs[r].asked.request : r \in
     {r \in DOMAIN Runs : /\ Runs[r].intent = "interactive"
                          /\ Runs[r].asked.request.tab = t}}

IsFlight(m) == m.kind = "post" \/ (m.kind = "load" /\ m.for # "action")
Flights(t) == {m \in msgs[t] : IsFlight(m)}

NotBefore(q, c) == q.n < c.n \/ q = c

OneFlight(t) ==
  /\ \A m1, m2 \in Flights(t) : m1 = m2
  /\ Flights(t) # {} => sending[t]

InTurn(t) ==
  /\ \A q \in Registered(t) : q.n <= pressed
  /\ pending[t] # Null =>
       /\ pending[t].n <= pressed
       /\ \A q \in Registered(t) : NotBefore(q, pending[t])
  /\ \A m \in msgs[t] : m.kind = "post" =>
       /\ m.request.n <= pressed
       /\ \A q \in Registered(t) : NotBefore(q, m.request)
       /\ pending[t] # Null => NotBefore(m.request, pending[t])

OrderInv ==
  /\ \A t \in Tabs : OneFlight(t) /\ InTurn(t)
  /\ ChangesInOrder

StudioInv == ServerInv /\ TabInv /\ OrderInv

-----------------------------------------------------------------------------
(* Steps of the application.  Runs are added at the end and keep what they *)
(* were asked for.                                                         *)

KeepsRuns ==
  /\ DOMAIN Runs \subseteq DOMAIN Runs'
  /\ \A r \in DOMAIN Runs : /\ Runs'[r].asked = Runs[r].asked
                            /\ Runs'[r].intent = Runs[r].intent

SameRuns == KeepsRuns /\ DOMAIN Runs' = DOMAIN Runs

AddsRun(intent, m) ==
  /\ KeepsRuns
  /\ DOMAIN Runs' = DOMAIN Runs \cup {Len(Runs) + 1}
  /\ Runs'[Len(Runs) + 1].asked = m
  /\ Runs'[Len(Runs) + 1].intent = intent

LEMMA RunsTyped ==
  ASSUME workspace \in Workspace
  PROVE  /\ Runs \in Seq(RunRecord) /\ Len(Runs) \in Nat
         /\ DOMAIN Runs = 1..Len(Runs)
         /\ \A r \in DOMAIN Runs : Runs[r] \in RunRecord
<1>1. Runs \in Seq(RunRecord)
  BY DEF Workspace, Runs
<1>2. QED
  BY <1>1, LenProperties, ElementOfSeq

(* A step that changes neither what runs are nor which ones are over.      *)
LEMMA RunsReplaced ==
  ASSUME ServerInv, workspace' \in Workspace, recent' \in BOOLEAN,
         DOMAIN Runs' = DOMAIN Runs,
         \A r \in DOMAIN Runs :
           /\ Runs'[r].asked = Runs[r].asked /\ Runs'[r].intent = Runs[r].intent
           /\ Runs'[r].inputs = Runs[r].inputs
           /\ IsOver(Runs[r]) => IsOver(Runs'[r])
  PROVE  ServerInv' /\ SameRuns
<1>1. Len(Runs') = Len(Runs)
  <2>1. DOMAIN Runs = 1..Len(Runs) /\ Len(Runs) \in Nat
    BY RunsTyped DEF ServerInv
  <2>2. DOMAIN Runs' = 1..Len(Runs') /\ Len(Runs') \in Nat
    BY LenProperties DEF Workspace, Runs
  <2>3. QED
    BY <2>1, <2>2
<1>2. SameRuns
  BY DEF SameRuns, KeepsRuns
<1>3. OneActive'
  BY DEF OneActive, ActiveIn, ServerInv, Runs
<1>4. AskedInKind' /\ ManualRunsPreviewed'
  BY DEF AskedInKind, ManualRunsPreviewed, ServerInv
<1>5. QED
  BY <1>1, <1>2, <1>3, <1>4 DEF ServerInv

LEMMA ServerUnchanged ==
  ASSUME ServerInv, UNCHANGED server
  PROVE  ServerInv' /\ SameRuns
  BY DEF ServerInv, server, SameRuns, KeepsRuns, AskedInKind, OneActive,
         ManualRunsPreviewed, ActiveIn, Runs

LEMMA SaveEditorServed ==
  ASSUME ServerInv, NEW m \in SaveMessages, SaveEditor(m)
  PROVE  ServerInv' /\ SameRuns
<1>1. workspace \in Workspace /\ workspace.revision + 1 \in Revisions
  BY StudioAssumption DEF SaveEditor, MaySave, ServerInv, Workspace, Revisions
<1>2. PICK b \in RunNumbers \cup {Null} :
        workspace' = [workspace EXCEPT !.saved = m.inputs,
                        !.revision = workspace.revision + 1, !.baseline = b]
  BY <1>1 DEF SaveEditor, Workspace
<1>3. workspace' \in Workspace /\ Runs' = Runs
  BY <1>1, <1>2 DEF Workspace, SaveMessages, Runs
<1>4. QED
  BY <1>3, RunsReplaced DEF SaveEditor, ServerInv

LEMMA BaselineServed ==
  ASSUME ServerInv, NEW m \in RunMessages, m.run \in DOMAIN Runs, Baseline(m)
  PROVE  ServerInv' /\ SameRuns
<1>1. Runs[m.run] \in RunRecord
  BY RunsTyped DEF ServerInv
<1>2. workspace \in Workspace /\ workspace.revision + 1 \in Revisions
  BY StudioAssumption DEF Baseline, MayBeBaseline, ServerInv, Workspace, Revisions
<1> DEFINE inputs == [workspace.saved EXCEPT !.tasks = Runs[m.run].inputs.tasks]
<1>3. workspace' = [workspace EXCEPT !.baseline = m.run, !.saved = inputs,
                                     !.revision = workspace.revision + 1]
  BY <1>2 DEF Baseline, Workspace
<1>4. m.run \in RunNumbers /\ inputs \in Inputs
  <2>1. workspace.saved \in Inputs /\ Runs[m.run].inputs \in Inputs
    BY <1>1, <1>2 DEF RunRecord, Workspace
  <2>2. QED
    BY <2>1 DEF RunMessages, Inputs
<1> HIDE DEF inputs
<1>5. workspace' \in Workspace /\ Runs' = Runs
  BY <1>2, <1>3, <1>4 DEF Workspace, Runs
<1>6. QED
  BY <1>5, RunsReplaced DEF Baseline, ServerInv

(* Replacing one run by the same run in another state.                     *)
LEMMA RunChanged ==
  ASSUME ServerInv, NEW r \in DOMAIN Runs, NEW run \in RunRecord,
         run.asked = Runs[r].asked, run.intent = Runs[r].intent,
         run.inputs = Runs[r].inputs, IsOver(Runs[r]) => IsOver(run),
         NEW b \in RunNumbers \cup {Null},
         workspace' = [workspace EXCEPT !.runs[r] = run, !.baseline = b],
         recent' \in BOOLEAN
  PROVE  ServerInv' /\ SameRuns
<1>1. /\ Runs \in Seq(RunRecord) /\ DOMAIN Runs = 1..Len(Runs) /\ Len(Runs) \in Nat
  BY RunsTyped DEF ServerInv
<1>2. Runs' = [Runs EXCEPT ![r] = run]
  BY DEF ServerInv, Workspace, Runs
<1>3. Runs' \in Seq(RunRecord) /\ Len(Runs') = Len(Runs)
  BY <1>1, <1>2, ExceptSeq
<1>4. workspace' \in Workspace
  BY <1>3 DEF ServerInv, Workspace, Runs
<1>5. DOMAIN Runs' = DOMAIN Runs /\ \A s \in DOMAIN Runs : s # r => Runs'[s] = Runs[s]
  BY <1>1, <1>2
<1>6. Runs'[r] = run
  BY <1>1, <1>2
<1>7. \A s \in DOMAIN Runs :
        /\ Runs'[s].asked = Runs[s].asked /\ Runs'[s].intent = Runs[s].intent
        /\ Runs'[s].inputs = Runs[s].inputs
        /\ IsOver(Runs[s]) => IsOver(Runs'[s])
  BY <1>5, <1>6
<1>8. QED
  BY <1>4, <1>5, <1>7, RunsReplaced

LEMMA CancelServed ==
  ASSUME ServerInv, NEW m \in RunMessages, m.run \in DOMAIN Runs, CancelRun(m)
  PROVE  ServerInv' /\ SameRuns
<1> DEFINE r == m.run
           run == [Runs[r] EXCEPT !.state = "cancelling"]
<1>1. Runs[r] \in RunRecord /\ recent' \in BOOLEAN
  BY RunsTyped DEF ServerInv, CancelRun
<1>2. CASE IsOver(Runs[r])
  BY <1>2, ServerUnchanged DEF CancelRun, server
<1>3. CASE ~IsOver(Runs[r])
  <2>1. /\ run \in RunRecord /\ run.asked = Runs[r].asked
        /\ run.intent = Runs[r].intent /\ run.inputs = Runs[r].inputs
        /\ IsOver(Runs[r]) => IsOver(run)
    BY <1>1, <1>3 DEF RunRecord
  <2>2. workspace.baseline \in RunNumbers \cup {Null}
    BY DEF ServerInv, Workspace
  <2>3. workspace' = [workspace EXCEPT !.runs[r].state = "cancelling"]
    BY <1>3 DEF CancelRun
  <2>4. workspace' = [workspace EXCEPT !.runs[r] = run, !.baseline = workspace.baseline]
    BY <2>3 DEF ServerInv, Workspace, Runs
  <2> HIDE DEF run
  <2>5. QED
    BY <1>1, <2>1, <2>2, <2>4, RunChanged
<1>4. QED
  BY <1>2, <1>3

LEMMA FinishServed ==
  ASSUME ServerInv, NEW r \in RunNumbers, FinishRun(r)
  PROVE  ServerInv' /\ SameRuns
<1>1. r \in DOMAIN Runs /\ Runs[r] \in RunRecord /\ recent' \in BOOLEAN
  BY RunsTyped DEF ServerInv, FinishRun, ActiveIn, Runs
<1>2. PICK ok \in BOOLEAN :
        workspace' = [workspace EXCEPT
          !.runs[r].state = "over", !.runs[r].results = ok,
          !.baseline = IF @ = Null /\ ok /\ ~Runs[r].superseded
                            /\ SameTasks(Runs[r], workspace) THEN r ELSE @]
  BY DEF FinishRun
<1> DEFINE run == [Runs[r] EXCEPT !.state = "over", !.results = ok]
<1>3. PICK b \in RunNumbers \cup {Null} :
        workspace' = [workspace EXCEPT !.runs[r].state = "over",
                                       !.runs[r].results = ok, !.baseline = b]
  BY <1>2 DEF ServerInv, Workspace
<1>4. /\ run \in RunRecord /\ run.asked = Runs[r].asked
      /\ run.intent = Runs[r].intent /\ run.inputs = Runs[r].inputs
      /\ IsOver(Runs[r]) => IsOver(run)
  BY <1>1 DEF RunRecord, IsOver
<1>5. workspace' = [workspace EXCEPT !.runs[r] = run, !.baseline = b]
  BY <1>1, <1>3 DEF ServerInv, Workspace, Runs, RunRecord
<1> HIDE DEF run
<1>6. QED
  BY <1>1, <1>4, <1>5, RunChanged

LEMMA SupersedeServed ==
  ASSUME ServerInv, Supersede  PROVE ServerInv' /\ SameRuns
<1>1. /\ Runs \in Seq(RunRecord) /\ Len(Runs) \in Nat /\ DOMAIN Runs = 1..Len(Runs)
      /\ \A r \in DOMAIN Runs : Runs[r] \in RunRecord
  BY RunsTyped DEF ServerInv
<1> DEFINE run(r) == IF r \in ActiveIn(workspace) /\ Runs[r].intent = "interactive"
                       THEN [Runs[r] EXCEPT !.superseded = TRUE, !.state = "cancelling"]
                       ELSE Runs[r]
           new == [r \in DOMAIN Runs |-> run(r)]
<1>2. workspace' = [workspace EXCEPT !.runs = new]
  BY DEF Supersede, Runs, ServerInv, Workspace
<1>3. \A r \in DOMAIN Runs :
        /\ run(r) \in RunRecord /\ run(r).asked = Runs[r].asked
        /\ run(r).intent = Runs[r].intent /\ run(r).inputs = Runs[r].inputs
        /\ IsOver(Runs[r]) => IsOver(run(r))
  BY <1>1 DEF RunRecord, ActiveIn, Runs
<1>4. new \in [1..Len(Runs) -> RunRecord]
  BY <1>1, <1>3
<1>5. new \in Seq(RunRecord)
  <2> HIDE DEF new
  <2>1. QED
    BY <1>1, <1>4
<1>6. Runs' = new
  BY <1>2 DEF Runs, ServerInv, Workspace
<1>7. workspace' \in Workspace
  BY <1>2, <1>5 DEF ServerInv, Workspace
<1>8. \A r \in DOMAIN Runs :
        /\ Runs'[r].asked = Runs[r].asked /\ Runs'[r].intent = Runs[r].intent
        /\ Runs'[r].inputs = Runs[r].inputs
        /\ IsOver(Runs[r]) => IsOver(Runs'[r])
  BY <1>3, <1>6
<1>9. DOMAIN Runs' = DOMAIN Runs
  BY <1>6
<1>10. recent' \in BOOLEAN
  BY DEF Supersede, ServerInv
<1>11. QED
  BY <1>7, <1>8, <1>9, <1>10, RunsReplaced

(* A run is registered when none is active; a manual one executes what its *)
(* preview stands for.                                                     *)
LEMMA RegisterServed ==
  ASSUME ServerInv, NEW intent \in {"manual", "interactive"}, NEW m,
         NEW inputs \in Inputs, HasRoom, ActiveIn(workspace) = {},
         Register(NewRun(intent, inputs, m)),
         \/ /\ intent = "manual" /\ m \in StartMessages
            /\ UpToDate(m) /\ inputs = workspace.saved
         \/ intent = "interactive" /\ m \in AllPosts
  PROVE  ServerInv' /\ AddsRun(intent, m)
<1> DEFINE run == NewRun(intent, inputs, m)
<1>1. /\ Runs \in Seq(RunRecord) /\ Len(Runs) \in Nat /\ DOMAIN Runs = 1..Len(Runs)
      /\ workspace \in Workspace
  BY RunsTyped DEF ServerInv, Workspace
<1>2. /\ run \in RunRecord /\ run.intent = intent /\ run.asked = m
      /\ run.inputs = inputs /\ ~IsOver(run)
  BY <1>1 DEF NewRun, RunRecord, IsOver
<1>3. workspace' = [workspace EXCEPT !.runs = Append(Runs, run)] /\ recent' = TRUE
  BY <1>1 DEF Register, Runs, Workspace
<1>4. Runs' = Append(Runs, run)
  BY <1>1, <1>3 DEF Runs, Workspace
<1> HIDE DEF run
<1>5. /\ Runs' \in Seq(RunRecord) /\ Len(Runs') = Len(Runs) + 1
      /\ \A r \in 1..Len(Runs) : Runs'[r] = Runs[r]
      /\ Runs'[Len(Runs) + 1] = run
      /\ DOMAIN Runs' = 1..(Len(Runs) + 1)
  BY <1>1, <1>2, <1>4, AppendProperties, LenProperties
<1>6. workspace' \in Workspace
  BY <1>1, <1>3, <1>4, <1>5 DEF Workspace
<1>7. DOMAIN Runs' = DOMAIN Runs \cup {Len(Runs) + 1}
  BY <1>1, <1>5
<1>8. AddsRun(intent, m)
  BY <1>1, <1>2, <1>5, <1>7 DEF AddsRun, KeepsRuns
<1>9. Len(Runs') <= MaxRuns
  BY <1>1, <1>5, StudioAssumption DEF HasRoom
<1>10. OneActive'
  <2>1. \A r \in DOMAIN Runs : IsOver(Runs[r])
    BY DEF ActiveIn, Runs
  <2>2. \A r \in DOMAIN Runs' : r # Len(Runs) + 1 => IsOver(Runs'[r])
    BY <1>1, <1>5, <1>7, <2>1
  <2>3. QED
    BY <2>2 DEF OneActive, ActiveIn, Runs
<1>11. AskedInKind'
  BY <1>1, <1>2, <1>5, <1>7 DEF AskedInKind, ServerInv
<1>12. ManualRunsPreviewed'
  <2>1. run.intent = "manual" => run.inputs = run.asked.preview.inputs
    BY <1>2 DEF UpToDate, PreviewOf, StartMessages, Previews
  <2>2. QED
    BY <1>1, <1>5, <1>7, <2>1 DEF ManualRunsPreviewed, ServerInv
<1>13. QED
  BY <1>3, <1>6, <1>8, <1>9, <1>10, <1>11, <1>12 DEF ServerInv

-----------------------------------------------------------------------------
(* What serving a request of tab t does to the runs.                       *)

Effect(m) ==
  \/ SameRuns
  \/ AddsRun("manual", m)
  \/ AddsRun("interactive", m) /\ m.kind = "post" /\ ~Known(m.request)

LEMMA MessageKinds ==
  ASSUME NEW t \in Tabs, NEW m \in Messages(t)
  PROVE  /\ m.kind = "save" <=> m \in SaveMessages
         /\ m.kind = "start" <=> m \in StartMessages
         /\ m.kind \in {"cancel", "baseline"} <=> m \in RunMessages
         /\ m.kind = "load" <=> m \in LoadMessages
         /\ m.kind = "post" <=> m \in PostMessages(t)
         /\ m.kind = "post" => m \in AllPosts
         /\ m.kind = "post" => m.request \in Requests(t)
  BY DEF Messages, SaveMessages, StartMessages, RunMessages, LoadMessages,
         PostMessages, AllPosts

LEMMA ActionServed ==
  ASSUME ServerInv, NEW t \in Tabs, NEW m, MessageOK(t, m, DOMAIN Runs),
         ActionEffect(m)
  PROVE  ServerInv' /\ Effect(m)
<1>1. CASE m.kind = "save" /\ SaveEditor(m)
  BY <1>1, MessageKinds, SaveEditorServed DEF MessageOK, Effect
<1>2. CASE m.kind = "start" /\ StartManualRun(m)
  <2>1. m \in StartMessages
    BY <1>2, MessageKinds DEF MessageOK
  <2>2. workspace.saved \in Inputs
    BY DEF ServerInv, Workspace
  <2>3. QED
    BY <1>2, <2>1, <2>2, RegisterServed DEF StartManualRun, MayStart, Effect
<1>3. CASE m.kind = "cancel" /\ CancelRun(m)
  BY <1>3, MessageKinds, CancelServed DEF MessageOK, Effect
<1>4. CASE m.kind = "baseline" /\ Baseline(m)
  BY <1>4, MessageKinds, BaselineServed DEF MessageOK, Effect
<1>5. QED
  BY <1>1, <1>2, <1>3, <1>4 DEF ActionEffect

LEMMA PostServed ==
  ASSUME ServerInv, NEW t \in Tabs, NEW m, MessageOK(t, m, DOMAIN Runs),
         m.kind = "post", PostEffect(m)
  PROVE  ServerInv' /\ Effect(m)
<1>1. CASE UNCHANGED server
  BY <1>1, ServerUnchanged DEF Effect
<1>2. CASE Supersede
  BY <1>2, SupersedeServed DEF Effect
<1>3. CASE /\ ~Known(m.request) /\ ActiveIn(workspace) = {} /\ HasRoom
           /\ Source(m.request)
           /\ Register(NewRun("interactive", Runs[m.request.source].inputs, m))
  <2>1. m \in AllPosts
    BY MessageKinds DEF MessageOK
  <2>2. Runs[m.request.source].inputs \in Inputs
    BY <1>3, RunsTyped DEF Source, ServerInv, RunRecord
  <2>3. QED
    BY <1>3, <2>1, <2>2, RegisterServed DEF Effect
<1>4. QED
  BY <1>1, <1>2, <1>3 DEF PostEffect

LEMMA EffectKeeps ==
  ASSUME NEW m, Effect(m)
  PROVE  DOMAIN Runs \subseteq DOMAIN Runs'
  BY DEF Effect, SameRuns, AddsRun, KeepsRuns

(* The requests that became runs, after a step that registers no change.   *)
LEMMA RegisteredSame ==
  ASSUME ServerInv, ChangesInOrder,
         SameRuns \/ \E m : AddsRun("manual", m)
  PROVE  ChangesInOrder' /\ \A t \in Tabs : Registered(t)' = Registered(t)
<1>1. /\ \A r \in DOMAIN Runs : /\ Runs'[r].asked = Runs[r].asked
                                /\ Runs'[r].intent = Runs[r].intent
      /\ DOMAIN Runs \subseteq DOMAIN Runs'
      /\ \A r \in DOMAIN Runs' \ DOMAIN Runs : Runs'[r].intent # "interactive"
  BY DEF SameRuns, AddsRun, KeepsRuns
<1>2. \A r \in DOMAIN Runs' : Runs'[r].intent = "interactive" =>
        r \in DOMAIN Runs /\ Runs[r].intent = "interactive"
  BY <1>1
<1>3. ChangesInOrder'
  BY <1>1, <1>2 DEF ChangesInOrder
<1>4. ASSUME NEW t \in Tabs  PROVE Registered(t)' = Registered(t)
  <2>1. {r \in DOMAIN Runs' : Runs'[r].intent = "interactive"
                                /\ Runs'[r].asked.request.tab = t}
          = {r \in DOMAIN Runs : Runs[r].intent = "interactive"
                                   /\ Runs[r].asked.request.tab = t}
    BY <1>1, <1>2
  <2>2. QED
    BY <1>1, <2>1 DEF Registered
<1>5. QED
  BY <1>3, <1>4

(* A change that is registered comes after all those registered before.    *)
LEMMA RegisteredMore ==
  ASSUME ServerInv, ChangesInOrder, NEW t \in Tabs, NEW m \in PostMessages(t),
         AddsRun("interactive", m), ~Known(m.request),
         \A q \in Registered(t) : NotBefore(q, m.request)
  PROVE  /\ ChangesInOrder'
         /\ Registered(t)' = Registered(t) \cup {m.request}
         /\ \A u \in Tabs \ {t} : Registered(u)' = Registered(u)
<1> DEFINE new == Len(Runs) + 1
<1>1. /\ \A r \in DOMAIN Runs : /\ Runs'[r].asked = Runs[r].asked
                                /\ Runs'[r].intent = Runs[r].intent
      /\ DOMAIN Runs' = DOMAIN Runs \cup {new}
      /\ Runs'[new].asked = m /\ Runs'[new].intent = "interactive"
  BY DEF AddsRun, KeepsRuns
<1>2. DOMAIN Runs = 1..Len(Runs) /\ Len(Runs) \in Nat /\ new \notin DOMAIN Runs
      /\ new \in Nat /\ \A r \in DOMAIN Runs : r \in Nat /\ r < new
  BY RunsTyped DEF ServerInv
<1>3. m.request.tab = t /\ m.kind = "post"
  BY DEF PostMessages, Requests
<1>4. \A r \in DOMAIN Runs : Runs[r].intent = "interactive" =>
        Runs[r].asked.kind = "post"
  BY DEF ServerInv, AskedInKind, AllPosts, PostMessages
<1>5. \A q \in Registered(t) : q # m.request
  BY <1>4 DEF Registered, Known
<1>6. \A q \in Registered(t) : q.n < m.request.n
  BY <1>5 DEF NotBefore
<1> HIDE DEF new
<1>7. ChangesInOrder'
  <2>1. SUFFICES ASSUME NEW r \in DOMAIN Runs', NEW s \in DOMAIN Runs', r < s,
                        Runs'[r].intent = "interactive", Runs'[s].intent = "interactive",
                        Runs'[r].asked.request.tab = Runs'[s].asked.request.tab
                 PROVE  Runs'[r].asked.request.n < Runs'[s].asked.request.n
    BY DEF ChangesInOrder
  <2>2. CASE s \in DOMAIN Runs
    <3>1. r \in DOMAIN Runs
      BY <1>1, <1>2, <2>1, <2>2
    <3>2. QED
      BY <1>1, <2>1, <2>2, <3>1 DEF ChangesInOrder
  <2>3. CASE s \notin DOMAIN Runs
    <3>1. s = new /\ r \in DOMAIN Runs
      BY <1>1, <1>2, <2>1, <2>3
    <3>2. Runs[r].asked.request \in Registered(t)
      BY <1>1, <1>3, <2>1, <3>1 DEF Registered
    <3>3. QED
      BY <1>1, <1>6, <3>1, <3>2
  <2>4. QED
    BY <2>2, <2>3
<1>8. ASSUME NEW u \in Tabs
      PROVE  Registered(u)' = IF u = t THEN Registered(t) \cup {m.request}
                              ELSE Registered(u)
  <2> DEFINE old == {r \in DOMAIN Runs : Runs[r].intent = "interactive"
                                           /\ Runs[r].asked.request.tab = u}
             all == {r \in DOMAIN Runs' : Runs'[r].intent = "interactive"
                                            /\ Runs'[r].asked.request.tab = u}
  <2>1. all = IF u = t THEN old \cup {new} ELSE old
    BY <1>1, <1>2, <1>3
  <2>2. \A r \in old : Runs'[r].asked.request = Runs[r].asked.request
    BY <1>1
  <2>3. Registered(u) = {Runs[r].asked.request : r \in old}
        /\ Registered(u)' = {Runs'[r].asked.request : r \in all}
    BY DEF Registered
  <2> HIDE DEF old, all
  <2>4. QED
    BY <1>1, <2>1, <2>2, <2>3
<1>9. QED
  BY <1>7, <1>8

-----------------------------------------------------------------------------
(* Steps of the tabs.                                                      *)

LEMMA ViewStays ==
  ASSUME NEW known, NEW more, known \subseteq more
  PROVE  /\ \A v : ViewOK(v, known) => ViewOK(v, more)
         /\ \A t, m : MessageOK(t, m, known) => MessageOK(t, m, more)
  BY DEF ViewOK, MessageOK

LEMMA ViewTyped ==
  ASSUME ServerInv  PROVE ViewOK(View(workspace), DOMAIN Runs)
  BY DEF ServerInv, Workspace, ViewOK, View, Listed, ActiveIn, Runs

LEMMA KnownRuns == ServerInv => DOMAIN Runs \subseteq RunNumbers
  BY RunsTyped, StudioAssumption DEF ServerInv, RunNumbers

(* Views and messages after a step that adds at most message m to those of *)
(* tab t.                                                                  *)
LEMMA ViewsKept ==
  ASSUME ViewsOK, DOMAIN Runs \subseteq DOMAIN Runs', shown' = shown
  PROVE  ViewsOK'
  BY ViewStays DEF ViewsOK

LEMMA MessagesKept ==
  ASSUME MessagesOK, DOMAIN Runs \subseteq DOMAIN Runs', DOMAIN msgs' = Tabs,
         \A u \in Tabs : \A m \in msgs'[u] :
           m \in msgs[u] \/ MessageOK(u, m, DOMAIN Runs)
  PROVE  MessagesOK'
  BY ViewStays DEF MessagesOK

LEMMA RegisteredTyped ==
  ASSUME ServerInv, NEW t \in Tabs, NEW q \in Registered(t)
  PROVE  q.n \in Nat /\ q.tab = t
<1>1. PICK r \in DOMAIN Runs :
        /\ Runs[r].intent = "interactive" /\ Runs[r].asked.request.tab = t
        /\ q = Runs[r].asked.request
  BY DEF Registered
<1>2. Runs[r].asked \in AllPosts
  BY <1>1 DEF ServerInv, AskedInKind
<1>3. QED
  BY <1>1, <1>2 DEF AllPosts, PostMessages, Requests

(* The order of the changes after a step that sends and registers none.    *)
LEMMA OrderKept ==
  ASSUME ServerInv, TabInv, OrderInv, ChangesInOrder', pressed' \in Nat, pressed <= pressed',
         \A t \in Tabs :
           /\ OneFlight(t)'
           /\ Registered(t)' = Registered(t)
           /\ \A m \in msgs'[t] : m.kind = "post" => m \in msgs[t]
           /\ pending'[t] \in {pending[t], Null}
  PROVE  OrderInv'
<1>1. ASSUME NEW t \in Tabs  PROVE InTurn(t)'
  <2>1. InTurn(t) /\ pressed \in Nat
    BY DEF OrderInv, TabInv, EditorsOK
  <2>2. \A q \in Registered(t) : q.n \in Nat
    BY RegisteredTyped
  <2>3. pending[t] # Null => pending[t].n \in Nat
    BY DEF TabInv, EditorsOK, Requests
  <2>4. \A m \in msgs[t] : m.kind = "post" => m.request.n \in Nat
    BY MessageKinds DEF TabInv, MessagesOK, MessageOK, Requests
  <2>5. QED
    BY <2>1, <2>2, <2>3, <2>4 DEF InTurn
<1>2. QED
  BY <1>1 DEF OrderInv

(* A step that leaves the application alone.                               *)
LEMMA RunsUnchanged ==
  ASSUME ServerInv, TabInv, OrderInv, UNCHANGED server
  PROVE  /\ ServerInv' /\ DOMAIN Runs' = DOMAIN Runs /\ ChangesInOrder'
         /\ \A t \in Tabs : Registered(t)' = Registered(t)
<1>1. ServerInv' /\ SameRuns
  BY ServerUnchanged
<1>2. QED
  BY <1>1, RegisteredSame DEF SameRuns, OrderInv

(* A button is pressed in tab t: its request joins those under way.        *)
LEMMA ActKept ==
  ASSUME StudioInv, NEW t \in Tabs, NEW m, MessageOK(t, m, DOMAIN Runs),
         ~IsFlight(m), m.kind # "post", Act(t, m),
         interactive' \in [Tabs -> BOOLEAN], sending' = sending,
         pending' = pending \/ pending' = [pending EXCEPT ![t] = Null]
  PROVE  StudioInv'
<1>1. ServerInv /\ TabInv /\ OrderInv
  BY DEF StudioInv
<1>2. UNCHANGED server /\ shown' = shown /\ UNCHANGED editing
      /\ DOMAIN msgs = Tabs /\ msgs' = [msgs EXCEPT ![t] = @ \cup {m}]
      /\ busy' = [busy EXCEPT ![t] = TRUE]
      /\ pressed < MaxPressed /\ pressed' = pressed + 1
  BY <1>1 DEF Act, Send, Press, TabInv, MessagesOK
<1>3. /\ ServerInv' /\ DOMAIN Runs' = DOMAIN Runs /\ ChangesInOrder'
      /\ \A u \in Tabs : Registered(u)' = Registered(u)
  BY <1>1, <1>2, RunsUnchanged
<1>4. ViewsOK'
  BY <1>1, <1>2, <1>3, ViewsKept DEF TabInv
<1>5. MessagesOK'
  BY <1>1, <1>2, <1>3, MessagesKept DEF TabInv
<1>6. pressed' \in 0..MaxPressed /\ pressed' \in Nat /\ pressed <= pressed'
  BY <1>1, <1>2, StudioAssumption DEF TabInv, EditorsOK
<1>7. EditorsOK'
  BY <1>1, <1>2, <1>6 DEF TabInv, EditorsOK, editing
<1>8. \A u \in Tabs : Flights(u)' = Flights(u)
  BY <1>2 DEF Flights
<1>9. \A u \in Tabs : OneFlight(u)'
  BY <1>1, <1>8 DEF OneFlight, OrderInv
<1>10. \A u \in Tabs : /\ \A x \in msgs'[u] : x.kind = "post" => x \in msgs[u]
                       /\ pending'[u] \in {pending[u], Null}
  BY <1>1, <1>2 DEF TabInv, EditorsOK
<1>11. OrderInv'
  BY <1>1, <1>3, <1>6, <1>9, <1>10, OrderKept
<1>12. QED
  BY <1>3, <1>4, <1>5, <1>7, <1>11 DEF StudioInv, TabInv

LEMMA ButtonsKept ==
  ASSUME StudioInv, NEW t \in Tabs,
         \/ Preview(t) \/ StartManual(t) \/ Cancel(t) \/ Reload(t)
         \/ \E r \in RunNumbers : UseAsBaseline(t, r)
  PROVE  StudioInv'
<1>1. ServerInv /\ TabInv /\ OrderInv
  BY DEF StudioInv
<1>2. /\ interactive \in [Tabs -> BOOLEAN] /\ editor[t] \in Inputs
      /\ base[t] \in Revisions /\ preview[t] \in Previews \cup {Null}
      /\ ViewOK(shown[t], DOMAIN Runs)
  BY <1>1 DEF TabInv, EditorsOK, ViewsOK
<1>3. CASE Preview(t)
  <2> DEFINE m == [kind |-> "save", inputs |-> editor[t],
                   expected |-> shown[t].revision, base |-> base[t]]
  <2>1. m \in SaveMessages
    BY <1>2 DEF SaveMessages, ViewOK
  <2>2. MessageOK(t, m, DOMAIN Runs) /\ ~IsFlight(m) /\ m.kind # "post"
    BY <2>1 DEF MessageOK, Messages, IsFlight, RunMessages
  <2>3. Act(t, m) /\ UNCHANGED exploring
    BY <1>3 DEF Preview
  <2> HIDE DEF m
  <2>4. QED
    BY <1>2, <2>2, <2>3, ActKept DEF exploring
<1>4. CASE StartManual(t)
  <2> DEFINE m == [kind |-> "start", preview |-> preview[t]]
  <2>1. m \in StartMessages
    BY <1>2, <1>4 DEF StartMessages, StartManual
  <2>2. MessageOK(t, m, DOMAIN Runs) /\ ~IsFlight(m) /\ m.kind # "post"
    BY <2>1 DEF MessageOK, Messages, IsFlight, RunMessages
  <2>3. Act(t, m) /\ UNCHANGED exploring
    BY <1>4 DEF StartManual
  <2> HIDE DEF m
  <2>4. QED
    BY <1>2, <2>2, <2>3, ActKept DEF exploring
<1>5. CASE Cancel(t)
  <2>1. PICK r \in shown[t].active : Act(t, [kind |-> "cancel", run |-> r])
    BY <1>5 DEF Cancel
  <2> DEFINE m == [kind |-> "cancel", run |-> r]
  <2>2. r \in DOMAIN Runs /\ m \in RunMessages
    BY <1>1, <1>2, <2>1, KnownRuns DEF ViewOK, RunMessages
  <2>3. MessageOK(t, m, DOMAIN Runs) /\ ~IsFlight(m) /\ m.kind # "post"
    BY <2>2 DEF MessageOK, Messages, IsFlight
  <2>4. /\ Act(t, m) /\ sending' = sending
        /\ pending' = [pending EXCEPT ![t] = Null]
        /\ interactive' \in [Tabs -> BOOLEAN]
    BY <1>2, <1>5, <2>1 DEF Cancel
  <2> HIDE DEF m
  <2>5. QED
    BY <2>3, <2>4, ActKept
<1>6. CASE Reload(t)
  <2> DEFINE m == Load("action", TRUE)
  <2>1. m \in LoadMessages
    BY DEF LoadMessages, Load
  <2>2. MessageOK(t, m, DOMAIN Runs) /\ ~IsFlight(m) /\ m.kind # "post"
    BY <2>1 DEF MessageOK, Messages, IsFlight, RunMessages, Load
  <2>3. Act(t, m) /\ UNCHANGED exploring
    BY <1>6 DEF Reload
  <2> HIDE DEF m
  <2>4. QED
    BY <1>2, <2>2, <2>3, ActKept DEF exploring
<1>7. CASE \E r \in RunNumbers : UseAsBaseline(t, r)
  <2>1. PICK r \in RunNumbers : UseAsBaseline(t, r)
    BY <1>7
  <2> DEFINE m == [kind |-> "baseline", run |-> r]
  <2>2. r \in DOMAIN Runs /\ m \in RunMessages
    BY <1>2, <2>1 DEF ViewOK, RunMessages, UseAsBaseline
  <2>3. MessageOK(t, m, DOMAIN Runs) /\ ~IsFlight(m) /\ m.kind # "post"
    BY <2>2 DEF MessageOK, Messages, IsFlight
  <2>4. Act(t, m) /\ UNCHANGED exploring
    BY <2>1 DEF UseAsBaseline
  <2> HIDE DEF m
  <2>5. QED
    BY <1>2, <2>3, <2>4, ActKept DEF exploring
<1>8. QED
  BY <1>3, <1>4, <1>5, <1>6, <1>7

(* Editing, the toggle and the poll send nothing.                          *)
LEMMA QuietKept ==
  ASSUME StudioInv, NEW t \in Tabs,
         Toggle(t) \/ Poll(t) \/ \E i \in Inputs : Edit(t, i)
  PROVE  StudioInv'
<1>1. ServerInv /\ TabInv /\ OrderInv
  BY DEF StudioInv
<1>2. /\ UNCHANGED server /\ msgs' = msgs /\ sending' = sending /\ pressed' = pressed
      /\ DOMAIN pending' = Tabs
      /\ \A u \in Tabs : pending'[u] \in {pending[u], Null}
      /\ DOMAIN shown' = Tabs
      /\ \A u \in Tabs : shown'[u] \in {shown[u], View(workspace)}
  BY <1>1 DEF Toggle, Poll, Edit, exploring, editing, TabInv, EditorsOK, ViewsOK
<1>3. /\ ServerInv' /\ DOMAIN Runs' = DOMAIN Runs /\ ChangesInOrder'
      /\ \A u \in Tabs : Registered(u)' = Registered(u)
  BY <1>1, <1>2, RunsUnchanged
<1>4. ViewsOK'
  BY <1>1, <1>2, <1>3, ViewTyped DEF TabInv, ViewsOK
<1>5. MessagesOK'
  BY <1>1, <1>2, <1>3 DEF TabInv, MessagesOK
<1>6. EditorsOK'
  <2>1. /\ EditorsOK
        /\ \A u \in Tabs : pending'[u] # Null => pending'[u] \in Requests(u)
    BY <1>1, <1>2 DEF TabInv, EditorsOK
  <2>2. CASE Toggle(t)
    BY <1>2, <2>1, <2>2 DEF EditorsOK, Toggle, editing
  <2>3. CASE Poll(t)
    BY <1>2, <2>1, <2>3 DEF EditorsOK, Poll, exploring, editing
  <2>4. CASE \E i \in Inputs : Edit(t, i)
    <3>1. PICK i \in Inputs : Edit(t, i)
      BY <2>4
    <3>2. QED
      BY <1>2, <2>1, <3>1 DEF EditorsOK, Edit, exploring
  <2>5. QED
    BY <2>2, <2>3, <2>4
<1>7. \A u \in Tabs : OneFlight(u)'
  BY <1>1, <1>2 DEF OneFlight, Flights, OrderInv
<1>8. pressed' \in Nat /\ pressed <= pressed'
  BY <1>1, <1>2 DEF TabInv, EditorsOK
<1>9. OrderInv'
  BY <1>1, <1>2, <1>3, <1>7, <1>8, OrderKept
<1>10. QED
  BY <1>3, <1>4, <1>5, <1>6, <1>9 DEF StudioInv, TabInv

(* A change is committed: it comes after everything asked for before.      *)
LEMMA CommitKept ==
  ASSUME StudioInv, NEW t \in Tabs, Commit(t)
  PROVE  StudioInv'
<1>1. ServerInv /\ TabInv /\ OrderInv
  BY DEF StudioInv
<1>2. /\ UNCHANGED server /\ msgs' = msgs /\ sending' = sending /\ shown' = shown
      /\ UNCHANGED editing /\ busy' = busy /\ interactive' = interactive
      /\ pending' = [pending EXCEPT ![t] = Request(t, pressed', shown[t].baseline)]
      /\ shown[t].baseline # Null
      /\ pressed < MaxPressed /\ pressed' = pressed + 1
  BY DEF Commit, Press
<1>3. /\ ServerInv' /\ DOMAIN Runs' = DOMAIN Runs /\ ChangesInOrder'
      /\ \A u \in Tabs : Registered(u)' = Registered(u)
  BY <1>1, <1>2, RunsUnchanged
<1>4. ViewsOK' /\ MessagesOK'
  BY <1>1, <1>2, <1>3 DEF TabInv, ViewsOK, MessagesOK
<1>5. pressed \in Nat /\ pressed' \in 0..MaxPressed
  BY <1>1, <1>2, StudioAssumption DEF TabInv, EditorsOK
<1>6. shown[t].baseline \in RunNumbers
  BY <1>1, <1>2 DEF TabInv, ViewsOK, ViewOK
<1> DEFINE c == Request(t, pressed', shown[t].baseline)
<1>7. c \in Requests(t) /\ c.n = pressed + 1
  BY <1>2, <1>5, <1>6 DEF Request, Requests
<1>8. pending'[t] = c /\ \A u \in Tabs \ {t} : pending'[u] = pending[u]
  BY <1>1, <1>2 DEF TabInv, EditorsOK
<1> HIDE DEF c
<1>9. EditorsOK'
  BY <1>1, <1>2, <1>5, <1>7, <1>8 DEF TabInv, EditorsOK, editing
<1>10. ASSUME NEW u \in Tabs  PROVE OneFlight(u)' /\ InTurn(u)'
  <2>1. OneFlight(u) /\ InTurn(u)
    BY <1>1 DEF OrderInv
  <2>2. OneFlight(u)'
    BY <1>2, <2>1 DEF OneFlight, Flights
  <2>3. \A q \in Registered(u) : q.n \in Nat
    BY <1>1, RegisteredTyped
  <2>4. \A m \in msgs[u] : m.kind = "post" => m.request.n \in Nat
    BY <1>1, MessageKinds DEF TabInv, MessagesOK, MessageOK, Requests
  <2>5. pending[u] # Null => pending[u].n \in Nat
    BY <1>1 DEF TabInv, EditorsOK, Requests
  <2>6. InTurn(u)'
    <3>1. \A q \in Registered(u)' : q.n <= pressed'
      BY <1>2, <1>3, <1>5, <2>1, <2>3 DEF InTurn
    <3>2. \A m \in msgs'[u] : m.kind = "post" =>
            /\ m.request.n <= pressed'
            /\ \A q \in Registered(u)' : NotBefore(q, m.request)
      BY <1>2, <1>3, <1>5, <2>1, <2>4 DEF InTurn
    <3>3. CASE u = t
      BY <1>2, <1>3, <1>5, <1>7, <1>8, <2>1, <2>3, <2>4, <3>1, <3>2, <3>3
      DEF InTurn, NotBefore
    <3>4. CASE u # t
      BY <1>2, <1>3, <1>5, <1>8, <2>1, <2>5, <3>1, <3>2, <3>4 DEF InTurn
    <3>5. QED
      BY <3>3, <3>4
  <2>7. QED
    BY <2>2, <2>6
<1>11. QED
  BY <1>3, <1>4, <1>9, <1>10 DEF StudioInv, TabInv, OrderInv

(* The pending change is sent when no other is under way.                  *)
LEMMA FlushKept ==
  ASSUME StudioInv, NEW t \in Tabs, Flush(t)
  PROVE  StudioInv'
<1>1. ServerInv /\ TabInv /\ OrderInv
  BY DEF StudioInv
<1> DEFINE m == [kind |-> "post", request |-> pending[t]]
<1>2. /\ UNCHANGED server /\ shown' = shown /\ UNCHANGED editing /\ busy' = busy
      /\ interactive' = interactive /\ pending' = pending /\ pressed' = pressed
      /\ pending[t] # Null /\ ~sending[t]
      /\ sending' = [sending EXCEPT ![t] = TRUE]
      /\ msgs' = [msgs EXCEPT ![t] = @ \cup {m}]
  BY DEF Flush, MaySend, Send
<1>3. /\ ServerInv' /\ DOMAIN Runs' = DOMAIN Runs /\ ChangesInOrder'
      /\ \A u \in Tabs : Registered(u)' = Registered(u)
  BY <1>1, <1>2, RunsUnchanged
<1>4. m \in PostMessages(t) /\ MessageOK(t, m, DOMAIN Runs)
  <2>1. pending[t] \in Requests(t)
    BY <1>1, <1>2 DEF TabInv, EditorsOK
  <2>2. QED
    BY <2>1 DEF PostMessages, MessageOK, Messages, RunMessages
<1>5. m.kind = "post" /\ m.request = pending[t] /\ IsFlight(m)
  BY DEF IsFlight
<1> HIDE DEF m
<1>6. /\ DOMAIN msgs' = Tabs /\ msgs'[t] = msgs[t] \cup {m}
      /\ \A u \in Tabs \ {t} : msgs'[u] = msgs[u]
  BY <1>1, <1>2 DEF TabInv, MessagesOK
<1>7. ViewsOK' /\ EditorsOK'
  BY <1>1, <1>2, <1>3 DEF TabInv, ViewsOK, EditorsOK, editing
<1>8. MessagesOK'
  BY <1>1, <1>3, <1>4, <1>6, MessagesKept DEF TabInv
<1>9. ASSUME NEW u \in Tabs  PROVE OneFlight(u)' /\ InTurn(u)'
  <2>1. OneFlight(u) /\ InTurn(u) /\ InTurn(t) /\ OneFlight(t)
    BY <1>1 DEF OrderInv
  <2>2. CASE u = t
    <3>1. Flights(t)' = {m}
      BY <1>2, <1>5, <1>6, <2>1 DEF OneFlight, Flights
    <3>2. sending'[t]
      BY <1>1, <1>2 DEF TabInv, EditorsOK
    <3>3. \A x \in msgs[t] : x.kind # "post"
      BY <1>2, <2>1 DEF OneFlight, Flights, IsFlight
    <3>4. InTurn(t)'
      BY <1>2, <1>3, <1>5, <1>6, <2>1, <3>3 DEF InTurn, NotBefore
    <3>5. QED
      BY <2>2, <3>1, <3>2, <3>4 DEF OneFlight
  <2>3. CASE u # t
    BY <1>2, <1>3, <1>6, <1>7, <2>1, <2>3
    DEF OneFlight, Flights, InTurn, TabInv, EditorsOK
  <2>4. QED
    BY <2>2, <2>3
<1>10. QED
  BY <1>3, <1>7, <1>8, <1>9 DEF StudioInv, TabInv, OrderInv

-----------------------------------------------------------------------------
(* Serving a request m of tab t.                                           *)

(* A flight of t has ended, or goes on with the load after its run was     *)
(* registered; an action leaves the flights alone.                         *)
LEMMA ServedFlights ==
  ASSUME TabInv, OrderInv, NEW t \in Tabs, NEW m \in msgs[t],
         NEW next \in SUBSET LoadMessages,
         msgs' = [msgs EXCEPT ![t] = (@ \ {m}) \cup next],
         sending' \in [Tabs -> BOOLEAN],
         \A u \in Tabs \ {t} : sending'[u] = sending[u],
         \/ /\ ~IsFlight(m) /\ sending'[t] = sending[t]
            /\ \A x \in next : ~IsFlight(x)
         \/ IsFlight(m) /\ next = {}
         \/ /\ IsFlight(m) /\ sending'[t] = sending[t]
            /\ \A x, y \in next : x = y
  PROVE  /\ \A u \in Tabs : OneFlight(u)'
         /\ \A u \in Tabs : \A x \in msgs'[u] : x.kind = "post" => x \in msgs[u]
         /\ m.kind = "post" => \A x \in msgs'[t] : x.kind # "post"
<1>1. /\ DOMAIN msgs = Tabs /\ msgs'[t] = (msgs[t] \ {m}) \cup next
      /\ \A u \in Tabs \ {t} : msgs'[u] = msgs[u]
      /\ \A x \in next : x.kind # "post"
  BY DEF TabInv, MessagesOK, LoadMessages
<1>2. /\ OneFlight(t) /\ \A u \in Tabs \ {t} : OneFlight(u)
  BY DEF OrderInv
<1>3. OneFlight(t)'
  <2>1. CASE ~IsFlight(m)
    BY <1>1, <1>2, <2>1 DEF OneFlight, Flights
  <2>2. CASE IsFlight(m)
    <3>1. \A x \in msgs[t] \ {m} : ~IsFlight(x)
      BY <1>2, <2>2 DEF OneFlight, Flights
    <3>2. Flights(t)' \subseteq next
      BY <1>1, <3>1 DEF Flights
    <3>3. sending[t]
      BY <1>2, <2>2 DEF OneFlight, Flights
    <3>4. QED
      BY <2>2, <3>2, <3>3 DEF OneFlight
  <2>3. QED
    BY <2>1, <2>2
<1>4. \A u \in Tabs \ {t} : OneFlight(u)'
  BY <1>1, <1>2 DEF OneFlight, Flights
<1>5. m.kind = "post" => \A x \in msgs'[t] : x.kind # "post"
  BY <1>1, <1>2 DEF OneFlight, Flights, IsFlight
<1>6. QED
  BY <1>1, <1>3, <1>4, <1>5

(* Whatever became of a request, its effect and the end of its flight keep *)
(* the changes in order.                                                   *)
LEMMA ServedKept ==
  ASSUME StudioInv, NEW t \in Tabs, NEW m \in msgs[t],
         ServerInv', Effect(m), shown' = shown, pressed' = pressed, EditorsOK',
         NEW next \in SUBSET LoadMessages,
         msgs' = [msgs EXCEPT ![t] = (@ \ {m}) \cup next],
         \A u \in Tabs \ {t} : sending'[u] = sending[u],
         \/ /\ ~IsFlight(m) /\ sending'[t] = sending[t]
            /\ \A x \in next : ~IsFlight(x)
         \/ IsFlight(m) /\ next = {}
         \/ /\ IsFlight(m) /\ sending'[t] = sending[t]
            /\ \A x, y \in next : x = y,
         \A u \in Tabs : pending'[u] \in {pending[u], Null}
  PROVE  StudioInv'
<1>1. ServerInv /\ TabInv /\ OrderInv
  BY DEF StudioInv
<1>2. DOMAIN Runs \subseteq DOMAIN Runs'
  BY EffectKeeps
<1>3. /\ DOMAIN msgs' = Tabs
      /\ \A u \in Tabs : \A x \in msgs'[u] : x \in msgs[u] \/ x \in LoadMessages
  BY <1>1 DEF TabInv, MessagesOK
<1>4. \A u, x : x \in LoadMessages => MessageOK(u, x, DOMAIN Runs)
  BY DEF MessageOK, Messages, LoadMessages, RunMessages
<1>5. ViewsOK' /\ MessagesOK'
  BY <1>1, <1>2, <1>3, <1>4, ViewsKept, MessagesKept DEF TabInv
<1>6. /\ \A u \in Tabs : OneFlight(u)'
      /\ \A u \in Tabs : \A x \in msgs'[u] : x.kind = "post" => x \in msgs[u]
      /\ m.kind = "post" => \A x \in msgs'[t] : x.kind # "post"
  BY <1>1, ServedFlights DEF EditorsOK
<1>7. pressed' \in Nat /\ pressed <= pressed'
  BY <1>1 DEF TabInv, EditorsOK
<1>8. CASE SameRuns \/ AddsRun("manual", m)
  <2>1. ChangesInOrder' /\ \A u \in Tabs : Registered(u)' = Registered(u)
    BY <1>1, <1>8, RegisteredSame DEF OrderInv
  <2>2. OrderInv'
    BY <1>1, <1>6, <1>7, <2>1, OrderKept
  <2>3. QED
    BY <1>5, <2>2 DEF StudioInv, TabInv
<1>9. CASE AddsRun("interactive", m) /\ m.kind = "post" /\ ~Known(m.request)
  <2>1. m \in PostMessages(t) /\ m.request \in Requests(t)
    BY <1>1, <1>9, MessageKinds DEF TabInv, MessagesOK, MessageOK
  <2>2. /\ InTurn(t) /\ \A q \in Registered(t) : NotBefore(q, m.request)
        /\ m.request.n <= pressed
        /\ pending[t] # Null => NotBefore(m.request, pending[t])
    BY <1>1, <1>9 DEF OrderInv, InTurn
  <2>3. /\ ChangesInOrder'
        /\ Registered(t)' = Registered(t) \cup {m.request}
        /\ \A u \in Tabs \ {t} : Registered(u)' = Registered(u)
    BY <1>1, <1>9, <2>1, <2>2, RegisteredMore DEF OrderInv
  <2>4. InTurn(t)'
    BY <1>6, <1>9, <2>2, <2>3 DEF InTurn
  <2>5. ASSUME NEW u \in Tabs \ {t}  PROVE InTurn(u)'
    <3>1. InTurn(u) /\ Registered(u)' = Registered(u)
      BY <1>1, <2>3 DEF OrderInv
    <3>2. QED
      BY <1>6, <3>1 DEF InTurn
  <2>6. OrderInv'
    BY <1>6, <2>3, <2>4, <2>5 DEF OrderInv
  <2>7. QED
    BY <1>5, <2>6 DEF StudioInv, TabInv
<1>10. QED
  BY <1>8, <1>9 DEF Effect

LEMMA AnswersServed ==
  ASSUME StudioInv, NEW t \in Tabs, NEW m \in msgs[t]
  PROVE  /\ m.kind = "save" /\ Save(t, m) => ServerInv' /\ Effect(m)
         /\ ActionEffect(m) => ServerInv' /\ Effect(m)
         /\ m.kind = "post" /\ PostEffect(m) => ServerInv' /\ Effect(m)
         /\ UNCHANGED server => ServerInv' /\ Effect(m)
<1>1. ServerInv /\ MessageOK(t, m, DOMAIN Runs)
  BY DEF StudioInv, TabInv, MessagesOK
<1>2. ActionEffect(m) => ServerInv' /\ Effect(m)
  BY <1>1, ActionServed
<1>3. m.kind = "save" /\ Save(t, m) => ActionEffect(m)
  BY DEF Save, ActionEffect
<1>4. m.kind = "post" /\ PostEffect(m) => ServerInv' /\ Effect(m)
  BY <1>1, PostServed
<1>5. UNCHANGED server => ServerInv' /\ Effect(m)
  BY <1>1, ServerUnchanged DEF Effect
<1>6. QED
  BY <1>2, <1>3, <1>4, <1>5

(* How a tab goes on: it forgets the request, or waits for a load.         *)
LEMMA ForgetKept ==
  ASSUME StudioInv, NEW t \in Tabs, NEW m \in msgs[t],
         ServerInv', Effect(m), shown' = shown, pressed' = pressed,
         UNCHANGED editing, Forget(t, m), interactive' = interactive,
         \/ /\ ~IsFlight(m) /\ busy' = [busy EXCEPT ![t] = FALSE]
            /\ UNCHANGED exploring
         \/ /\ IsFlight(m) /\ busy' = busy
            /\ sending' = [sending EXCEPT ![t] = FALSE]
            /\ pending' = pending \/ pending' = [pending EXCEPT ![t] = Null]
  PROVE  StudioInv'
<1>1. EditorsOK
  BY DEF StudioInv, TabInv
<1>2. EditorsOK' /\ \A u \in Tabs : pending'[u] \in {pending[u], Null}
  BY <1>1 DEF EditorsOK, editing, exploring
<1>3. msgs' = [msgs EXCEPT ![t] = (@ \ {m}) \cup {}]
  BY DEF Forget
<1>4. /\ \A u \in Tabs \ {t} : sending'[u] = sending[u]
      /\ ~IsFlight(m) => sending'[t] = sending[t]
  BY <1>1 DEF EditorsOK, exploring
<1>5. ASSUME NEW next \in SUBSET LoadMessages, next = {}
      PROVE  StudioInv'
  <2>1. msgs' = [msgs EXCEPT ![t] = (@ \ {m}) \cup next]
    BY <1>3, <1>5
  <2>2. \/ ~IsFlight(m) /\ sending'[t] = sending[t] /\ \A x \in next : ~IsFlight(x)
        \/ IsFlight(m) /\ next = {}
    BY <1>4, <1>5
  <2>3. QED
    BY <1>2, <1>4, <2>1, <2>2, ServedKept
<1>6. {} \in SUBSET LoadMessages
  OBVIOUS
<1>7. QED
  BY <1>5, <1>6

LEMMA ThenKept ==
  ASSUME StudioInv, NEW t \in Tabs, NEW m \in msgs[t],
         ServerInv', Effect(m), shown' = shown, pressed' = pressed, EditorsOK',
         sending' = sending, NEW for \in {"action", "flush"}, NEW restore \in BOOLEAN,
         Then(t, m, Load(for, restore)),
         for = "flush" <=> IsFlight(m),
         \A u \in Tabs : pending'[u] \in {pending[u], Null}
  PROVE  StudioInv'
<1> DEFINE load == Load(for, restore)
<1>1. load \in LoadMessages /\ (for # "flush" => ~IsFlight(load))
  BY DEF LoadMessages, Load, IsFlight
<1>2. msgs' = [msgs EXCEPT ![t] = (@ \ {m}) \cup {load}]
  BY DEF Then
<1> HIDE DEF load
<1>3. {load} \in SUBSET LoadMessages /\ \A x, y \in {load} : x = y
  BY <1>1
<1>4. \/ ~IsFlight(m) /\ \A x \in {load} : ~IsFlight(x)
      \/ IsFlight(m)
  BY <1>1
<1>5. QED
  BY <1>2, <1>3, <1>4, ServedKept

LEMMA ServeKept ==
  ASSUME StudioInv, NEW t \in Tabs, NEW m \in msgs[t], Serve(t, m)
  PROVE  StudioInv'
<1>1. /\ ServerInv /\ EditorsOK /\ m \in Messages(t) /\ shown' = shown
      /\ pressed' = pressed
  BY DEF StudioInv, TabInv, MessagesOK, MessageOK, Serve
<1>2. CASE m.kind = "save" /\ Save(t, m)
  <2>1. ServerInv' /\ Effect(m)
    BY <1>2, AnswersServed
  <2>2. workspace' \in Workspace
    BY <2>1 DEF ServerInv
  <2>3. /\ preview' = [preview EXCEPT ![t] = PreviewOf(workspace')]
        /\ dirty' = [dirty EXCEPT ![t] = FALSE]
        /\ base' = [base EXCEPT ![t] = workspace'.revision]
        /\ Then(t, m, Load("action", FALSE))
        /\ UNCHANGED <<editor, busy, exploring>>
    BY <1>2 DEF Save
  <2>4. PreviewOf(workspace') \in Previews /\ workspace'.revision \in Revisions
    BY <2>2 DEF PreviewOf, Previews, Workspace
  <2>5. EditorsOK'
    BY <1>1, <2>3, <2>4 DEF EditorsOK, exploring
  <2>6. sending' = sending /\ pending' = pending /\ ~IsFlight(m)
    BY <1>2, <2>3 DEF exploring, IsFlight
  <2>7. QED
    BY <1>1, <2>1, <2>3, <2>5, <2>6, ThenKept
<1>3. CASE Answered(t, m)
  <2>1. ServerInv' /\ Effect(m)
    BY <1>3, AnswersServed DEF Answered
  <2>2. ~IsFlight(m)
    BY <1>3 DEF Answered, ActionEffect, IsFlight
  <2>3. EditorsOK' /\ sending' = sending /\ pending' = pending
    BY <1>1, <1>3 DEF Answered, EditorsOK, editing, exploring
  <2>4. Then(t, m, Load("action", m.kind = "baseline"))
    BY <1>3 DEF Answered
  <2>5. (m.kind = "baseline") \in BOOLEAN
    OBVIOUS
  <2>6. QED
    BY <1>1, <2>1, <2>2, <2>3, <2>4, <2>5, ThenKept
<1>4. CASE Refused(t, m)
  <2>1. ServerInv' /\ Effect(m)
    BY <1>4, AnswersServed DEF Refused
  <2>2. ~IsFlight(m)
    BY <1>4 DEF Refused, IsFlight
  <2>3. QED
    BY <1>1, <1>4, <2>1, <2>2, ForgetKept DEF Refused, ActionFails, exploring
<1>5. CASE Post(t, m)
  <2>1. ServerInv' /\ Effect(m)
    BY <1>5, AnswersServed DEF Post
  <2>2. IsFlight(m)
    BY <1>5 DEF Post, IsFlight
  <2>3. CASE PostAccepted(t, m)
    <3>1. /\ Then(t, m, Load("flush", FALSE)) /\ sending' = sending
          /\ pending' = [pending EXCEPT ![t] = IF @ = m.request THEN Null ELSE @]
          /\ UNCHANGED <<busy, editing, interactive>>
      BY <2>3 DEF PostAccepted
    <3>2. \A u \in Tabs : pending'[u] \in {pending[u], Null}
      BY <1>1, <3>1 DEF EditorsOK
    <3>3. EditorsOK'
      BY <1>1, <3>1 DEF EditorsOK, editing
    <3>4. QED
      BY <1>1, <2>1, <2>2, <3>1, <3>2, <3>3, ThenKept
  <2>4. CASE PostFails(t, m) \/ TryAgain(t, m)
    BY <1>1, <2>1, <2>2, <2>4, ForgetKept DEF PostFails, TryAgain, StopsSending
  <2>5. QED
    BY <1>5, <2>3, <2>4 DEF Post
<1>6. QED
  BY <1>2, <1>3, <1>4, <1>5 DEF Serve

LEMMA FailKept ==
  ASSUME StudioInv, NEW t \in Tabs, NEW m \in msgs[t], Fail(t, m)
  PROVE  StudioInv'
<1>1. ServerInv' /\ Effect(m) /\ shown' = shown /\ pressed' = pressed
  BY AnswersServed DEF Fail
<1>2. m \in Acts(t) <=> ~IsFlight(m)
  BY DEF Acts, IsFlight
<1>3. CASE ActionFails(t, m) /\ ~IsFlight(m)
  BY <1>1, <1>3, ForgetKept DEF ActionFails, exploring
<1>4. CASE PostFails(t, m) /\ IsFlight(m)
  BY <1>1, <1>4, ForgetKept DEF PostFails
<1>5. QED
  BY <1>2, <1>3, <1>4 DEF Fail

(* A load that belongs to a flush ends its flight.                         *)
LEMMA ReloadedKept ==
  ASSUME StudioInv, NEW t \in Tabs, NEW m \in msgs[t], Reloaded(t, m)
  PROVE  StudioInv'
<1>1. ServerInv /\ TabInv /\ OrderInv /\ workspace \in Workspace
  BY DEF StudioInv, ServerInv
<1>2. /\ UNCHANGED server /\ shown' = [shown EXCEPT ![t] = View(workspace)]
      /\ interactive' = interactive /\ pending' = pending /\ pressed' = pressed
      /\ m.kind = "load" /\ msgs' = [msgs EXCEPT ![t] = (@ \ {m}) \cup {}]
  BY DEF Reloaded, Forget
<1>3. sending' = [sending EXCEPT ![t] = @ /\ m.for # "flush"]
  BY DEF Reloaded
<1>4. /\ ServerInv' /\ DOMAIN Runs' = DOMAIN Runs /\ ChangesInOrder'
      /\ \A u \in Tabs : Registered(u)' = Registered(u)
  BY <1>1, <1>2, RunsUnchanged
<1>5. ViewsOK'
  BY <1>1, <1>2, <1>4, ViewTyped DEF TabInv, ViewsOK
<1>6. MessagesOK'
  BY <1>1, <1>2, <1>4, MessagesKept DEF TabInv, MessagesOK
<1>7. EditorsOK'
  <2>1. EditorsOK /\ workspace.saved \in Inputs /\ workspace.revision \in Revisions
    BY <1>1 DEF TabInv, Workspace
  <2>2. busy' \in [Tabs -> BOOLEAN] /\ sending' \in [Tabs -> BOOLEAN]
    BY <1>3, <2>1 DEF Reloaded, EditorsOK
  <2>3. /\ editor' \in [Tabs -> Inputs] /\ base' \in [Tabs -> Revisions]
        /\ dirty' \in [Tabs -> BOOLEAN] /\ preview' \in [Tabs -> Previews \cup {Null}]
    <3>1. CASE m.restore
      BY <2>1, <3>1 DEF Reloaded, EditorsOK
    <3>2. CASE ~m.restore
      BY <2>1, <3>2 DEF Reloaded, EditorsOK, editing
    <3>3. QED
      BY <3>1, <3>2
  <2>4. QED
    BY <1>2, <2>1, <2>2, <2>3 DEF EditorsOK
<1>8. m \in LoadMessages
  BY <1>1, <1>2, MessageKinds DEF TabInv, MessagesOK, MessageOK
<1>9. /\ sending' \in [Tabs -> BOOLEAN]
      /\ \A u \in Tabs \ {t} : sending'[u] = sending[u]
      /\ ~IsFlight(m) => sending'[t] = sending[t]
  BY <1>1, <1>2, <1>3, <1>7, <1>8 DEF TabInv, EditorsOK, IsFlight, LoadMessages
<1>10. /\ \A u \in Tabs : OneFlight(u)'
       /\ \A u \in Tabs : \A x \in msgs'[u] : x.kind = "post" => x \in msgs[u]
  <2>1. {} \in SUBSET LoadMessages /\ \A x \in {} : ~IsFlight(x)
    OBVIOUS
  <2>2. ASSUME NEW next \in SUBSET LoadMessages, next = {}
        PROVE  /\ \A u \in Tabs : OneFlight(u)'
               /\ \A u \in Tabs : \A x \in msgs'[u] : x.kind = "post" => x \in msgs[u]
    <3>1. msgs' = [msgs EXCEPT ![t] = (@ \ {m}) \cup next]
      BY <1>2, <2>2
    <3>2. \/ ~IsFlight(m) /\ sending'[t] = sending[t] /\ \A x \in next : ~IsFlight(x)
          \/ IsFlight(m) /\ next = {}
      BY <1>9, <2>2
    <3>3. QED
      BY <1>1, <1>9, <3>1, <3>2, ServedFlights
  <2>3. QED
    BY <2>1, <2>2
<1>11. OrderInv'
  BY <1>1, <1>2, <1>4, <1>10, OrderKept DEF TabInv, EditorsOK
<1>12. QED
  BY <1>4, <1>5, <1>6, <1>7, <1>11 DEF StudioInv, TabInv

LEMMA OthersKept ==
  ASSUME StudioInv,
         \/ \E r \in RunNumbers : FinishRun(r)
         \/ MomentPasses
         \/ UNCHANGED vars
  PROVE  StudioInv'
<1>1. ServerInv /\ TabInv /\ OrderInv
  BY DEF StudioInv
<1>2. /\ msgs' = msgs /\ shown' = shown /\ UNCHANGED editing /\ busy' = busy
      /\ UNCHANGED exploring /\ pressed' = pressed
  BY DEF FinishRun, MomentPasses, vars
<1>3. ServerInv' /\ SameRuns
  <2>1. CASE \E r \in RunNumbers : FinishRun(r)
    BY <1>1, <2>1, FinishServed
  <2>2. CASE MomentPasses
    <3>1. workspace' = workspace /\ recent' \in BOOLEAN
      BY <2>2 DEF MomentPasses
    <3>2. workspace' \in Workspace /\ Runs' = Runs
      BY <1>1, <3>1 DEF ServerInv, Runs
    <3>3. QED
      BY <1>1, <3>1, <3>2, RunsReplaced
  <2>3. CASE UNCHANGED vars
    BY <1>1, <2>3, ServerUnchanged DEF vars
  <2>4. QED
    BY <2>1, <2>2, <2>3
<1>4. ChangesInOrder' /\ \A u \in Tabs : Registered(u)' = Registered(u)
  BY <1>1, <1>3, RegisteredSame DEF OrderInv
<1>5. TabInv'
  BY <1>1, <1>2, <1>3
  DEF TabInv, ViewsOK, MessagesOK, EditorsOK, SameRuns, editing, exploring
<1>6. OrderInv'
  BY <1>1, <1>2, <1>4 DEF OrderInv, OneFlight, Flights, InTurn, exploring
<1>7. QED
  BY <1>3, <1>5, <1>6 DEF StudioInv

LEMMA StudioInit == Init => StudioInv
<1> SUFFICES ASSUME Init PROVE StudioInv
  OBVIOUS
<1> DEFINE i == CHOOSE i \in Inputs : TRUE
<1>1. i \in Inputs /\ workspace \in {Fresh(i), Explored(i)}
  <2>1. \E j : j \in Inputs
    <3>1. PICK tasks \in TaskSets, definitions \in Definitions : TRUE
      BY StudioAssumption
    <3>2. [tasks |-> tasks, definitions |-> definitions] \in Inputs
      BY DEF Inputs
    <3>3. QED
      BY <3>2
  <2>2. QED
    BY <2>1 DEF Init
<1> HIDE DEF i
<1>2. 1 \in Revisions /\ 1 \in RunNumbers
  BY StudioAssumption DEF Revisions, RunNumbers
<1> DEFINE m == [kind |-> "start", preview |-> PreviewOf(Fresh(i))]
           run == [NewRun("manual", i, m) EXCEPT !.state = "over", !.results = TRUE]
<1>3. /\ m \in StartMessages /\ run \in RunRecord /\ run.state = "over"
      /\ run.asked = m /\ run.intent = "manual" /\ run.inputs = i
      /\ m.preview.inputs = i
  BY <1>1, <1>2 DEF StartMessages, Previews, PreviewOf, Fresh, NewRun, RunRecord
<1> HIDE DEF m, run
<1>4. ServerInv /\ workspace.revision = 1 /\ workspace.saved = i
      /\ (\A r \in DOMAIN Runs : Runs[r].intent = "manual" /\ r = 1)
  <2>1. CASE workspace = Fresh(i)
    <3>1. workspace.runs = <<>> /\ <<>> \in Seq(RunRecord) /\ Len(<<>>) = 0
      BY <2>1, EmptySeq DEF Fresh
    <3>2. workspace \in Workspace
      BY <1>1, <1>2, <2>1, <3>1 DEF Workspace, Fresh
    <3>3. DOMAIN Runs = {}
      BY <3>1 DEF Runs
    <3>4. Len(Runs) <= MaxRuns
      BY <3>1, StudioAssumption DEF Runs
    <3>5. AskedInKind /\ OneActive /\ ManualRunsPreviewed
      BY <3>3 DEF AskedInKind, OneActive, ManualRunsPreviewed, ActiveIn, Runs
    <3>6. QED
      BY <2>1, <3>2, <3>3, <3>4, <3>5 DEF ServerInv, Init, Fresh
  <2>2. CASE workspace = Explored(i)
    <3>1. workspace = [Fresh(i) EXCEPT !.baseline = 1, !.runs = <<run>>]
      BY <2>2 DEF Explored, run, m
    <3>2. workspace.runs = <<run>> /\ workspace.revision = 1 /\ workspace.saved = i
      BY <3>1 DEF Fresh
    <3>3. /\ <<run>> \in Seq(RunRecord) /\ Len(<<run>>) = 1 /\ <<run>>[1] = run
          /\ DOMAIN <<run>> = {1}
      BY <1>3
    <3>4. workspace \in Workspace
      BY <1>1, <1>2, <3>1, <3>3 DEF Workspace, Fresh
    <3>5. DOMAIN Runs = {1} /\ Runs[1] = run /\ Len(Runs) = 1
      BY <3>2, <3>3 DEF Runs
    <3>6. Len(Runs) <= MaxRuns
      BY <3>5, StudioAssumption
    <3>7. AskedInKind /\ OneActive /\ ManualRunsPreviewed
      BY <1>3, <3>5
      DEF AskedInKind, OneActive, ManualRunsPreviewed, ActiveIn, Runs
    <3>8. QED
      BY <1>3, <3>2, <3>4, <3>5, <3>6, <3>7 DEF ServerInv, Init
  <2>3. QED
    BY <1>1, <2>1, <2>2
<1>5. TabInv
  <2>1. ViewsOK
    BY <1>4, ViewTyped DEF ViewsOK, Init
  <2>2. MessagesOK
    BY DEF MessagesOK, Init
  <2>3. EditorsOK
    BY <1>1, <1>2, <1>4, StudioAssumption DEF EditorsOK, Init
  <2>4. QED
    BY <2>1, <2>2, <2>3 DEF TabInv
<1>6. OrderInv
  <2>1. \A t \in Tabs : Registered(t) = {} /\ Flights(t) = {} /\ msgs[t] = {}
                        /\ pending[t] = Null
    BY <1>4 DEF Registered, Flights, Init
  <2>2. ChangesInOrder
    BY <1>4 DEF ChangesInOrder
  <2>3. QED
    BY <2>1, <2>2 DEF OrderInv, OneFlight, InTurn
<1>7. QED
  BY <1>4, <1>5, <1>6 DEF StudioInv

LEMMA StudioStep == StudioInv /\ [Next]_vars => StudioInv'
<1>1. SUFFICES ASSUME StudioInv, [Next]_vars PROVE StudioInv'
  OBVIOUS
<1>2. ASSUME NEW t \in Tabs,
             \/ \E i \in Inputs : Edit(t, i)
             \/ Preview(t) \/ StartManual(t) \/ Cancel(t) \/ Reload(t)
             \/ Toggle(t) \/ Commit(t)
             \/ \E r \in RunNumbers : UseAsBaseline(t, r)
             \/ Flush(t) \/ Poll(t)
      PROVE  StudioInv'
  BY <1>1, <1>2, ButtonsKept, QuietKept, CommitKept, FlushKept
<1>3. ASSUME NEW t \in Tabs, NEW m \in msgs[t],
             Serve(t, m) \/ Fail(t, m) \/ Reloaded(t, m)
      PROVE  StudioInv'
  BY <1>1, <1>3, ServeKept, FailKept, ReloadedKept
<1>4. CASE (\E r \in RunNumbers : FinishRun(r)) \/ MomentPasses \/ UNCHANGED vars
  BY <1>1, <1>4, OthersKept
<1>5. QED
  BY <1>1, <1>2, <1>3, <1>4 DEF Next

(* A manual run executes the inputs of the preview whose run was asked for *)
(* (the digest that start_run compares), for any number of tabs that save  *)
(* and choose baselines while the request is under way.                    *)
THEOREM PreviewedInputsRun == Spec => []ManualRunsPreviewed
<1>1. StudioInv => ManualRunsPreviewed
  BY DEF StudioInv, ServerInv
<1>2. QED
  BY <1>1, StudioInit, StudioStep, PTL DEF Spec

(* The interactive changes of a tab become runs in the order in which they *)
(* were committed, each at most once (flushInteractive and the service's   *)
(* check of a request it knows), whatever is lost or tried again.          *)
THEOREM ChangesRunInOrder == Spec => []ChangesInOrder
<1>1. StudioInv => ChangesInOrder
  BY DEF StudioInv, OrderInv
<1>2. QED
  BY <1>1, StudioInit, StudioStep, PTL DEF Spec

(* The variables keep their types; in particular at most one run of the    *)
(* workspace is active.                                                    *)
THEOREM StudioTypes == Spec => []StudioTypeOK
<1>1. StudioInv => StudioTypeOK
  <2>1. SUFFICES ASSUME StudioInv PROVE StudioTypeOK
    OBVIOUS
  <2>2. Cardinality(ActiveIn(workspace)) <= 1
    <3>1. CASE ActiveIn(workspace) = {}
      BY <3>1, FS_EmptySet
    <3>2. CASE ActiveIn(workspace) # {}
      <4>1. PICK r : ActiveIn(workspace) = {r}
        BY <2>1, <3>2 DEF StudioInv, ServerInv, OneActive
      <4>2. Cardinality({r}) = 1
        BY FS_Singleton
      <4>3. QED
        BY <4>1, <4>2
    <3>3. QED
      BY <3>1, <3>2
  <2>3. /\ workspace.revision \in Revisions /\ workspace.saved \in Inputs
        /\ workspace.baseline \in RunNumbers \cup {Null}
    BY <2>1 DEF StudioInv, ServerInv, Workspace
  <2>4. QED
    BY <2>1, <2>2, <2>3
    DEF StudioTypeOK, StudioInv, ServerInv, TabInv, EditorsOK, Previews
<1>2. QED
  BY <1>1, StudioInit, StudioStep, PTL DEF Spec

=============================================================================
