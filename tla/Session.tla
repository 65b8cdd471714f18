------------------------------ MODULE Session ------------------------------
(***************************************************************************)
(* The life of the page (app.js): the loading of the translations, which   *)
(* ends with a new workspace, the restoration of the session from the      *)
(* local storage, and its automatic backup every second.                   *)
(*                                                                         *)
(* Handlers run one at a time.  The backup is cut at its writes, because   *)
(* the process may die, or the storage be full, between two of them.       *)
(* Blockly calls App.onChange some time after the blocks changed.          *)
(***************************************************************************)
EXTENDS Naturals, SequencesExt

CONSTANTS
  Documents,      \* what a workspace may hold
  NoBlocks,       \* the empty document
  Places,         \* where a window may be
  Shapes,         \* for each window, the shapes that it may take
  Speeds,         \* cpu.speeds
  Targets,        \* hw.targets
  DefaultView,    \* the windows as App.init sets them up
  Languages,      \* App.languages
  FormerEntries,  \* what another version of the program may have stored
  Unreadable,     \* a document that Blockly cannot make blocks of
  Foreign,        \* a speed or a target that this version does not know
  Faults,         \* what may go wrong, see Fault
  MaxScripts,     \* bound on the scripts being loaded
  Nil

\* kill: the process dies during a backup; quota: a write to the storage
\* throws; slow: the scripts are not loaded within a second; hasty: the user
\* changes the language while scripts are loading; former: the storage was
\* written by another version of the program.
Fault == {"kill", "quota", "slow", "hasty", "former"}

\* The order in which App.saveSession writes the windows, after the document.
Rank == [source |-> 2, logger |-> 3, cpu |-> 4, memory |-> 5, hw |-> 6]
Windows == DOMAIN Rank
LastRank == 6

\* The windows whose restoreSession does without an entry in the storage; that
\* of the others fails.
Tolerant == {"source", "logger", "memory"}
Strict == Windows \ Tolerant

\* A window as it is saved: where it is and whether its content shows, and what
\* it saves of its own (cpu.speed, the name of hw.target).
Shape == [place : Places, visible : BOOLEAN]
Setting == [shape : Shape, own : Speeds \cup Targets \cup {Nil}]
Entry == [shape : Shape, own : Speeds \cup Targets \cup {Nil, Foreign}]

ASSUME SessionAssumption ==
  /\ Faults \subseteq Fault
  /\ Shapes \in [Windows -> SUBSET Shape]
  /\ DefaultView \in [Windows -> Setting]
  /\ FormerEntries \subseteq [Windows -> Entry]
  /\ \A e \in FormerEntries : \A w \in Windows \ {"cpu", "hw"} : e[w] \in Setting
  /\ DefaultView["cpu"].own \in Speeds
  /\ NoBlocks \in Documents
  /\ Nil \notin Documents \cup {Unreadable} \cup Languages \cup Targets \cup Entry
  /\ Nil \notin {"i18n2", "i18n3"}
  /\ Unreadable \notin Documents

VARIABLES
  document,    \* localStorage.document
  entries,     \* the entries of the windows in localStorage
  up,          \* the page is open
  workspace,   \* the document in App.workspace, Nil before it is created
  view,        \* the windows as they show
  queued,      \* Blockly has events to hand to App.onChange
  dragged,     \* the windows moved with the mouse, whose bar was not released
  dirty,       \* App.sessionIsDirty
  armed,       \* the timer of App.timeout
  saving,      \* rank of what App.saveSession writes next, 0 outside of it
  language,    \* App.language
  scripts,     \* the script elements being loaded
  script,      \* the callback of App.script, Nil if App.script is null
  msgs,        \* the languages of the translations in force
  built,       \* App.language when the workspace was created
  shown        \* the translations in force when the workspace was created

storeVars == <<document, entries>>
pageVars == <<up, workspace, view, queued, dragged>>
saveVars == <<dirty, armed, saving>>
langVars == <<language, scripts, script, msgs, built, shown>>
vars == <<storeVars, pageVars, saveVars, langVars>>

NoMessages == [uprog |-> Nil, blockly |-> Nil]

Script(part, l) == [part |-> part, lang |-> l]

-----------------------------------------------------------------------------
(* Between two handlers, or in none.                                       *)

Idle == up /\ saving = 0

Closed ==
  /\ up' = FALSE /\ workspace' = Nil /\ view' = DefaultView
  /\ queued' = FALSE /\ dragged' = {}
  /\ dirty' = FALSE /\ armed' = FALSE /\ saving' = 0
  /\ language' = Nil /\ scripts' = <<>> /\ script' = Nil
  /\ msgs' = NoMessages /\ built' = Nil /\ shown' = NoMessages

Init ==
  /\ \/ /\ document = Nil
        /\ entries = [w \in Windows |-> Nil]
     \/ /\ "former" \in Faults
        /\ document \in Documents \cup {Unreadable}
        /\ entries \in FormerEntries
  /\ up = FALSE /\ workspace = Nil /\ view = DefaultView
  /\ queued = FALSE /\ dragged = {}
  /\ dirty = FALSE /\ armed = FALSE /\ saving = 0
  /\ language = Nil /\ scripts = <<>> /\ script = Nil
  /\ msgs = NoMessages /\ built = Nil /\ shown = NoMessages

\* windowSetup, and what the windows set of their own: the speed, the target.
SetUp == view' = DefaultView

\* App.init, up to the first call of App.loadScript.  cpu.setup marks the
\* session dirty.
Open ==
  /\ ~up
  /\ SetUp
  /\ up' = TRUE /\ dirty' = TRUE /\ armed' = TRUE
  /\ \E l \in Languages :
       language' = l /\ scripts' = <<Script("uprog", l)>> /\ script' = "i18n2"
  /\ UNCHANGED <<storeVars, workspace, queued, dragged, saving, msgs, built, shown>>

\* The page is closed between two handlers, or killed during a backup.
Close == Idle /\ Closed /\ UNCHANGED storeVars

Kill == "kill" \in Faults /\ saving # 0 /\ Closed /\ UNCHANGED storeVars

-----------------------------------------------------------------------------
(* App.restoreSession.                                                     *)

\* cpu.restoreSession and hw.restoreSession: a speed that is none becomes the
\* default one, a target that is none becomes undefined.
AcceptSpeed(o) == IF o \in Speeds THEN o ELSE DefaultView["cpu"].own
AcceptTarget(o) == IF o \in Targets THEN o ELSE Nil

\* windowRestoreSession: the setting of window w that the entry e restores.
Accept(w, e) ==
  [e EXCEPT !.own = CASE w = "cpu" -> AcceptSpeed(e.own)
                      [] w = "hw" -> AcceptTarget(e.own)
                      [] OTHER -> e.own]

\* The restoration gets to window w, and past it.
Reached(w) == \A s \in Strict : Rank[s] < Rank[w] => entries[s] # Nil
Complete == \A s \in Strict : entries[s] # Nil

\* A window without an entry stays as it is, but hw.restoreSession has
\* already forgotten the target when it fails.
RestoredView ==
  [w \in Windows |->
     IF ~Reached(w) THEN view[w]
     ELSE IF entries[w] # Nil THEN Accept(w, entries[w])
     ELSE IF w = "hw" THEN [view[w] EXCEPT !.own = Nil] ELSE view[w]]

\* Mutant: the blocks are not restored.
RestoreWindowsOnly ==
  IF document = Nil
  THEN workspace' = NoBlocks /\ UNCHANGED <<view, queued>>
  ELSE view' = RestoredView /\ workspace' = NoBlocks /\ queued' = TRUE

\* App.textToWorkspace, into an empty workspace: a document that is not read
\* leaves none.
TextToWorkspace(d) == IF d \in Documents THEN d ELSE NoBlocks

\* The blocks come last: an exception before leaves the workspace empty.
RestoreSession ==
  IF document = Nil
  THEN workspace' = NoBlocks /\ UNCHANGED <<view, queued>>
  ELSE /\ view' = RestoredView
       /\ workspace' = IF Complete THEN TextToWorkspace(document) ELSE NoBlocks
       /\ queued' = (queued \/ workspace' # NoBlocks)

-----------------------------------------------------------------------------
(* Translations.                                                           *)

\* App.createWorkspace makes blocks and toolbox in the translations in force.
CreateWorkspace == built' = language /\ shown' = msgs'

\* Mutant: a workspace that exists is kept.
I18n3Keeps ==
  IF workspace # Nil THEN UNCHANGED <<workspace, view, queued, built, shown>>
                     ELSE CreateWorkspace /\ RestoreSession

\* App.i18n3: a new workspace, with the blocks of the former one, or with
\* those of the last session.
I18n3 ==
  /\ CreateWorkspace
  /\ IF workspace # Nil THEN queued' = TRUE /\ UNCHANGED <<workspace, view>>
                        ELSE RestoreSession

\* App.scriptLoaded runs the callback of App.script, which is not always the
\* script that was loaded, and throws if App.script is null.
ScriptLoads(i) ==
  /\ Idle
  /\ msgs' = [msgs EXCEPT ![scripts[i].part] = scripts[i].lang]
  /\ \/ /\ script = "i18n2"
        /\ scripts' = Append(RemoveAt(scripts, i), Script("blockly", language))
        /\ script' = "i18n3"
        /\ UNCHANGED <<workspace, view, queued, built, shown>>
     \/ /\ script = "i18n3"
        /\ scripts' = RemoveAt(scripts, i)
        /\ script' = Nil
        /\ I18n3
     \/ /\ script = Nil
        /\ scripts' = RemoveAt(scripts, i)
        /\ UNCHANGED <<script, workspace, view, queued, built, shown>>
  /\ UNCHANGED <<storeVars, saveVars, up, dragged, language>>

SomeScriptLoads == \E i \in DOMAIN scripts : ScriptLoads(i)

\* Mutant: the translations of Blockly are not loaded.
ChangeOwnMessages ==
  /\ Idle
  /\ scripts = <<>>
  /\ \E l \in Languages \ {language} :
       language' = l /\ scripts' = <<Script("uprog", l)>> /\ script' = "i18n3"
  /\ UNCHANGED <<storeVars, pageVars, saveVars, msgs, built, shown>>

\* App.changeLanguage and App.i18n, when another language is selected.
ChangeLanguage ==
  /\ Idle
  /\ Len(scripts) < MaxScripts
  /\ scripts = <<>> \/ "hasty" \in Faults
  /\ \E l \in Languages \ {language} :
       language' = l /\ scripts' = Append(scripts, Script("uprog", l)) /\ script' = "i18n2"
  /\ UNCHANGED <<storeVars, pageVars, saveVars, msgs, built, shown>>

-----------------------------------------------------------------------------
(* The user.                                                               *)

\* Blocks are added, changed or removed.
Edit ==
  /\ Idle /\ workspace # Nil
  /\ workspace' \in Documents \ {workspace}
  /\ queued' = TRUE
  /\ UNCHANGED <<storeVars, up, view, dragged, saveVars, langVars>>

\* App.onChange.
OnChange ==
  /\ Idle /\ queued
  /\ queued' = FALSE /\ dirty' = TRUE
  /\ UNCHANGED <<storeVars, up, workspace, view, dragged, armed, saving, langVars>>

\* windowToggleDisplay.
Toggle(w) ==
  /\ Idle
  /\ \E s \in Shapes[w] :
       /\ s.place = view[w].shape.place /\ s.visible # view[w].shape.visible
       /\ view' = [view EXCEPT ![w].shape = s]
  /\ dirty' = TRUE
  /\ UNCHANGED <<storeVars, up, workspace, queued, dragged, armed, saving, langVars>>

\* The bar of a window is pressed, and the mouse moves (windowOnBarMouseDown):
\* nothing is marked.
Drag(w) ==
  /\ Idle
  /\ \E s \in Shapes[w] :
       /\ s.place # view[w].shape.place /\ s.visible = view[w].shape.visible
       /\ view' = [view EXCEPT ![w].shape = s]
  /\ dragged' = dragged \cup {w}
  /\ UNCHANGED <<storeVars, up, workspace, queued, saveVars, langVars>>

\* Mutant: the end of a move is not taken for a change.
DropQuiet(w) ==
  /\ Idle
  /\ dragged' = dragged \ {w}
  /\ UNCHANGED <<dirty, storeVars, up, workspace, view, queued, armed, saving, langVars>>

\* The button is released on the bar of a window, which moved or not
\* (windowOnBarMouseUp).
Drop(w) ==
  /\ Idle
  /\ dragged' = dragged \ {w} /\ dirty' = TRUE
  /\ UNCHANGED <<storeVars, up, workspace, view, queued, armed, saving, langVars>>

\* The speed of the processor is changed.
ChangeSpeed ==
  /\ Idle
  /\ \E s \in Speeds : view' = [view EXCEPT !["cpu"].own = s]
  /\ dirty' = TRUE
  /\ UNCHANGED <<storeVars, up, workspace, queued, dragged, armed, saving, langVars>>

Arrange == (\E w \in Windows : Toggle(w) \/ Drag(w) \/ Drop(w)) \/ ChangeSpeed

\* hw.onTargetSelected.
SelectTarget ==
  /\ Idle
  /\ \E t \in Targets \cup {Nil} : view' = [view EXCEPT !["hw"].own = t]
  /\ UNCHANGED <<storeVars, up, workspace, queued, dragged, saveVars, langVars>>

-----------------------------------------------------------------------------
(* The backup.                                                             *)

\* App.timeout, when the session is dirty.  Without a workspace, saveSession
\* throws before the timer is armed again.  A clean session changes nothing.
Timeout ==
  /\ Idle /\ armed /\ dirty
  /\ workspace # Nil \/ "slow" \in Faults
  /\ armed' = FALSE
  /\ saving' = IF workspace # Nil THEN 1 ELSE 0
  /\ UNCHANGED <<storeVars, pageVars, dirty, langVars>>

SaveDocument ==
  /\ saving = 1
  /\ document' = workspace
  /\ saving' = 2
  /\ UNCHANGED <<entries, pageVars, dirty, armed, langVars>>

\* Mutant: the windows are written before the document.
SaveWindowEarly(w) ==
  /\ saving = 1 /\ entries[w] = Nil
  /\ entries' = [entries EXCEPT ![w] = view[w]]
  /\ UNCHANGED <<saving, document, pageVars, dirty, armed, langVars>>

SaveWindow(w) ==
  /\ saving = Rank[w]
  /\ entries' = [entries EXCEPT ![w] = view[w]]
  /\ saving' = saving + 1
  /\ UNCHANGED <<document, pageVars, dirty, armed, langVars>>

\* Mutant: the timer is not armed again.
SavedOnce ==
  /\ saving = LastRank + 1
  /\ saving' = 0 /\ dirty' = FALSE
  /\ UNCHANGED <<armed, storeVars, pageVars, langVars>>

\* The end of App.saveSession, and of App.timeout.
Saved ==
  /\ saving = LastRank + 1
  /\ saving' = 0 /\ dirty' = FALSE /\ armed' = TRUE
  /\ UNCHANGED <<storeVars, pageVars, langVars>>

\* The storage is full: the exception leaves App.timeout.
SaveFails ==
  /\ "quota" \in Faults /\ saving \in 1 .. LastRank
  /\ saving' = 0
  /\ UNCHANGED <<storeVars, pageVars, dirty, armed, langVars>>

Save == SaveDocument \/ (\E w \in Windows : SaveWindow(w)) \/ Saved

User == Edit \/ Arrange \/ SelectTarget \/ ChangeLanguage \/ Open \/ Close

Next == User \/ OnChange \/ SomeScriptLoads \/ Timeout \/ Save \/ SaveFails \/ Kill

\* The browser calls the handlers that are due, and a handler ends.
Fairness == WF_vars(OnChange) /\ WF_vars(SomeScriptLoads) /\ WF_vars(Timeout) /\ WF_vars(Save)

Spec == Init /\ [][Next]_vars

FairSpec == Spec /\ Fairness

-----------------------------------------------------------------------------
(* Correctness.                                                            *)

\* Every variable has its type.
TypeOK ==
  /\ document \in Documents \cup {Unreadable, Nil}
  /\ entries \in [Windows -> Entry \cup {Nil}]
  /\ up \in BOOLEAN /\ queued \in BOOLEAN /\ dirty \in BOOLEAN /\ armed \in BOOLEAN
  /\ workspace \in Documents \cup {Nil}
  /\ view \in [Windows -> Entry]
  /\ dragged \subseteq Windows
  /\ saving \in 0 .. LastRank + 1
  /\ language \in Languages \cup {Nil} /\ built \in Languages \cup {Nil}
  /\ script \in {"i18n2", "i18n3", Nil}
  /\ scripts \in Seq([part : {"uprog", "blockly"}, lang : Languages])
  /\ msgs \in [{"uprog", "blockly"} -> Languages \cup {Nil}]
  /\ shown \in [{"uprog", "blockly"} -> Languages \cup {Nil}]

\* Whatever goes wrong, a session that is not marked dirty, and that no event
\* is about to mark, is in the storage: the blocks, the place of the windows that
\* are not being moved, which windows show their content, and the speed, though a
\* backup may come in the middle of a move.  The target is not: hw.onTargetSelected
\* marks nothing, and it is saved with the next change of something else.  Nor are
\* the sizes, which are not in this module: a resize is marked when it begins and
\* not when it ends.
CleanIsSaved ==
  up /\ ~dirty /\ ~queued =>
    /\ document = workspace
    /\ \A w \in Windows :
         /\ entries[w] # Nil
         /\ entries[w].shape.visible = view[w].shape.visible
         /\ w \in dragged \/ entries[w].shape.place = view[w].shape.place
    /\ entries["cpu"].own = view["cpu"].own

\* The document goes first, so that a backup that is cut anywhere never leaves
\* a storage that has windows and that restoreSession takes for an empty one.
StoredInOrder ==
  \A w \in Windows : entries[w] # Nil =>
    document # Nil /\ \A v \in Windows : Rank[v] < Rank[w] => entries[v] # Nil

\* However the loadings of scripts overlap, the workspace that stays is built
\* after the last change of language.
BuiltInLanguage == workspace # Nil /\ scripts = <<>> => built = language

\* Once the scripts are loaded, the workspace shows one language, the selected one.
ShownInLanguage ==
  workspace # Nil /\ scripts = <<>> => shown = [uprog |-> language, blockly |-> language]

\* The session implements the abstract store of documents.
Store == INSTANCE DocumentStore WITH
  NoDocument <- NoBlocks, Nothing <- Nil, kept <- document, atHand <- workspace

ImplementsStore == Store!SSpec

\* What the user does is saved, if the page stays open.
ChangesAreSaved == dirty ~> ~dirty \/ ~up
=============================================================================
