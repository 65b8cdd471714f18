--------------------------- MODULE SessionProofs ---------------------------
(***************************************************************************)
(* For any documents, windows' shapes, speeds, targets and languages, and  *)
(* any number of scripts being loaded: what the page says of itself, what  *)
(* the storage holds and what the user sees agree, whatever goes wrong;    *)
(* and without faults the session implements the store of documents.       *)
(***************************************************************************)
EXTENDS Session, TLAPS

\* What the backup has written so far is what the page shows: nothing changes
\* while the handler runs.
WrittenSoFar ==
  /\ saving # 0 => up /\ workspace # Nil
  /\ saving > 1 => document = workspace
  /\ \A w \in Windows : saving > Rank[w] => entries[w] = view[w]

\* A page without a workspace is dirty, for no backup of it has succeeded.
UnbuiltIsDirty == up /\ workspace = Nil => dirty

\* A page that is closed holds nothing.
ClosedIsEmpty == ~up => workspace = Nil /\ saving = 0 /\ ~dirty /\ ~queued

\* A callback waits for a script, and none is forgotten before the workspace
\* is built.
CallbackWaits ==
  /\ script # Nil => scripts # <<>>
  /\ script = Nil /\ workspace # Nil => built = language

\* A page that is open has a language.
LanguageKnown == up => language \in Languages

SessionInv ==
  /\ TypeOK /\ LanguageKnown /\ WrittenSoFar /\ UnbuiltIsDirty /\ ClosedIsEmpty
  /\ CleanIsSaved /\ StoredInOrder /\ CallbackWaits

LEMMA RankFacts ==
  /\ Windows = {"source", "logger", "cpu", "memory", "hw"}
  /\ Rank["source"] = 2 /\ Rank["logger"] = 3 /\ Rank["cpu"] = 4
  /\ Rank["memory"] = 5 /\ Rank["hw"] = 6 /\ LastRank = 6
  /\ \A w \in Windows : Rank[w] \in 2..6
BY DEF Windows, Rank, LastRank

LEMMA NoMessagesType == NoMessages \in [{"uprog", "blockly"} -> Languages \cup {Nil}]
<1>1. NoMessages = [p \in {"uprog", "blockly"} |-> Nil]
  BY DEF NoMessages
<1> QED
  BY <1>1

LEMMA RemoveAtType ==
  ASSUME NEW S, NEW s \in Seq(S), NEW i \in DOMAIN s
  PROVE  s[i] \in S /\ RemoveAt(s, i) \in Seq(S)
<1>1. i \in 1..Len(s) /\ Len(s) \in Nat
  OBVIOUS
<1>2. SubSeq(s, 1, i - 1) \in Seq(S)
  BY <1>1
<1>3. SubSeq(s, i + 1, Len(s)) \in Seq(S)
  BY <1>1
<1>4. s[i] \in S
  BY <1>1
<1> QED
  BY <1>2, <1>3, <1>4 DEF RemoveAt

\* What a window restores is a setting of the page.
LEMMA AcceptType ==
  ASSUME NEW w \in Windows, NEW e \in Entry
  PROVE  Accept(w, e) \in Entry
<1>1. AcceptSpeed(e.own) \in Speeds \cup Targets \cup {Nil, Foreign}
  BY SessionAssumption DEF AcceptSpeed
<1>2. AcceptTarget(e.own) \in Speeds \cup Targets \cup {Nil, Foreign}
  BY DEF AcceptTarget
<1> QED
  BY <1>1, <1>2 DEF Accept, Entry


\* What App.restoreSession shows is a view, and its blocks a document.
LEMMA RestoredType ==
  ASSUME TypeOK, workspace = Nil, RestoreSession
  PROVE  /\ view' \in [Windows -> Entry] /\ workspace' \in Documents
         /\ queued' \in BOOLEAN
<1>1. RestoredView \in [Windows -> Entry]
  <2> SUFFICES ASSUME NEW w \in Windows
               PROVE  (IF ~Reached(w) THEN view[w]
                       ELSE IF entries[w] # Nil THEN Accept(w, entries[w])
                       ELSE IF w = "hw" THEN [view[w] EXCEPT !.own = Nil] ELSE view[w]) \in Entry
    BY DEF RestoredView
  <2>1. view[w] \in Entry /\ entries[w] \in Entry \cup {Nil}
    BY DEF TypeOK
  <2>2. [view[w] EXCEPT !.own = Nil] \in Entry
    BY <2>1 DEF Entry
  <2> QED
    BY <2>1, <2>2, AcceptType
<1>2. TextToWorkspace(document) \in Documents
  BY SessionAssumption DEF TextToWorkspace
<1> QED
  BY <1>1, <1>2, SessionAssumption DEF RestoreSession, TypeOK

-----------------------------------------------------------------------------
LEMMA InitInv == Init => SessionInv
<1> SUFFICES ASSUME Init PROVE SessionInv
  OBVIOUS
<1> USE DEF Init
<1>1. TypeOK
  <2>1. document \in Documents \cup {Unreadable, Nil} /\ entries \in [Windows -> Entry \cup {Nil}]
    BY SessionAssumption
  <2>2. view \in [Windows -> Entry]
    BY SessionAssumption DEF Setting, Entry
  <2>3. up \in BOOLEAN /\ queued \in BOOLEAN /\ dirty \in BOOLEAN /\ armed \in BOOLEAN
    BY Zenon
  <2> QED
    BY <2>1, <2>2, <2>3, NoMessagesType DEF TypeOK, LastRank
<1>2. WrittenSoFar
  BY RankFacts DEF WrittenSoFar
<1>3. StoredInOrder
  <2>1. CASE entries = [w \in Windows |-> Nil]
    BY <2>1 DEF StoredInOrder
  <2>2. CASE document \in Documents \cup {Unreadable} /\ entries \in FormerEntries
    BY <2>2, SessionAssumption DEF StoredInOrder
  <2> QED
    BY <2>1, <2>2
<1> QED
  BY <1>1, <1>2, <1>3 DEF SessionInv, UnbuiltIsDirty, ClosedIsEmpty, CleanIsSaved, CallbackWaits, LanguageKnown

-----------------------------------------------------------------------------
(* The page is opened, closed or killed.                                   *)

LEMMA OpenInv == SessionInv /\ Open => SessionInv'
<1> SUFFICES ASSUME SessionInv, Open PROVE SessionInv'
  OBVIOUS
<1> USE DEF SessionInv, Open, SetUp, storeVars
<1>1. TypeOK'
  <2>1. view' \in [Windows -> Entry]
    BY SessionAssumption DEF Setting, Entry
  <2>2. scripts' \in Seq([part : {"uprog", "blockly"}, lang : Languages])
    BY DEF Script
  <2> QED
    BY <2>1, <2>2 DEF TypeOK
<1>2. WrittenSoFar'
  BY RankFacts DEF WrittenSoFar, ClosedIsEmpty
<1>3. CallbackWaits'
  BY DEF CallbackWaits, ClosedIsEmpty
<1> QED
  BY <1>1, <1>2, <1>3 DEF UnbuiltIsDirty, ClosedIsEmpty, CleanIsSaved, StoredInOrder, LanguageKnown

LEMMA ClosedInv == SessionInv /\ Closed /\ UNCHANGED storeVars => SessionInv'
<1> SUFFICES ASSUME SessionInv, Closed, UNCHANGED storeVars PROVE SessionInv'
  OBVIOUS
<1> USE DEF SessionInv, Closed, storeVars
<1>1. TypeOK'
  <2>1. view' \in [Windows -> Entry]
    BY SessionAssumption DEF Setting, Entry
  <2>2. scripts' \in Seq([part : {"uprog", "blockly"}, lang : Languages])
    OBVIOUS
  <2>3. up' \in BOOLEAN /\ queued' \in BOOLEAN /\ dirty' \in BOOLEAN /\ armed' \in BOOLEAN
    BY Zenon
  <2> QED
    BY <2>1, <2>2, <2>3, NoMessagesType DEF TypeOK, LastRank
<1>2. WrittenSoFar'
  BY RankFacts DEF WrittenSoFar
<1> QED
  BY <1>1, <1>2 DEF UnbuiltIsDirty, ClosedIsEmpty, CleanIsSaved, StoredInOrder, CallbackWaits,
                     LanguageKnown

-----------------------------------------------------------------------------
(* Translations.                                                           *)

LEMMA ScriptLoadsInv ==
  ASSUME SessionInv, NEW i \in DOMAIN scripts, ScriptLoads(i)
  PROVE  SessionInv'
<1> USE DEF SessionInv
<1> DEFINE S == [part : {"uprog", "blockly"}, lang : Languages]
<1>1. /\ up /\ saving = 0 /\ msgs' = [msgs EXCEPT ![scripts[i].part] = scripts[i].lang]
      /\ UNCHANGED <<document, entries, dirty, armed, saving, up, dragged, language>>
  BY DEF ScriptLoads, Idle, storeVars, saveVars
<1>2. language \in Languages
  BY <1>1 DEF LanguageKnown
<1>3. scripts[i] \in S /\ RemoveAt(scripts, i) \in Seq(S)
  <2>1. scripts \in Seq(S) /\ i \in DOMAIN scripts
    BY DEF TypeOK
  <2> QED
    BY <2>1, RemoveAtType
<1>4. msgs' \in [{"uprog", "blockly"} -> Languages \cup {Nil}]
  BY <1>1, <1>3 DEF TypeOK
<1>5. CASE script # "i18n3"
  <2>1. UNCHANGED <<workspace, view, queued, built, shown>>
    BY <1>5 DEF ScriptLoads
  <2>2. \/ /\ script = "i18n2" /\ script' = "i18n3"
           /\ scripts' = Append(RemoveAt(scripts, i), Script("blockly", language))
        \/ script = Nil /\ script' = Nil /\ scripts' = RemoveAt(scripts, i)
    BY <1>5 DEF ScriptLoads
  <2>3. scripts' \in Seq(S) /\ (script' # Nil => scripts' # <<>>)
    <3>1. Script("blockly", language) \in S
      BY <1>2 DEF Script
    <3>2. CASE script = "i18n2" /\ scripts' = Append(RemoveAt(scripts, i), Script("blockly", language))
      BY <3>1, <3>2, <1>3
    <3>3. CASE script' = Nil /\ scripts' = RemoveAt(scripts, i)
      BY <3>3, <1>3
    <3> QED
      BY <2>2, <3>2, <3>3
  <2>4. TypeOK'
    BY <1>1, <1>4, <2>1, <2>2, <2>3 DEF TypeOK
  <2>5. CallbackWaits'
    BY <1>1, <2>1, <2>2, <2>3, SessionAssumption DEF CallbackWaits
  <2> QED
    BY <1>1, <1>2, <2>1, <2>4, <2>5
    DEF WrittenSoFar, UnbuiltIsDirty, ClosedIsEmpty, CleanIsSaved, StoredInOrder, LanguageKnown
<1>6. CASE script = "i18n3"
  <2>1. scripts' = RemoveAt(scripts, i) /\ script' = Nil /\ built' = language /\ shown' = msgs'
    BY <1>6, SessionAssumption DEF ScriptLoads, I18n3, CreateWorkspace
  <2>2. CASE workspace # Nil
    <3>1. queued' = TRUE /\ UNCHANGED <<workspace, view>>
      BY <1>6, <2>2, SessionAssumption DEF ScriptLoads, I18n3
    <3>2. TypeOK'
      BY <1>1, <1>2, <1>3, <1>4, <2>1, <3>1 DEF TypeOK
    <3> QED
      BY <1>1, <1>2, <2>1, <3>1, <3>2
      DEF WrittenSoFar, UnbuiltIsDirty, ClosedIsEmpty, CleanIsSaved, StoredInOrder, LanguageKnown,
          CallbackWaits
  <2>3. CASE workspace = Nil
    <3>1. RestoreSession
      BY <1>6, <2>3, SessionAssumption DEF ScriptLoads, I18n3
    <3>2. view' \in [Windows -> Entry] /\ workspace' \in Documents /\ queued' \in BOOLEAN
      BY <2>3, <3>1, RestoredType
    <3>3. workspace' # Nil /\ dirty' = TRUE
      BY <1>1, <2>3, <3>2, SessionAssumption DEF UnbuiltIsDirty, TypeOK
    <3>4. TypeOK'
      BY <1>1, <1>2, <1>3, <1>4, <2>1, <3>2 DEF TypeOK
    <3>5. WrittenSoFar'
      BY <1>1, RankFacts DEF WrittenSoFar
    <3> QED
      BY <1>1, <1>2, <2>1, <3>3, <3>4, <3>5
      DEF UnbuiltIsDirty, ClosedIsEmpty, CleanIsSaved, StoredInOrder, LanguageKnown, CallbackWaits
  <2> QED
    BY <2>2, <2>3
<1> QED
  BY <1>5, <1>6 DEF TypeOK

LEMMA ChangeLanguageInv == SessionInv /\ ChangeLanguage => SessionInv'
<1> SUFFICES ASSUME SessionInv, ChangeLanguage PROVE SessionInv'
  OBVIOUS
<1> USE DEF SessionInv
<1>1. PICK l \in Languages \ {language} :
        language' = l /\ scripts' = Append(scripts, Script("uprog", l)) /\ script' = "i18n2"
  BY DEF ChangeLanguage
<1>2. up /\ UNCHANGED <<document, entries, up, workspace, view, queued, dragged, dirty, armed, saving,
                        msgs, built, shown>>
  BY DEF ChangeLanguage, Idle, storeVars, pageVars, saveVars
<1>3. scripts' \in Seq([part : {"uprog", "blockly"}, lang : Languages]) /\ scripts' # <<>>
  <2>1. Script("uprog", l) \in [part : {"uprog", "blockly"}, lang : Languages]
    BY DEF Script
  <2>2. scripts \in Seq([part : {"uprog", "blockly"}, lang : Languages])
    BY DEF TypeOK
  <2> QED
    BY <1>1, <2>1, <2>2
<1>4. TypeOK'
  BY <1>1, <1>2, <1>3 DEF TypeOK
<1>5. CallbackWaits'
  BY <1>1, <1>3, SessionAssumption DEF CallbackWaits
<1> QED
  BY <1>1, <1>2, <1>4, <1>5
  DEF WrittenSoFar, UnbuiltIsDirty, ClosedIsEmpty, CleanIsSaved, StoredInOrder, LanguageKnown

-----------------------------------------------------------------------------
(* The user.                                                               *)

\* A window that takes one of its shapes is still a window.
LEMMA ShapeType ==
  ASSUME TypeOK, NEW w \in Windows, NEW s \in Shapes[w], view' = [view EXCEPT ![w].shape = s]
  PROVE  view' \in [Windows -> Entry]
<1>1. view[w] \in Entry /\ s \in Shape
  BY SessionAssumption DEF TypeOK
<1>2. [view[w] EXCEPT !.shape = s] \in Entry
  BY <1>1 DEF Entry
<1> QED
  BY <1>2 DEF TypeOK

LEMMA UserInv ==
  SessionInv /\ (Edit \/ Arrange \/ SelectTarget \/ OnChange) => SessionInv'
<1> SUFFICES ASSUME SessionInv, Edit \/ Arrange \/ SelectTarget \/ OnChange PROVE SessionInv'
  OBVIOUS
<1> USE DEF SessionInv
<1>1. /\ up /\ saving = 0 /\ UNCHANGED <<document, entries, up, armed, saving>>
      /\ UNCHANGED <<language, scripts, script, msgs, built, shown>>
  BY DEF Edit, Arrange, Toggle, Drag, Drop, ChangeSpeed, SelectTarget, OnChange, Idle, storeVars, saveVars, langVars
<1>2. WrittenSoFar' /\ StoredInOrder' /\ LanguageKnown'
  BY <1>1, RankFacts DEF WrittenSoFar, StoredInOrder, LanguageKnown
<1>3. CASE Edit
  <2>1. /\ workspace # Nil /\ workspace' \in Documents /\ queued' = TRUE
        /\ UNCHANGED <<view, dragged, dirty>>
    BY <1>3 DEF Edit, saveVars
  <2>2. workspace' # Nil
    BY <2>1, SessionAssumption
  <2>3. TypeOK'
    BY <1>1, <2>1 DEF TypeOK
  <2> QED
    BY <1>1, <1>2, <2>1, <2>2, <2>3
    DEF UnbuiltIsDirty, ClosedIsEmpty, CleanIsSaved, CallbackWaits
<1>4. CASE OnChange \/ ChangeSpeed \/ \E w \in Windows : Toggle(w) \/ Drop(w)
  <2>1. dirty' = TRUE /\ UNCHANGED workspace /\ queued' \in BOOLEAN /\ dragged' \subseteq Windows
    BY <1>4 DEF OnChange, ChangeSpeed, Toggle, Drop, TypeOK
  <2>2. view' \in [Windows -> Entry]
    <3>1. CASE OnChange \/ \E w \in Windows : Drop(w)
      BY <3>1 DEF OnChange, Drop, TypeOK
    <3>2. ASSUME NEW w \in Windows, Toggle(w)
          PROVE  view' \in [Windows -> Entry]
      BY <3>2, ShapeType DEF Toggle
    <3>3. CASE ChangeSpeed
      <4>1. PICK s \in Speeds : view' = [view EXCEPT !["cpu"].own = s]
        BY <3>3 DEF ChangeSpeed
      <4>2. view["cpu"] \in Entry
        BY RankFacts DEF TypeOK
      <4>3. [view["cpu"] EXCEPT !.own = s] \in Entry
        BY <4>2 DEF Entry
      <4> QED
        BY <4>1, <4>3 DEF TypeOK
    <3> QED
      BY <1>4, <3>1, <3>2, <3>3
  <2>3. TypeOK'
    BY <1>1, <2>1, <2>2 DEF TypeOK
  <2> QED
    BY <1>1, <1>2, <2>1, <2>3 DEF UnbuiltIsDirty, ClosedIsEmpty, CleanIsSaved, CallbackWaits
<1>6. ASSUME NEW w \in Windows, Drag(w) PROVE SessionInv'
  <2>1. UNCHANGED <<workspace, queued, dirty>> /\ dragged' = dragged \cup {w}
    BY <1>6 DEF Drag, saveVars
  <2>2. PICK s \in Shapes[w] : /\ s.visible = view[w].shape.visible
                               /\ view' = [view EXCEPT ![w].shape = s]
    BY <1>6 DEF Drag
  <2>3. view' \in [Windows -> Entry]
    BY <2>2, ShapeType
  <2>4. /\ \A v \in Windows : view'[v].own = view[v].own
        /\ \A v \in Windows : view'[v].shape.visible = view[v].shape.visible
        /\ \A v \in Windows \ {w} : view'[v].shape.place = view[v].shape.place
    BY <2>2 DEF TypeOK, Entry
  <2>5. TypeOK'
    BY <1>1, <2>1, <2>3 DEF TypeOK
  <2>6. CleanIsSaved'
    BY <1>1, <2>1, <2>4, RankFacts DEF CleanIsSaved
  <2> QED
    BY <1>1, <1>2, <2>1, <2>5, <2>6 DEF UnbuiltIsDirty, ClosedIsEmpty, CallbackWaits
<1>5. CASE SelectTarget
  <2>1. UNCHANGED <<workspace, queued, dragged, dirty>>
    BY <1>5 DEF SelectTarget, saveVars
  <2>2. PICK t \in Targets \cup {Nil} : view' = [view EXCEPT !["hw"].own = t]
    BY <1>5 DEF SelectTarget
  <2>3. view' \in [Windows -> Entry]
    <3>1. view["hw"] \in Entry
      BY RankFacts DEF TypeOK
    <3>2. [view["hw"] EXCEPT !.own = t] \in Entry
      BY <3>1 DEF Entry
    <3> QED
      BY <2>2, <3>2 DEF TypeOK
  <2>4. \A w \in Windows : view'[w].shape = view[w].shape
    BY <2>2, RankFacts DEF TypeOK, Entry
  <2>5. view'["cpu"].own = view["cpu"].own
    BY <2>2, RankFacts DEF TypeOK
  <2>6. TypeOK'
    BY <1>1, <2>1, <2>3 DEF TypeOK
  <2> QED
    BY <1>1, <1>2, <2>1, <2>4, <2>5, <2>6
    DEF UnbuiltIsDirty, ClosedIsEmpty, CleanIsSaved, CallbackWaits
<1> QED
  BY <1>3, <1>4, <1>5, <1>6 DEF Arrange

-----------------------------------------------------------------------------
(* The backup.                                                             *)

LEMMA TimeoutInv == SessionInv /\ Timeout => SessionInv'
<1> SUFFICES ASSUME SessionInv, Timeout PROVE SessionInv'
  OBVIOUS
<1> USE DEF SessionInv
<1>1. /\ up /\ dirty /\ saving' = IF workspace # Nil THEN 1 ELSE 0
      /\ armed' = FALSE
      /\ UNCHANGED <<document, entries, up, workspace, view, queued, dragged, dirty>>
      /\ UNCHANGED <<language, scripts, script, msgs, built, shown>>
  BY DEF Timeout, Idle, storeVars, pageVars, langVars
<1>2. TypeOK'
  <2>1. armed' \in BOOLEAN
    BY <1>1, Zenon
  <2> QED
    BY <1>1, <2>1 DEF TypeOK, LastRank
<1>3. WrittenSoFar'
  BY <1>1, RankFacts DEF WrittenSoFar
<1> QED
  BY <1>1, <1>2, <1>3
  DEF UnbuiltIsDirty, ClosedIsEmpty, CleanIsSaved, StoredInOrder, LanguageKnown, CallbackWaits

LEMMA SaveDocumentInv == SessionInv /\ SaveDocument => SessionInv'
<1> SUFFICES ASSUME SessionInv, SaveDocument PROVE SessionInv'
  OBVIOUS
<1> USE DEF SessionInv
<1>1. /\ saving = 1 /\ saving' = 2 /\ document' = workspace
      /\ UNCHANGED <<entries, up, workspace, view, queued, dragged, dirty, armed>>
      /\ UNCHANGED <<language, scripts, script, msgs, built, shown>>
  BY DEF SaveDocument, pageVars, langVars
<1>2. TypeOK'
  BY <1>1 DEF TypeOK, LastRank
<1>3. WrittenSoFar'
  BY <1>1, RankFacts DEF WrittenSoFar
<1>4. StoredInOrder'
  BY <1>1 DEF StoredInOrder, WrittenSoFar
<1> QED
  BY <1>1, <1>2, <1>3, <1>4
  DEF UnbuiltIsDirty, ClosedIsEmpty, CleanIsSaved, LanguageKnown, CallbackWaits

LEMMA SaveWindowInv ==
  ASSUME SessionInv, NEW w \in Windows, SaveWindow(w)
  PROVE  SessionInv'
<1> USE DEF SessionInv
<1>1. /\ saving = Rank[w] /\ saving' = saving + 1 /\ entries' = [entries EXCEPT ![w] = view[w]]
      /\ UNCHANGED <<document, up, workspace, view, queued, dragged, dirty, armed>>
      /\ UNCHANGED <<language, scripts, script, msgs, built, shown>>
  BY DEF SaveWindow, pageVars, langVars
<1>2. view[w] \in Entry /\ view[w] # Nil
  BY SessionAssumption DEF TypeOK
<1>3. Rank[w] \in 2..6 /\ \A v \in Windows : Rank[v] \in 2..6 /\ (Rank[v] = Rank[w] => v = w)
  BY RankFacts
<1>4. entries'[w] = view[w] /\ \A v \in Windows \ {w} : entries'[v] = entries[v]
  BY <1>1 DEF TypeOK
<1>5. TypeOK'
  <2>1. entries' \in [Windows -> Entry \cup {Nil}] /\ saving' \in 0 .. LastRank + 1
    BY <1>1, <1>2, <1>3 DEF TypeOK, LastRank
  <2> QED
    BY <1>1, <2>1 DEF TypeOK
<1>6. \A v \in Windows : Rank[v] < Rank[w] => entries[v] = view[v]
  BY <1>1 DEF WrittenSoFar
<1>7. up /\ workspace # Nil /\ document = workspace
  BY <1>1, <1>3 DEF WrittenSoFar
<1>8. WrittenSoFar'
  <2>1. \A v \in Windows : saving' > Rank[v] => v = w \/ Rank[v] < Rank[w]
    BY <1>1, <1>3
  <2> QED
    BY <1>1, <1>3, <1>4, <1>6, <1>7, <2>1 DEF WrittenSoFar
<1>9. StoredInOrder'
  <2>1. \A v \in Windows : view[v] # Nil
    BY SessionAssumption DEF TypeOK
  <2> SUFFICES ASSUME NEW u \in Windows, entries'[u] # Nil
               PROVE  document' # Nil /\ \A v \in Windows : Rank[v] < Rank[u] => entries'[v] # Nil
    BY DEF StoredInOrder
  <2>2. document' # Nil
    BY <1>1, <1>7
  <2>3. ASSUME NEW v \in Windows, Rank[v] < Rank[u] PROVE entries'[v] # Nil
    <3>1. CASE u = w
      BY <3>1, <2>1, <2>3, <1>3, <1>4, <1>6
    <3>2. CASE u # w
      BY <3>2, <2>1, <2>3, <1>4 DEF StoredInOrder
    <3> QED
      BY <3>1, <3>2
  <2> QED
    BY <2>2, <2>3
<1>10. CleanIsSaved'
  BY <1>1, <1>2, <1>4, RankFacts DEF CleanIsSaved
<1> QED
  BY <1>1, <1>5, <1>7, <1>8, <1>9, <1>10
  DEF UnbuiltIsDirty, ClosedIsEmpty, LanguageKnown, CallbackWaits

LEMMA SavedInv == SessionInv /\ Saved => SessionInv'
<1> SUFFICES ASSUME SessionInv, Saved PROVE SessionInv'
  OBVIOUS
<1> USE DEF SessionInv
<1>1. /\ saving = 7 /\ saving' = 0 /\ dirty' = FALSE /\ armed' = TRUE
      /\ UNCHANGED <<document, entries, up, workspace, view, queued, dragged>>
      /\ UNCHANGED <<language, scripts, script, msgs, built, shown>>
  BY RankFacts DEF Saved, storeVars, pageVars, langVars
<1>2. up /\ workspace # Nil /\ document = workspace /\ \A w \in Windows : entries[w] = view[w]
  BY <1>1, RankFacts DEF WrittenSoFar
<1>3. \A w \in Windows : view[w] # Nil
  BY SessionAssumption DEF TypeOK
<1>4. TypeOK'
  <2>1. dirty' \in BOOLEAN /\ armed' \in BOOLEAN
    BY <1>1, Zenon
  <2> QED
    BY <1>1, <2>1 DEF TypeOK, LastRank
<1>5. CleanIsSaved'
  BY <1>1, <1>2, <1>3, RankFacts DEF CleanIsSaved
<1>6. WrittenSoFar'
  BY <1>1, RankFacts DEF WrittenSoFar
<1> QED
  BY <1>1, <1>2, <1>4, <1>5, <1>6
  DEF UnbuiltIsDirty, ClosedIsEmpty, StoredInOrder, LanguageKnown, CallbackWaits

LEMMA SaveFailsInv == SessionInv /\ SaveFails => SessionInv'
<1> SUFFICES ASSUME SessionInv, SaveFails PROVE SessionInv'
  OBVIOUS
<1> USE DEF SessionInv
<1>1. /\ saving # 0 /\ saving' = 0 /\ UNCHANGED <<document, entries, dirty, armed>>
      /\ UNCHANGED <<up, workspace, view, queued, dragged, language, scripts, script, msgs, built, shown>>
  BY RankFacts DEF SaveFails, storeVars, pageVars, langVars
<1>2. TypeOK'
  BY <1>1 DEF TypeOK, LastRank
<1>3. WrittenSoFar'
  BY <1>1, RankFacts DEF WrittenSoFar
<1> QED
  BY <1>1, <1>2, <1>3
  DEF UnbuiltIsDirty, ClosedIsEmpty, CleanIsSaved, StoredInOrder, LanguageKnown, CallbackWaits

-----------------------------------------------------------------------------
LEMMA StepInv == SessionInv /\ [Next]_vars => SessionInv'
<1> SUFFICES ASSUME SessionInv, [Next]_vars PROVE SessionInv'
  OBVIOUS
<1>1. CASE Open
  BY <1>1, OpenInv
<1>2. CASE Close \/ Kill
  BY <1>2, ClosedInv DEF Close, Kill
<1>3. CASE SomeScriptLoads
  BY <1>3, ScriptLoadsInv DEF SomeScriptLoads
<1>4. CASE ChangeLanguage
  BY <1>4, ChangeLanguageInv
<1>5. CASE Edit \/ Arrange \/ SelectTarget \/ OnChange
  BY <1>5, UserInv
<1>6. CASE Timeout
  BY <1>6, TimeoutInv
<1>7. CASE Save
  BY <1>7, SaveDocumentInv, SaveWindowInv, SavedInv DEF Save
<1>8. CASE SaveFails
  BY <1>8, SaveFailsInv
<1>9. CASE UNCHANGED vars
  BY <1>9
  DEF vars, storeVars, pageVars, saveVars, langVars, SessionInv, TypeOK, WrittenSoFar,
      UnbuiltIsDirty, ClosedIsEmpty, CleanIsSaved, StoredInOrder, LanguageKnown, CallbackWaits
<1> QED
  BY <1>1, <1>2, <1>3, <1>4, <1>5, <1>6, <1>7, <1>8, <1>9 DEF Next, User

\* Between two handlers, in the middle of a backup, with any fault: all the
\* parts of the invariant hold of the session (app.js).
THEOREM SessionInvariant == Spec => []SessionInv
<1> QED
  BY InitInv, StepInv, PTL DEF Spec

\* Every variable of the session has its type.
THEOREM SessionTypes == Spec => []TypeOK
<1>1. SessionInv => TypeOK
  BY DEF SessionInv
<1> QED
  BY <1>1, SessionInvariant, PTL

\* A session that App.sessionIsDirty calls clean is in the storage, whatever was
\* interrupted before, but for the place of a window whose bar is still held: a
\* backup in the middle of a move is made good by the mark at its end.
THEOREM CleanSessionIsSaved == Spec => []CleanIsSaved
<1>1. SessionInv => CleanIsSaved
  BY DEF SessionInv
<1> QED
  BY <1>1, SessionInvariant, PTL

\* App.saveSession leaves in the storage a prefix of what it writes.
THEOREM StorageIsInOrder == Spec => []StoredInOrder
<1>1. SessionInv => StoredInOrder
  BY DEF SessionInv
<1> QED
  BY <1>1, SessionInvariant, PTL

\* The last load of a script that App.loadScript began builds the workspace in
\* App.language.
THEOREM WorkspaceIsInLanguage == Spec => []BuiltInLanguage
<1>1. SessionInv => BuiltInLanguage
  BY DEF SessionInv, CallbackWaits, BuiltInLanguage
<1> QED
  BY <1>1, SessionInvariant, PTL

-----------------------------------------------------------------------------
(* Without faults.                                                         *)

\* A backup is whole, one script is loaded at a time, and the callback is its
\* own.
FaultlessInv ==
  /\ document \in Documents \cup {Nil}
  /\ saving = 0 /\ document # Nil => \A w \in Windows : entries[w] # Nil
  /\ script = "i18n2" => scripts = <<Script("uprog", language)>>
  /\ script = "i18n3" => scripts = <<Script("blockly", language)>> /\ msgs["uprog"] = language
  /\ script = Nil => scripts = <<>>
  /\ script = Nil /\ workspace # Nil => ShownInLanguage

LEMMA FaultlessInit == ASSUME Faults = {} PROVE Init => FaultlessInv
BY SessionAssumption DEF Init, FaultlessInv

\* The load of the translations of the page, then of those of Blockly.
LEMMA FaultlessLoad ==
  ASSUME SessionInv, FaultlessInv, NEW i \in DOMAIN scripts, ScriptLoads(i)
  PROVE  FaultlessInv'
<1>1. /\ msgs' = [msgs EXCEPT ![scripts[i].part] = scripts[i].lang]
      /\ UNCHANGED <<document, entries, saving, language>>
  BY DEF ScriptLoads, storeVars, saveVars
<1>2. script # Nil
  BY DEF FaultlessInv
<1>3. msgs \in [{"uprog", "blockly"} -> Languages \cup {Nil}]
  BY DEF SessionInv, TypeOK
<1>4. CASE script = "i18n2"
  <2>1. scripts = <<Script("uprog", language)>> /\ i = 1
    BY <1>4 DEF FaultlessInv
  <2>2. RemoveAt(scripts, i) = <<>>
    BY <2>1 DEF RemoveAt
  <2>3. scripts' = <<Script("blockly", language)>> /\ script' = "i18n3"
    BY <1>4, <2>2, SessionAssumption DEF ScriptLoads
  <2>4. msgs'["uprog"] = language
    BY <1>1, <1>3, <2>1 DEF Script
  <2> QED
    BY <1>1, <2>3, <2>4, SessionAssumption DEF FaultlessInv
<1>5. CASE script = "i18n3"
  <2>1. scripts = <<Script("blockly", language)>> /\ i = 1 /\ msgs["uprog"] = language
    BY <1>5 DEF FaultlessInv
  <2>2. RemoveAt(scripts, i) = <<>>
    BY <2>1 DEF RemoveAt
  <2>3. scripts' = <<>> /\ script' = Nil /\ shown' = msgs'
    BY <1>5, <2>2, SessionAssumption DEF ScriptLoads, I18n3, CreateWorkspace
  <2>4. msgs' = [p \in {"uprog", "blockly"} |-> language]
    BY <1>1, <1>3, <2>1 DEF Script
  <2>5. [uprog |-> language, blockly |-> language] = [p \in {"uprog", "blockly"} |-> language]
    OBVIOUS
  <2>6. ShownInLanguage'
    BY <1>1, <2>3, <2>4, <2>5 DEF ShownInLanguage
  <2> QED
    BY <1>1, <2>3, <2>6, SessionAssumption DEF FaultlessInv
<1> QED
  BY <1>2, <1>4, <1>5 DEF SessionInv, TypeOK

LEMMA FaultlessStep ==
  ASSUME Faults = {}, SessionInv, FaultlessInv, [Next]_vars
  PROVE  FaultlessInv'
<1> USE DEF FaultlessInv
<1>1. CASE Open \/ Close
  <2>1. document' = document /\ saving' = saving /\ UNCHANGED entries /\ workspace' = Nil
    BY <1>1 DEF Open, Close, Closed, Idle, SessionInv, ClosedIsEmpty, storeVars
  <2>2. \/ script' = "i18n2" /\ scripts' = <<Script("uprog", language')>>
        \/ script' = Nil /\ scripts' = <<>>
    BY <1>1 DEF Open, Close, Closed
  <2> QED
    BY <2>1, <2>2, SessionAssumption
<1>2. CASE SomeScriptLoads
  BY <1>2, FaultlessLoad DEF SomeScriptLoads
<1>3. CASE ChangeLanguage
  <2>1. scripts = <<>> /\ UNCHANGED <<document, entries, saving>>
    BY <1>3 DEF ChangeLanguage, storeVars, saveVars
  <2>2. script' = "i18n2" /\ scripts' = <<Script("uprog", language')>>
    BY <1>3, <2>1 DEF ChangeLanguage
  <2> QED
    BY <2>1, <2>2, SessionAssumption
<1>4. CASE Edit \/ Arrange \/ SelectTarget \/ OnChange
  <2>1. UNCHANGED <<document, entries, saving, language, scripts, script, msgs, shown>>
    BY <1>4 DEF Edit, Arrange, Toggle, Drag, Drop, ChangeSpeed, SelectTarget, OnChange, storeVars, saveVars, langVars
  <2>2. workspace' # Nil => workspace # Nil
    BY <1>4 DEF Edit, Arrange, Toggle, Drag, Drop, ChangeSpeed, SelectTarget, OnChange
  <2> QED
    BY <2>1, <2>2 DEF ShownInLanguage
<1>5. CASE Timeout
  <2>1. UNCHANGED <<document, entries, workspace, language, scripts, script, msgs, shown>>
    BY <1>5 DEF Timeout, storeVars, pageVars, langVars
  <2>2. saving = 0
    BY <1>5 DEF Timeout, Idle
  <2> QED
    BY <2>1, <2>2 DEF ShownInLanguage
<1>6. CASE Save
  <2>1. UNCHANGED <<workspace, language, scripts, script, msgs, shown>>
    BY <1>6 DEF Save, SaveDocument, SaveWindow, Saved, pageVars, langVars
  <2>2. document' \in Documents \cup {Nil}
    <3>1. document' = workspace \/ document' = document
      BY <1>6 DEF Save, SaveDocument, SaveWindow, Saved, storeVars
    <3> QED
      BY <3>1 DEF SessionInv, TypeOK
  <2>3. saving' = 0 => \A w \in Windows : entries'[w] # Nil
    <3>1. CASE Saved
      <4>1. \A w \in Windows : entries[w] = view[w] /\ view[w] # Nil
        BY <3>1, RankFacts, SessionAssumption DEF Saved, SessionInv, WrittenSoFar, TypeOK
      <4> QED
        BY <3>1, <4>1 DEF Saved, storeVars
    <3>2. CASE SaveDocument
      BY <3>2 DEF SaveDocument
    <3>3. ASSUME NEW w \in Windows, SaveWindow(w) PROVE saving' # 0
      BY <3>3, RankFacts DEF SaveWindow
    <3> QED
      BY <1>6, <3>1, <3>2, <3>3 DEF Save
  <2> QED
    BY <2>1, <2>2, <2>3 DEF ShownInLanguage
<1>7. CASE UNCHANGED vars
  BY <1>7 DEF vars, storeVars, pageVars, saveVars, langVars, ShownInLanguage
<1>8. ~Kill /\ ~SaveFails
  BY DEF Kill, SaveFails
<1> QED
  BY <1>1, <1>2, <1>3, <1>4, <1>5, <1>6, <1>7, <1>8 DEF Next, User

LEMMA Faultless == ASSUME Faults = {} PROVE Spec => [](SessionInv /\ FaultlessInv)
<1>1. Init => SessionInv /\ FaultlessInv
  BY InitInv, FaultlessInit
<1>2. SessionInv /\ FaultlessInv /\ [Next]_vars => (SessionInv /\ FaultlessInv)'
  BY StepInv, FaultlessStep
<1> QED
  BY <1>1, <1>2, PTL DEF Spec

\* Without faults, the workspace that App.i18n3 leaves is in one language.
THEOREM OneLanguage == ASSUME Faults = {} PROVE Spec => []ShownInLanguage
<1>1. SessionInv /\ FaultlessInv => ShownInLanguage
  BY DEF SessionInv, CallbackWaits, FaultlessInv, ShownInLanguage
<1> QED
  BY <1>1, Faultless, PTL

\* Without faults, what restoreSession shows is what saveSession kept last, and
\* what the user changes is only replaced by changes: the session is the store.
THEOREM SessionIsStore == ASSUME Faults = {} PROVE Spec => ImplementsStore
<1>1. ASSUME Init, FaultlessInv PROVE Store!SInit
  BY <1>1 DEF Init, FaultlessInv, Store!SInit
<1>2. ASSUME SessionInv, FaultlessInv, [Next]_vars
      PROVE  [Store!SNext]_<<document, workspace>>
  <2> USE DEF Store!SNext
  <2>1. CASE Open
    BY <1>2, <2>1 DEF Open, storeVars
  <2>2. CASE Close
    BY <2>2 DEF Close, Closed, storeVars, Store!Leave
  <2>3. ASSUME NEW i \in DOMAIN scripts, ScriptLoads(i)
        PROVE  [Store!SNext]_<<document, workspace>>
    <3>1. UNCHANGED document /\ saving = 0
      BY <2>3 DEF ScriptLoads, Idle, storeVars
    <3>2. CASE script = "i18n3" /\ workspace = Nil
      <4>1. RestoreSession
        BY <2>3, <3>2, SessionAssumption DEF ScriptLoads, I18n3
      <4>2. document # Nil => Complete /\ TextToWorkspace(document) = document
        BY <1>2, <3>1 DEF FaultlessInv, Complete, Strict, TextToWorkspace
      <4>3. workspace' = IF document = Nil THEN NoBlocks ELSE document
        BY <4>1, <4>2 DEF RestoreSession
      <4> QED
        BY <3>1, <3>2, <4>3 DEF Store!Show
    <3>3. CASE ~(script = "i18n3" /\ workspace = Nil)
      BY <2>3, <3>1, <3>3, SessionAssumption DEF ScriptLoads, I18n3
    <3> QED
      BY <3>2, <3>3
  <2>4. CASE Edit
    BY <2>4 DEF Edit, storeVars, Store!Change
  <2>5. CASE SaveDocument
    <3>1. workspace # Nil
      BY <1>2, <2>5 DEF SessionInv, WrittenSoFar, SaveDocument
    <3> QED
      BY <2>5, <3>1 DEF SaveDocument, pageVars, Store!Keep
  <2>6. CASE ChangeLanguage \/ Arrange \/ SelectTarget \/ OnChange \/ Timeout \/ Saved
               \/ (\E w \in Windows : SaveWindow(w)) \/ UNCHANGED vars
    BY <2>6 DEF ChangeLanguage, Arrange, Toggle, Drag, Drop, ChangeSpeed, SelectTarget, OnChange, Timeout, Saved, SaveWindow,
                storeVars, pageVars, vars
  <2>7. ~Kill /\ ~SaveFails
    BY DEF Kill, SaveFails
  <2> QED
    BY <1>2, <2>1, <2>2, <2>3, <2>4, <2>5, <2>6, <2>7 DEF Next, User, SomeScriptLoads, Save
<1> QED
  BY <1>1, <1>2, Faultless, PTL DEF Spec, ImplementsStore, Store!SSpec
=============================================================================
