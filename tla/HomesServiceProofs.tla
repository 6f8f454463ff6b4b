-------------------------- MODULE HomesServiceProofs --------------------------
(***************************************************************************)
(* Proofs about HomesService for every set of tabs, widgets, placement lists *)
(* and background items.  The inductive invariant follows a save from the     *)
(* compare-and-swap to COMMIT: while it holds the version row and the layout  *)
(* rows nobody else writes, so its own view (work) is the page it was         *)
(* validated on, mirrored, with the first placements written.  A second       *)
(* invariant, History, says what tabs know of earlier states: the layout they *)
(* show, what their client was told, the widget they are about to remove; and *)
(* how requests end: what holds a lock, and which answer they still owe.       *)
(***************************************************************************)
EXTENDS HomesService, HomeLayoutProofs

\* The save has read and validated the rows, and holds them.
Validated == {"bg_select", "mirror", "bg_unplace", "bg_place", "place", "unmirror",
              "commit"}

\* Who holds the version row holds the version it named; who holds the layout
\* rows as well has validated them.
LocksHeld(t) ==
    /\ pc[t] \in TxnStatement \cup {"commit"} => version # 0
    /\ Admitted(t) => versionOwner = t /\ want[t].version = version
    /\ pc[t] \in Validated =>
          rowsOwner = t /\ Accepted(want[t].placements, rows)

\* How far the statements of the save have come.
SavedRows(t) ==
    /\ pc[t] \notin Validated \cup {"rollback", "stranded"} => index[t] = 0
    /\ pc[t] \in {"bg_select", "mirror"} => work[t].rows = rows /\ index[t] = 0
    /\ pc[t] \in {"bg_unplace", "bg_place"} =>
          work[t].rows = Mirror(rows) /\ index[t] = 0
    /\ pc[t] = "place" =>
          /\ index[t] < Len(want[t].placements)
          /\ work[t].rows = Written(want[t].placements, rows, index[t])
    /\ pc[t] = "unmirror" =>
          work[t].rows = Written(want[t].placements, rows, Len(want[t].placements))
    /\ pc[t] = "commit" => work[t].rows = FinalPage(want[t].placements, rows)

SavedBackground(t) ==
    /\ pc[t] = "bg_select" => want[t].background # NoBackground
    /\ pc[t] \in Validated \ {"bg_select"} =>
          want[t].background \in Background \cup {NoBackground}
    /\ pc[t] \in {"bg_unplace", "bg_place"} => want[t].background # NoBackground
    /\ pc[t] \in {"bg_select", "mirror", "bg_unplace"} => work[t].placed = placed
    /\ pc[t] = "bg_place" => work[t].placed = {}
    /\ pc[t] \in {"place", "unmirror", "commit"} =>
          work[t].placed = IF want[t].background = NoBackground THEN placed
                           ELSE {want[t].background}

\* What a request carries, and what its tab has read.
Carried(t) ==
    /\ pc[t] \in {"add_lookup", "add_position", "add_insert"} => row[t] \in Row
    /\ row[t] \in Row => row[t].position >= 0
    /\ pc[t] \in {"rm_lookup", "rm_delete"} => target[t] \in WidgetId
    /\ Proper(reading[t].rows)
    /\ Proper(base[t].rows)

TabInv(t) == LocksHeld(t) /\ SavedRows(t) /\ SavedBackground(t) /\ Carried(t)

IInv == TypeOK /\ Proper(rows) /\ \A t \in Tab : TabInv(t)

-----------------------------------------------------------------------------
(* Types.                                                                    *)

\* The values requests are reset to.
LEMMA Defaults ==
    /\ Proper(EmptyPage)
    /\ NoRequest \in SaveRequest
    /\ NoLayout \in Layout /\ NoLayout.rows = EmptyPage
    /\ NoView \in View
<1>1. EmptyPage \in Page /\ OnPage(EmptyPage) = {}
  BY DEF EmptyPage, Page, OnPage
<1>2. Proper(EmptyPage)
  BY <1>1 DEF Proper, SlotsDistinct
<1>3. NoRequest \in SaveRequest
  <2>1. <<>> \in Seq(Placement) /\ NoBackground \in Item
    BY DEF Item
  <2> QED
    BY <2>1 DEF NoRequest, SaveRequest
<1>4. NoLayout \in Layout /\ NoLayout.rows = EmptyPage
  BY <1>1 DEF NoLayout, Layout
<1>5. NoView \in View
  BY <1>1 DEF NoView, View
<1> QED
  BY <1>2, <1>3, <1>4, <1>5

\* The types of what the shared steps of a request write.
OutcomeTypes ==
    /\ verdict \in [Tab -> Answers]
    /\ answer \in [Tab -> Answers]
    /\ settled \in [Tab -> BOOLEAN]

RequestTypes ==
    /\ want \in [Tab -> SaveRequest]
    /\ index \in [Tab -> Nat]
    /\ work \in [Tab -> View]
    /\ row \in [Tab -> Row \cup {NoRow}]
    /\ target \in [Tab -> WidgetId \cup {0}]
    /\ reading \in [Tab -> Layout]

\* Going on to another statement keeps the types.
LEMMA GotoTypes ==
    ASSUME TypeOK, NEW t \in Tab, NEW where \in PcValues, Goto(t, where)
    PROVE  /\ pc' \in [Tab -> PcValues]
           /\ pc'[t] = where
           /\ \A u \in Tab : u # t => pc'[u] = pc[u]
  BY DEF TypeOK, Goto

\* Answering a client keeps the types.
LEMMA SettleTypes ==
    ASSUME TypeOK, NEW t \in Tab, NEW a \in Answers, Settle(t, a)
    PROVE  answer' \in [Tab -> Answers] /\ settled' \in [Tab -> BOOLEAN]
  BY DEF TypeOK, Settle

\* A request that begins clears its outcome and keeps the types.
LEMMA BeginTypes ==
    ASSUME TypeOK, NEW t \in Tab, NEW where \in PcValues, Begin(t, where)
    PROVE  /\ pc' \in [Tab -> PcValues]
           /\ OutcomeTypes'
           /\ applied' \in [Tab -> BOOLEAN] /\ audited' \in [Tab -> BOOLEAN]
  BY GotoTypes DEF TypeOK, Begin, OutcomeTypes, Answers

\* Ending a request, or reporting its failure, keeps the types.
LEMMA FinishTypes ==
    ASSUME TypeOK, NEW t \in Tab, NEW a \in Answers, Finish(t, a)
    PROVE  pc' \in [Tab -> PcValues] /\ OutcomeTypes' /\ RequestTypes'
<1>1. "idle" \in PcValues /\ "none" \in Answers
  BY DEF PcValues, Answers
<1>2. pc' \in [Tab -> PcValues] /\ OutcomeTypes'
  BY <1>1, GotoTypes, SettleTypes DEF TypeOK, Finish, OutcomeTypes
<1>3. RequestTypes'
  BY Defaults DEF TypeOK, Finish, RequestTypes
<1> QED
  BY <1>2, <1>3

\* Loading the page for the answer of a save keeps the types.
LEMMA ReloadTypes ==
    ASSUME TypeOK, NEW t \in Tab, NEW v \in Answers, Reload(t, v)
    PROVE  /\ pc' \in [Tab -> PcValues]
           /\ verdict' \in [Tab -> Answers]
           /\ want' \in [Tab -> SaveRequest]
           /\ index' \in [Tab -> Nat]
           /\ work' \in [Tab -> View]
<1>1. "load_version" \in PcValues
  BY DEF PcValues, AutocommitStatement
<1> QED
  BY <1>1, GotoTypes, Defaults DEF TypeOK, Reload

\* Asking for the rollback of a transaction keeps the types.
LEMMA AbortTypes ==
    ASSUME TypeOK, NEW t \in Tab, NEW e \in Answers, Abort(t, e)
    PROVE  /\ pc' \in [Tab -> PcValues]
           /\ OutcomeTypes'
           /\ applied' \in [Tab -> BOOLEAN] /\ audited' \in [Tab -> BOOLEAN]
<1>1. "rollback" \in PcValues
  BY DEF PcValues
<1> QED
  BY <1>1, GotoTypes DEF TypeOK, Abort, OutcomeTypes

\* What a client sends is a list of placements and an item.
LEMMA ClientSendsLists ==
    ASSUME IInv, NEW t \in Tab
    PROVE  ClientSaves(t) \subseteq [placements : Seq(Placement), background : Item]
<1>1. Proper(base[t].rows)
  BY DEF IInv, TabInv, Carried
<1>2. ASSUME NEW w \in OnPage(base[t].rows), NEW column \in Column,
             NEW position \in 0..MaxPosition
      PROVE  PlacementsForMove(base[t].rows, w, column, position) \in Seq(Placement)
  BY <1>1, MoveIsAList
<1> QED
  BY <1>2, ServiceAssumption DEF ClientSaves, Item

\* The view of a save that has validated the rows is a page.
LEMMA SavedPageType ==
    ASSUME IInv, NEW t \in Tab, pc[t] \in Validated
    PROVE  /\ Accepted(want[t].placements, rows)
           /\ want[t].placements \in Seq(Placement)
           /\ work[t].rows \in Page
           /\ Proper(FinalPage(want[t].placements, rows))
<1> DEFINE requested == want[t].placements
<1>1. Proper(rows) /\ Accepted(requested, rows)
  BY DEF IInv, TabInv, LocksHeld
<1>2. requested \in Seq(Placement)
  BY <1>1 DEF Accepted
<1>3. work \in [Tab -> View]
  BY DEF IInv, TypeOK
<1>4. work[t].rows \in Page
  BY <1>3 DEF View
<1> QED
  BY <1>1, <1>2, <1>4, FinalPageRows

\* An UPDATE of the layout rows, accepted or refused by the index, keeps the types.
LEMMA UpdateRowsTypes ==
    ASSUME IInv, NEW t \in Tab, NEW page \in Page, NEW next \in PcValues,
           UpdateRows(t, page, next)
    PROVE  /\ pc' \in [Tab -> PcValues]
           /\ OutcomeTypes'
           /\ applied' \in [Tab -> BOOLEAN] /\ audited' \in [Tab -> BOOLEAN]
           /\ work' \in [Tab -> View]
           /\ UNCHANGED <<store, locks, asked, client>>
<1> USE DEF IInv
<1>0. "unavailable" \in Answers
  BY DEF Answers
<1>1. CASE Clash(work[t].rows, page)
  <2>1. Abort(t, "unavailable") /\ UNCHANGED work /\ UNCHANGED <<store, locks, asked, client>>
    BY <1>1 DEF UpdateRows
  <2> QED
    BY <1>0, <2>1, AbortTypes DEF TypeOK
<1>2. CASE ~Clash(work[t].rows, page)
  <2>1. /\ work' = [work EXCEPT ![t].rows = page]
        /\ Goto(t, next)
        /\ UNCHANGED outcome
        /\ UNCHANGED <<store, locks, asked, client>>
    BY <1>2 DEF UpdateRows
  <2>2. work' \in [Tab -> View]
    BY <2>1 DEF TypeOK, View
  <2> QED
    BY <2>1, <2>2, GotoTypes DEF TypeOK, OutcomeTypes, outcome
<1> QED
  BY <1>1, <1>2

\* The statements of loadLayout keep the types.
LEMMA ReadTypes ==
    ASSUME IInv, NEW t \in Tab, StartLoad(t) \/ Read(t)
    PROVE  TypeOK'
<1>0. /\ TypeOK
      /\ {"load_version", "load_rows", "load_items"} \subseteq PcValues
  BY DEF IInv, PcValues, AutocommitStatement
<1>1. CASE StartLoad(t)
  BY <1>0, <1>1, BeginTypes
  DEF TypeOK, StartLoad, OutcomeTypes, store, locks, asked, txn, client
<1>2. CASE LoadVersion(t)
  <2>0. PICK v \in Nat : reading' = [reading EXCEPT ![t].version = v]
    BY <1>0, <1>2 DEF LoadVersion, TypeOK
  <2>1. reading' \in [Tab -> Layout]
    BY <1>0, <2>0 DEF TypeOK, Layout
  <2> QED
    BY <1>0, <1>2, <2>1, GotoTypes
    DEF TypeOK, LoadVersion, store, locks, asked, txn, outcome
<1>3. CASE LoadRows(t)
  <2>1. reading' \in [Tab -> Layout]
    BY <1>0, <1>3 DEF LoadRows, TypeOK, Layout
  <2> QED
    BY <1>0, <1>3, <2>1, GotoTypes
    DEF TypeOK, LoadRows, store, locks, asked, txn, outcome
<1>4. CASE LoadItems(t)
  <2>1. base' \in [Tab -> Layout]
    BY <1>0, <1>4 DEF LoadItems, Loaded, TypeOK, Layout
  <2>2. (IF verdict[t] = "none" THEN "ok" ELSE verdict[t]) \in Answers
    BY <1>0 DEF TypeOK, Answers
  <2>3. pc' \in [Tab -> PcValues] /\ OutcomeTypes' /\ RequestTypes'
    BY <1>0, <1>4, <2>2, FinishTypes DEF LoadItems
  <2> QED
    BY <1>0, <1>4, <2>1, <2>3
    DEF TypeOK, LoadItems, OutcomeTypes, RequestTypes, store, locks
<1> QED
  BY <1>1, <1>2, <1>3, <1>4 DEF Read

\* A request of a client: a save, an added widget, a removed widget.
LEMMA RequestTypesHold ==
    ASSUME IInv, NEW t \in Tab, Request(t)
    PROVE  TypeOK'
<1>0. TypeOK /\ "verify" \in PcValues
  BY DEF IInv, PcValues
<1>1. CASE StartLoad(t)
  BY <1>1, ReadTypes
<1>2. ASSUME NEW v \in 1..MaxVersion, NEW save \in ClientSaves(t), StartSave(t, v, save)
      PROVE  TypeOK'
  <2>1. /\ v \in Nat /\ save.placements \in Seq(Placement) /\ save.background \in Item
    BY ClientSendsLists, ServiceAssumption
  <2>2. want' \in [Tab -> SaveRequest]
    BY <1>0, <1>2, <2>1 DEF StartSave, TypeOK, SaveRequest
  <2> QED
    BY <1>0, <1>2, <2>2, BeginTypes
    DEF TypeOK, StartSave, OutcomeTypes, store, locks, txn, client
<1>3. ASSUME NEW key \in WidgetKey, NEW column \in Column, StartAdd(t, key, column)
      PROVE  TypeOK'
  <2>1. row' \in [Tab -> Row \cup {NoRow}]
    BY <1>0, <1>3 DEF StartAdd, TypeOK, Row
  <2> QED
    BY <1>0, <1>3, <2>1, BeginTypes
    DEF TypeOK, StartAdd, OutcomeTypes, store, locks, txn, client
<1>4. ASSUME NEW w \in WidgetId, StartRemove(t, w)
      PROVE  TypeOK'
  <2>1. target' \in [Tab -> WidgetId \cup {0}]
    BY <1>0, <1>4 DEF StartRemove, TypeOK
  <2> QED
    BY <1>0, <1>4, <2>1, BeginTypes
    DEF TypeOK, StartRemove, OutcomeTypes, store, locks, txn, client
<1> QED
  BY <1>1, <1>2, <1>3, <1>4 DEF Request

\* The edit lock, the version row and the widget routes.
LEMMA OutsideTypes ==
    ASSUME IInv, NEW t \in Tab,
           \/ EditLockHeld(t) \/ EditLockRefused(t) \/ CreateVersionRow(t)
           \/ Widget(t) \/ LockWaitTimeout(t)
    PROVE  TypeOK'
<1>0. /\ TypeOK
      /\ {"add_lookup", "rm_lookup", "version_row", "cas", "add_position",
          "add_insert", "rm_delete"} \subseteq PcValues
      /\ {"locked", "conflict", "unavailable", "ok", "missing", "denied"} \subseteq Answers
  BY DEF IInv, PcValues, AutocommitStatement, TxnStatement, Answers
<1>f. ASSUME NEW a \in Answers, Finish(t, a)
      PROVE  pc' \in [Tab -> PcValues] /\ OutcomeTypes' /\ RequestTypes'
  BY <1>0, <1>f, FinishTypes
<1>1. CASE EditLockHeld(t)
  BY <1>0, <1>1, GotoTypes
  DEF TypeOK, EditLockHeld, store, locks, asked, txn, outcome, client
<1>2. CASE EditLockRefused(t)
  BY <1>0, <1>2, <1>f
  DEF TypeOK, EditLockRefused, OutcomeTypes, RequestTypes, store, locks
<1>3. CASE CreateVersionRow(t)
  BY <1>0, <1>3, GotoTypes
  DEF TypeOK, CreateVersionRow, locks, asked, txn, outcome, client
<1>4. CASE LookupKey(t)
  <2>1. CASE Finish(t, "conflict") /\ UNCHANGED <<store, locks, applied, audited, base>>
    BY <1>0, <2>1, <1>f DEF TypeOK, OutcomeTypes, RequestTypes, store, locks
  <2>2. CASE /\ Goto(t, "add_position")
             /\ UNCHANGED <<verdict, answer, settled, asked, txn, reading>>
             /\ UNCHANGED <<store, locks, applied, audited, base>>
    BY <1>0, <2>2, GotoTypes DEF TypeOK, asked, txn, store, locks
  <2> QED
    BY <1>4, <2>1, <2>2 DEF LookupKey
<1>5. CASE FindPosition(t)
  <2>1. PICK bottom \in {0} \cup {rows[w].position + 1 : w \in InColumn(row[t].column)} :
           row' = [row EXCEPT ![t].position = bottom]
    BY <1>5 DEF FindPosition
  <2>2. \A w \in InColumn(row[t].column) : rows[w].position \in Int
    BY <1>0 DEF TypeOK, InColumn, OnPage, Page, Row
  <2>3. bottom \in Int
    BY <2>1, <2>2
  <2>4. pc[t] = "add_position"
    BY <1>5 DEF FindPosition
  <2>5. row[t] \in Row
    BY <2>4 DEF IInv, TabInv, Carried
  <2>6. [row[t] EXCEPT !.position = bottom] \in Row
    BY <2>3, <2>5 DEF Row
  <2>7. row' \in [Tab -> Row \cup {NoRow}]
    BY <1>0, <2>1, <2>6 DEF TypeOK
  <2> QED
    BY <1>0, <1>5, <2>7, GotoTypes DEF TypeOK, FindPosition, store, locks, txn, outcome, client
<1>6. CASE InsertWidget(t)
  <2>0. UNCHANGED <<version, placed, locks, base>>
    BY <1>6 DEF InsertWidget
  <2>1. CASE /\ Finish(t, "conflict") \/ Finish(t, "unavailable")
             /\ UNCHANGED <<rows, used, applied, audited>>
    BY <1>0, <1>f, <2>0, <2>1 DEF TypeOK, OutcomeTypes, RequestTypes, locks
  <2>2. ASSUME NEW w \in WidgetId \ used,
               rows' = [rows EXCEPT ![w] = row[t]],
               used' = used \cup {w},
               applied' = [applied EXCEPT ![t] = TRUE], WidgetWritten(t)
        PROVE  TypeOK'
    <3>1. rows' \in Page /\ OnPage(rows') \subseteq used'
      BY <1>0, <2>2 DEF TypeOK, Page, OnPage
    <3>2. used' \subseteq WidgetId
      BY <1>0, <2>2 DEF TypeOK
    <3> QED
      BY <1>0, <1>f, <2>0, <2>2, <3>1, <3>2
      DEF TypeOK, OutcomeTypes, RequestTypes, locks, WidgetWritten
  <2> QED
    BY <1>6, <2>1, <2>2 DEF InsertWidget
<1>7. CASE LookupWidget(t)
  <2>1. CASE /\ Finish(t, "missing") \/ Finish(t, "denied")
             /\ UNCHANGED <<store, locks, applied, audited, base>>
    BY <1>0, <2>1, <1>f DEF TypeOK, OutcomeTypes, RequestTypes, store, locks
  <2>2. CASE /\ Goto(t, "rm_delete")
             /\ UNCHANGED <<verdict, answer, settled, asked, txn, reading>>
             /\ UNCHANGED <<store, locks, applied, audited, base>>
    BY <1>0, <2>2, GotoTypes DEF TypeOK, asked, txn, store, locks
  <2> QED
    BY <1>7, <2>1, <2>2 DEF LookupWidget
<1>8. CASE DeleteWidget(t)
  <2>1. rows' \in Page /\ OnPage(rows') \subseteq used
    BY <1>0, <1>8 DEF DeleteWidget, TypeOK, Page, OnPage
  <2> QED
    BY <1>0, <1>8, <1>f, <2>1
    DEF TypeOK, DeleteWidget, WidgetWritten, OutcomeTypes, RequestTypes, locks
<1>9. CASE LockWaitTimeout(t)
  <2>1. CASE AutocommitFails(t)
    BY <1>0, <1>f, <2>1 DEF AutocommitFails, TypeOK, OutcomeTypes, RequestTypes, store, locks
  <2>2. CASE Abort(t, "conflict") /\ UNCHANGED <<store, locks, asked, txn, client>>
    BY <1>0, <2>2, AbortTypes DEF TypeOK, OutcomeTypes, store, locks, asked, txn, client
  <2> QED
    BY <1>9, <2>1, <2>2 DEF LockWaitTimeout
<1> QED
  BY <1>1, <1>2, <1>3, <1>4, <1>5, <1>6, <1>7, <1>8, <1>9 DEF Widget

\* The statements of saveLayout's transaction keep the types.
LEMMA TransactionTypes ==
    ASSUME IInv, NEW t \in Tab, InTransaction(t)
    PROVE  TypeOK'
<1>0. /\ TypeOK
      /\ TxnStatement \cup {"commit", "rollback"} \subseteq PcValues
      /\ {"unavailable", "conflict", "missing", "denied", "invalid", "none"} \subseteq Answers
  BY DEF IInv, PcValues, Answers
<1>u. ASSUME NEW page \in Page, NEW next \in PcValues, UpdateRows(t, page, next),
             index' \in [Tab -> Nat]
      PROVE  TypeOK'
  BY <1>0, <1>u, UpdateRowsTypes DEF TypeOK, OutcomeTypes, store, locks, asked, client
<1>n. \A n \in Nat : NextPlacement(t, n) \in PcValues
  BY DEF NextPlacement, PcValues, TxnStatement
<1>1. CASE CompareAndSwap(t)
  <2>1. CASE Goto(t, "select") /\ UNCHANGED outcome
    BY <1>0, <1>1, <2>1, GotoTypes
    DEF TypeOK, CompareAndSwap, TxnStatement, store, asked, txn, outcome, client
  <2>2. CASE Abort(t, "conflict")
    BY <1>0, <1>1, <2>2, AbortTypes
    DEF TypeOK, CompareAndSwap, OutcomeTypes, store, asked, txn, client
  <2> QED
    BY <1>1, <2>1, <2>2 DEF CompareAndSwap
<1>2. CASE SelectRows(t)
  <2>1. work' \in [Tab -> View] /\ rowsOwner' \in Tab \cup {Nobody}
    BY <1>0, <1>2 DEF TypeOK, SelectRows, View
  <2>2. CASE Goto(t, "mirror") /\ UNCHANGED outcome
    BY <1>0, <1>2, <2>1, <2>2, GotoTypes
    DEF TypeOK, SelectRows, TxnStatement, store, asked, outcome, client
  <2>3. CASE Goto(t, "bg_select") /\ UNCHANGED outcome
    BY <1>0, <1>2, <2>1, <2>3, GotoTypes
    DEF TypeOK, SelectRows, TxnStatement, store, asked, outcome, client
  <2>4. CASE Abort(t, ValidatePlacements(want[t].placements, rows))
             /\ ValidatePlacements(want[t].placements, rows) # "none"
    <3>1. ValidatePlacements(want[t].placements, rows) \in Answers
      BY <1>0, ValidationAnswers
    <3> QED
      BY <1>0, <1>2, <2>1, <2>4, <3>1, AbortTypes
      DEF TypeOK, SelectRows, OutcomeTypes, store, asked, client
  <2> QED
    BY <1>2, <2>2, <2>3, <2>4 DEF SelectRows
<1>3. CASE SelectBackground(t)
  <2>1. CASE Abort(t, "missing") \/ Abort(t, "denied")
    BY <1>0, <1>3, <2>1, AbortTypes
    DEF TypeOK, SelectBackground, OutcomeTypes, store, locks, asked, txn, client
  <2>2. CASE Goto(t, "mirror") /\ UNCHANGED outcome
    BY <1>0, <1>3, <2>2, GotoTypes
    DEF TypeOK, SelectBackground, TxnStatement, store, locks, asked, txn, outcome, client
  <2> QED
    BY <1>3, <2>1, <2>2 DEF SelectBackground
<1>4. CASE MirrorRows(t)
  <2>1. pc[t] = "mirror"
    BY <1>4 DEF MirrorRows
  <2>2. /\ Accepted(want[t].placements, rows) /\ Proper(rows)
        /\ work[t].rows = rows
    BY <2>1 DEF IInv, TabInv, LocksHeld, SavedRows, Validated
  <2>3. Mirror(work[t].rows) \in Page
    <3>1. 0 \in 0..Len(want[t].placements)
      BY <2>2 DEF Accepted
    <3> QED
      BY <2>2, <3>1, MirrorIsClean, WrittenRows
  <2>4. (IF want[t].background = NoBackground THEN NextPlacement(t, 0)
         ELSE "bg_unplace") \in PcValues
    BY <1>0, <1>n DEF TxnStatement
  <2>5. index' \in [Tab -> Nat]
    BY <1>0, <1>4 DEF MirrorRows, TypeOK
  <2>6. UpdateRows(t, Mirror(work[t].rows),
           IF want[t].background = NoBackground THEN NextPlacement(t, 0)
           ELSE "bg_unplace")
    BY <1>4 DEF MirrorRows
  <2> QED
    BY <2>3, <2>4, <2>5, <2>6, <1>u
<1>5. CASE UnplaceBackground(t)
  <2>1. work' \in [Tab -> View]
    BY <1>0, <1>5 DEF TypeOK, UnplaceBackground, View
  <2> QED
    BY <1>0, <1>5, <2>1, GotoTypes
    DEF TypeOK, UnplaceBackground, TxnStatement, store, locks, asked, outcome, client
<1>6. CASE PlaceBackground(t)
  <2>1. pc[t] = "bg_place"
    BY <1>6 DEF PlaceBackground
  <2>2. want[t].background \in Background /\ work[t].placed = {}
    BY <2>1 DEF IInv, TabInv, SavedBackground, Validated
  <2>3. work' = [work EXCEPT ![t].placed = {want[t].background}]
    BY <1>6, <2>2 DEF PlaceBackground
  <2>4. work' \in [Tab -> View]
    BY <1>0, <2>2, <2>3 DEF TypeOK, View
  <2>5. NextPlacement(t, 0) \in PcValues /\ Goto(t, NextPlacement(t, 0))
    BY <1>6, <1>n DEF PlaceBackground
  <2> QED
    BY <1>0, <1>6, <2>4, <2>5, GotoTypes
    DEF TypeOK, PlaceBackground, store, locks, asked, outcome, client
<1>7. CASE PlaceWidget(t)
  <2>1. pc[t] = "place"
    BY <1>7 DEF PlaceWidget
  <2>2. /\ Accepted(want[t].placements, rows) /\ Proper(rows)
        /\ index[t] < Len(want[t].placements) /\ index[t] \in Nat
        /\ work[t].rows = Written(want[t].placements, rows, index[t])
    BY <1>0, <2>1 DEF IInv, TypeOK, TabInv, LocksHeld, SavedRows, Validated
  <2>3. index[t] \in 0..Len(want[t].placements) /\ index[t] + 1 \in 0..Len(want[t].placements)
    BY <2>2 DEF Accepted
  <2>4. Place(work[t].rows, want[t].placements[index[t] + 1]) \in Page
    BY <2>2, <2>3, PlaceIsClean, WrittenRows
  <2>5. index' \in [Tab -> Nat]
    BY <1>0, <1>7 DEF PlaceWidget, TypeOK
  <2>6. /\ NextPlacement(t, index[t] + 1) \in PcValues
        /\ UpdateRows(t, Place(work[t].rows, want[t].placements[index[t] + 1]),
                      NextPlacement(t, index[t] + 1))
    BY <1>7, <1>n, <2>2 DEF PlaceWidget
  <2> QED
    BY <2>4, <2>5, <2>6, <1>u
<1>8. CASE UnmirrorRows(t)
  <2>1. pc[t] = "unmirror"
    BY <1>8 DEF UnmirrorRows
  <2>2. /\ Accepted(want[t].placements, rows) /\ Proper(rows)
        /\ work[t].rows = Written(want[t].placements, rows, Len(want[t].placements))
    BY <2>1 DEF IInv, TabInv, LocksHeld, SavedRows, Validated
  <2>3. Unmirror(work[t].rows) \in Page
    BY <2>2, UnmirrorIsClean, FinalPageRows
  <2>4. index' \in [Tab -> Nat] /\ UpdateRows(t, Unmirror(work[t].rows), "commit")
    BY <1>0, <1>8 DEF UnmirrorRows, TypeOK
  <2> QED
    BY <1>0, <2>3, <2>4, <1>u
<1>9. CASE Rollback(t)
  <2>0. /\ versionOwner' \in Tab \cup {Nobody} /\ rowsOwner' \in Tab \cup {Nobody}
        /\ UNCHANGED <<store, applied, audited, base>>
    BY <1>0, <1>9 DEF TypeOK, Rollback, ReleaseLocks
  <2>1. CASE Reload(t, "conflict") /\ UNCHANGED <<answer, settled, row, target, reading>>
    BY <1>0, <2>0, <2>1, ReloadTypes DEF TypeOK, store
  <2>2. CASE Finish(t, verdict[t])
    <3>1. verdict[t] \in Answers
      BY <1>0 DEF TypeOK
    <3> QED
      BY <1>0, <2>0, <2>2, <3>1, FinishTypes DEF TypeOK, OutcomeTypes, RequestTypes, store
  <2> QED
    BY <1>9, <2>1, <2>2 DEF Rollback
<1> QED
  BY <1>1, <1>2, <1>3, <1>4, <1>5, <1>6, <1>7, <1>8, <1>9 DEF InTransaction

\* COMMIT, a lost COMMIT and ROLLBACK keep the types.
LEMMA CommitTypes ==
    ASSUME IInv, NEW t \in Tab, Commit(t) \/ CommitFails(t)
    PROVE  TypeOK'
<1>0. TypeOK /\ {"ok", "none", "unavailable"} \subseteq Answers
  BY DEF IInv, Answers
<1>1. /\ versionOwner' \in Tab \cup {Nobody} /\ rowsOwner' \in Tab \cup {Nobody}
      /\ UNCHANGED <<used, base>>
      /\ pc[t] = "commit"
  BY <1>0 DEF TypeOK, Commit, CommitFails, ReleaseLocks
<1>2. /\ Accepted(want[t].placements, rows) /\ Proper(rows)
      /\ work[t].rows = FinalPage(want[t].placements, rows)
      /\ work[t].placed \subseteq Background
      /\ want[t].version + 1 \in Nat
  BY <1>0, <1>1
  DEF IInv, TypeOK, TabInv, LocksHeld, SavedRows, Validated, View, SaveRequest
<1>3. work[t].rows \in Page /\ OnPage(work[t].rows) = OnPage(rows)
  BY <1>2, FinalPageRows DEF OnPage
<1>4. /\ rows' \in Page /\ OnPage(rows') \subseteq used /\ version' \in Nat
      /\ placed' \subseteq Background /\ applied' \in [Tab -> BOOLEAN]
  <2>1. CASE CommitApplied(t)
    BY <1>0, <1>2, <1>3, <2>1 DEF CommitApplied, TypeOK
  <2>2. CASE UNCHANGED <<rows, version, placed, applied>>
    BY <1>0, <2>2 DEF TypeOK
  <2> QED
    BY <2>1, <2>2 DEF Commit, CommitFails
<1>5. CASE Commit(t)
  <2>1. CASE Finish(t, "none") /\ UNCHANGED audited
    BY <1>0, <1>1, <1>4, <2>1, FinishTypes DEF TypeOK, OutcomeTypes, RequestTypes
  <2>2. CASE /\ audited' = [audited EXCEPT ![t] = TRUE]
             /\ Reload(t, "ok")
             /\ UNCHANGED <<answer, settled, row, target, reading>>
    BY <1>0, <1>1, <1>4, <2>2, ReloadTypes DEF TypeOK
  <2> QED
    BY <1>5, <2>1, <2>2 DEF Commit
<1>6. CASE CommitFails(t)
  <2>1. Finish(t, "unavailable") /\ UNCHANGED audited
    BY <1>6 DEF CommitFails
  <2> QED
    BY <1>0, <1>1, <1>4, <2>1, FinishTypes DEF TypeOK, OutcomeTypes, RequestTypes
<1> QED
  BY <1>5, <1>6

\* Failing statements, lock waits and the timer keep the types.
LEMMA MishapTypes ==
    ASSUME IInv, NEW t \in Tab, StatementFails(t) \/ Watchdog(t) \/ WatchdogRace(t)
    PROVE  TypeOK'
<1>0. /\ TypeOK
      /\ {"rollback", "stranded"} \subseteq PcValues
      /\ {"unavailable", "conflict"} \subseteq Answers
  BY DEF IInv, PcValues, Answers
<1>1. CASE StatementFails(t)
  <2>1. CASE AutocommitFails(t)
    BY <1>0, <2>1, FinishTypes
    DEF AutocommitFails, TypeOK, OutcomeTypes, RequestTypes, store, locks
  <2>2. CASE \E e \in {"unavailable", "conflict"} :
                Abort(t, e) /\ UNCHANGED <<store, locks, asked, txn, client>>
    BY <1>0, <2>2, AbortTypes DEF TypeOK, OutcomeTypes, store, locks, asked, txn, client
  <2> QED
    BY <1>1, <2>1, <2>2 DEF StatementFails
<1>2. CASE Watchdog(t)
  <2>1. PICK where \in PcValues : Goto(t, where)
    BY <1>0, <1>2 DEF Watchdog
  <2> QED
    BY <1>0, <1>2, <2>1, GotoTypes, SettleTypes
    DEF TypeOK, Watchdog, store, locks, asked, txn, client
<1>3. CASE WatchdogRace(t)
  BY <1>0, <1>3, SettleTypes DEF TypeOK, WatchdogRace, store, locks, asked, txn, client
<1> QED
  BY <1>1, <1>2, <1>3

\* Every step keeps TypeOK.
LEMMA TypeStep ==
    ASSUME IInv, [Next]_vars
    PROVE  TypeOK'
<1>1. CASE UNCHANGED vars
  BY <1>1 DEF IInv, TypeOK, vars, store, locks, asked, txn, outcome, client
<1>2. ASSUME NEW t \in Tab,
             \/ Request(t) \/ Outside(t) \/ InTransaction(t)
             \/ StatementFails(t) \/ Watchdog(t) \/ WatchdogRace(t)
      PROVE  TypeOK'
  BY <1>2, ReadTypes, RequestTypesHold, OutsideTypes, TransactionTypes, CommitTypes,
     MishapTypes DEF Outside
<1> QED
  BY <1>1, <1>2 DEF Next

-----------------------------------------------------------------------------
(* Interference: what a step of one tab means for a save of another.         *)

\* Nothing the save of tab u depends on has moved.
Undisturbed(u) ==
    /\ UNCHANGED <<pc[u], want[u], index[u], work[u], row[u], target[u],
                   reading[u], base[u]>>
    /\ version # 0 => version' # 0
    /\ Admitted(u) => versionOwner' = versionOwner /\ version' = version
    /\ pc[u] \in Validated => UNCHANGED <<rows, placed, rowsOwner>>

\* What a save relies on survives a step that leaves its locks and its rows alone.
LEMMA UndisturbedKeeps ==
    ASSUME NEW u \in Tab, TabInv(u), Undisturbed(u)
    PROVE  TabInv(u)'
<1>1. LocksHeld(u)'
  BY DEF Undisturbed, TabInv, LocksHeld, Admitted, Validated, TxnStatement
<1>2. SavedRows(u)'
  BY DEF Undisturbed, TabInv, SavedRows, Validated
<1>3. SavedBackground(u)'
  BY DEF Undisturbed, TabInv, SavedBackground, Validated
<1>4. Carried(u)'
  BY DEF Undisturbed, TabInv, Carried
<1> QED
  BY <1>1, <1>2, <1>3, <1>4 DEF TabInv

\* The own state of tab u, which only the steps of tab u write.
Own(u) == <<pc[u], want[u], index[u], work[u], row[u], target[u], reading[u], base[u]>>

\* A step of tab t writes the state of no other request.
LEMMA StepsAreOwn ==
    ASSUME TypeOK, NEW t \in Tab, NEW u \in Tab, u # t,
           \/ Request(t) \/ Outside(t) \/ InTransaction(t)
           \/ StatementFails(t) \/ Watchdog(t) \/ WatchdogRace(t)
    PROVE  UNCHANGED Own(u)
<1> USE DEF TypeOK, Own, Goto, Finish, Reload, Abort, Begin, UpdateRows
<1>1. ASSUME Request(t) PROVE UNCHANGED Own(u)
  BY <1>1 DEF Request, StartLoad, StartSave, StartAdd, StartRemove, asked, txn, client
<1>2. ASSUME Read(t) PROVE UNCHANGED Own(u)
  BY <1>2 DEF Read, LoadVersion, LoadRows, LoadItems, asked, txn, client
<1>3. ASSUME Widget(t) PROVE UNCHANGED Own(u)
  BY <1>3 DEF Widget, LookupKey, FindPosition, InsertWidget, LookupWidget, DeleteWidget,
         WidgetWritten,
              asked, txn, client
<1>4. ASSUME EditLockHeld(t) \/ EditLockRefused(t) \/ CreateVersionRow(t)
      PROVE UNCHANGED Own(u)
  BY <1>4 DEF EditLockHeld, EditLockRefused, CreateVersionRow, asked, txn, client
<1>5. ASSUME Commit(t) \/ CommitFails(t) PROVE UNCHANGED Own(u)
  BY <1>5 DEF Commit, CommitFails, asked, txn, client
<1>6. ASSUME LockWaitTimeout(t) \/ StatementFails(t) PROVE UNCHANGED Own(u)
  BY <1>6 DEF LockWaitTimeout, StatementFails, AutocommitFails, asked, txn, client
<1>7. ASSUME CompareAndSwap(t) \/ SelectRows(t) \/ SelectBackground(t)
      PROVE UNCHANGED Own(u)
  BY <1>7 DEF CompareAndSwap, SelectRows, SelectBackground, asked, txn, client
<1>8. ASSUME MirrorRows(t) \/ UnplaceBackground(t) \/ PlaceBackground(t) \/ PlaceWidget(t)
             \/ UnmirrorRows(t) \/ Rollback(t)
      PROVE UNCHANGED Own(u)
  BY <1>8 DEF MirrorRows, UnplaceBackground, PlaceBackground, PlaceWidget, UnmirrorRows,
              Rollback, asked, txn, client
<1>9. ASSUME Watchdog(t) \/ WatchdogRace(t) PROVE UNCHANGED Own(u)
  BY <1>9 DEF Watchdog, WatchdogRace, asked, txn, client
<1> QED
  BY <1>1, <1>2, <1>3, <1>4, <1>5, <1>6, <1>7, <1>8, <1>9 DEF Outside, InTransaction

\* The steps of tab t that write the store or a lock; all others leave both alone.
LEMMA QuietSteps ==
    ASSUME NEW t \in Tab,
           \/ Request(t) \/ Outside(t) \/ InTransaction(t)
           \/ StatementFails(t) \/ Watchdog(t) \/ WatchdogRace(t)
    PROVE  \/ UNCHANGED <<store, locks>>
           \/ CreateVersionRow(t) \/ CompareAndSwap(t) \/ SelectRows(t)
           \/ Commit(t) \/ CommitFails(t) \/ Rollback(t)
           \/ InsertWidget(t) \/ DeleteWidget(t)
<1>1. Request(t) => UNCHANGED <<store, locks>>
  BY DEF Request, StartLoad, StartSave, StartAdd, StartRemove
<1>2. Read(t) => UNCHANGED <<store, locks>>
  BY DEF Read, LoadVersion, LoadRows, LoadItems
<1>3. EditLockHeld(t) \/ EditLockRefused(t) => UNCHANGED <<store, locks>>
  BY DEF EditLockHeld, EditLockRefused
<1>4. LookupKey(t) \/ FindPosition(t) \/ LookupWidget(t) => UNCHANGED <<store, locks>>
  BY DEF LookupKey, FindPosition, LookupWidget
<1>5. LockWaitTimeout(t) \/ StatementFails(t) => UNCHANGED <<store, locks>>
  BY DEF LockWaitTimeout, StatementFails, AutocommitFails
<1>6. SelectBackground(t) \/ MirrorRows(t) \/ UnplaceBackground(t) \/ PlaceBackground(t)
         \/ PlaceWidget(t) \/ UnmirrorRows(t) => UNCHANGED <<store, locks>>
  BY DEF SelectBackground, MirrorRows, UnplaceBackground, PlaceBackground, PlaceWidget,
         UnmirrorRows, UpdateRows
<1>7. Watchdog(t) \/ WatchdogRace(t) => UNCHANGED <<store, locks>>
  BY DEF Watchdog, WatchdogRace
<1> QED
  BY <1>1, <1>2, <1>3, <1>4, <1>5, <1>6, <1>7 DEF Outside, InTransaction, Widget

\* The two row locks keep the save of tab u undisturbed by every other tab:
\* the version row while it is admitted, the layout rows once it has validated.
LEMMA Interference ==
    ASSUME IInv, NEW t \in Tab, NEW u \in Tab, u # t,
           \/ Request(t) \/ Outside(t) \/ InTransaction(t)
           \/ StatementFails(t) \/ Watchdog(t) \/ WatchdogRace(t)
    PROVE  TabInv(u)'
<1>0. /\ TypeOK /\ TabInv(u) /\ TabInv(t) /\ Nobody \notin Tab
  BY ServiceAssumption DEF IInv
<1>1. UNCHANGED Own(u)
  BY <1>0, StepsAreOwn
<1>2. /\ Admitted(u) => versionOwner = u
      /\ pc[u] \in Validated => Admitted(u) /\ rowsOwner = u
      /\ Admitted(t) => versionOwner = t
      /\ version \in Nat /\ want[t].version \in Nat
  BY <1>0
  DEF TabInv, LocksHeld, Admitted, Validated, TxnStatement, TypeOK, SaveRequest
<1>3. /\ version # 0 => version' # 0
      /\ Admitted(u) => versionOwner' = versionOwner /\ version' = version
      /\ pc[u] \in Validated => UNCHANGED <<rows, placed, rowsOwner>>
  <2>1. CASE UNCHANGED <<store, locks>>
    BY <2>1 DEF store, locks
  <2>2. CASE CreateVersionRow(t)
    BY <1>0, <1>2, <2>2 DEF CreateVersionRow, locks
  <2>3. CASE CompareAndSwap(t)
    BY <1>0, <1>2, <2>3 DEF CompareAndSwap, store
  <2>4. CASE SelectRows(t)
    <3>1. Admitted(t)
      BY <2>4 DEF SelectRows, Admitted, TxnStatement
    <3> QED
      BY <1>2, <2>4, <3>1 DEF SelectRows, store
  <2>5. CASE Commit(t) \/ CommitFails(t)
    <3>1. Admitted(t)
      BY <2>5 DEF Commit, CommitFails, Admitted
    <3>2. ~Admitted(u) /\ pc[u] \notin Validated
      BY <1>2, <3>1
    <3>3. version' = want[t].version + 1 \/ version' = version
      BY <2>5 DEF Commit, CommitFails, CommitApplied
    <3> QED
      BY <1>2, <3>2, <3>3
  <2>6. CASE Rollback(t)
    BY <1>0, <1>2, <2>6 DEF Rollback, ReleaseLocks, store
  <2>7. CASE InsertWidget(t)
    <3>1. RowsFree /\ UNCHANGED <<version, placed, locks>>
      BY <2>7 DEF InsertWidget
    <3> QED
      BY <1>0, <1>2, <3>1 DEF RowsFree, locks
  <2>8. CASE DeleteWidget(t)
    <3>1. /\ RowsFree \/ rows[target[t]] = NoRow
          /\ rows' = [rows EXCEPT ![target[t]] = NoRow]
          /\ UNCHANGED <<version, placed, locks>>
      BY <2>8 DEF DeleteWidget
    <3>2. rows[target[t]] = NoRow => rows' = rows
      BY <1>0, <3>1 DEF TypeOK, Page
    <3> QED
      BY <1>0, <1>2, <3>1, <3>2 DEF RowsFree, locks
  <2> QED
    BY <2>1, <2>2, <2>3, <2>4, <2>5, <2>6, <2>7, <2>8, QuietSteps
<1> QED
  BY <1>0, <1>1, <1>3, UndisturbedKeeps DEF Undisturbed, Own

-----------------------------------------------------------------------------
(* The committed rows.                                                       *)

\* The committed page stays proper: a COMMIT writes a validated page, and an
\* INSERT takes a free slot.
LEMMA RowsStep ==
    ASSUME IInv, NEW t \in Tab,
           \/ Request(t) \/ Outside(t) \/ InTransaction(t)
           \/ StatementFails(t) \/ Watchdog(t) \/ WatchdogRace(t)
    PROVE  Proper(rows')
<1>0. TypeOK /\ Proper(rows) /\ TabInv(t) /\ rows \in Page
  BY DEF IInv, TypeOK
<1>1. CASE UNCHANGED rows
  BY <1>0, <1>1
<1>2. CASE Commit(t) \/ CommitFails(t)
  <2>1. pc[t] = "commit"
    BY <1>2 DEF Commit, CommitFails
  <2>2. /\ work[t].rows = FinalPage(want[t].placements, rows)
        /\ Proper(FinalPage(want[t].placements, rows))
    BY <1>0, <2>1, SavedPageType DEF TabInv, SavedRows, Validated
  <2>3. rows' = work[t].rows \/ rows' = rows
    BY <1>2 DEF Commit, CommitFails, CommitApplied
  <2> QED
    BY <1>0, <2>2, <2>3
<1>3. CASE InsertWidget(t)
  <2>1. CASE UNCHANGED rows
    BY <1>0, <2>1
  <2>2. ASSUME NEW w \in WidgetId \ used, rows' = [rows EXCEPT ![w] = row[t]], ~SlotTaken(t)
        PROVE  Proper(rows')
    <3>1. row[t] \in Row /\ row[t].position >= 0
      <4>1. pc[t] = "add_insert"
        BY <1>3 DEF InsertWidget
      <4> QED
        BY <1>0, <4>1 DEF TabInv, Carried
    <3>2. rows' \in Page
      BY <1>0, <2>2, <3>1 DEF Page
    <3>3. \A v \in OnPage(rows) : Slot(rows[v]) # Slot(row[t])
      BY <2>2 DEF SlotTaken
    <3>4. \A v \in OnPage(rows') : v = w \/ (v \in OnPage(rows) /\ rows'[v] = rows[v])
      BY <1>0, <2>2 DEF OnPage, Page
    <3>5. rows'[w] = row[t]
      BY <1>0, <2>2 DEF Page
    <3>6. SlotsDistinct(rows')
      BY <1>0, <3>3, <3>4, <3>5 DEF Proper, SlotsDistinct
    <3>7. \A v \in OnPage(rows') : rows'[v].position >= 0
      BY <1>0, <3>1, <3>4, <3>5 DEF Proper
    <3> QED
      BY <3>2, <3>6, <3>7 DEF Proper
  <2> QED
    BY <1>3, <2>1, <2>2 DEF InsertWidget
<1>4. CASE DeleteWidget(t)
  <2>1. rows' \in Page /\ \A v \in OnPage(rows') : v \in OnPage(rows) /\ rows'[v] = rows[v]
    BY <1>0, <1>4 DEF DeleteWidget, OnPage, Page
  <2> QED
    BY <1>0, <2>1 DEF Proper, SlotsDistinct
<1>5. CASE CreateVersionRow(t) \/ CompareAndSwap(t) \/ SelectRows(t) \/ Rollback(t)
  BY <1>1, <1>5 DEF CreateVersionRow, CompareAndSwap, SelectRows, Rollback, store
<1>6. CASE UNCHANGED <<store, locks>>
  BY <1>1, <1>6 DEF store
<1> QED
  BY <1>2, <1>3, <1>4, <1>5, <1>6, QuietSteps

-----------------------------------------------------------------------------
(* The steps of a request keep its own part of the invariant.                *)

\* A request that ends, is refused or turns into a load holds nothing.
LEMMA FinishKeeps ==
    ASSUME TypeOK, NEW t \in Tab, NEW a, Finish(t, a), Proper(base'[t].rows)
    PROVE  TabInv(t)'
<1>1. /\ pc'[t] = "idle" /\ index'[t] = 0 /\ row'[t] = NoRow
      /\ reading'[t].rows = EmptyPage
  BY Defaults DEF TypeOK, Finish, Goto
<1>2. Carried(t)'
  BY <1>1, Defaults, NoRowAssumption DEF Carried
<1> QED
  BY <1>1, <1>2
  DEF TabInv, LocksHeld, SavedRows, SavedBackground, Admitted, Validated, TxnStatement

\* A transaction on its way to the rollback relies on nothing.
LEMMA AbortKeeps ==
    ASSUME TypeOK, NEW t \in Tab, NEW e, TabInv(t), Abort(t, e),
           UNCHANGED <<row[t], target[t], reading[t], base[t]>>
    PROVE  TabInv(t)'
<1>1. pc'[t] = "rollback"
  BY DEF TypeOK, Abort, Goto
<1>2. Carried(t)'
  BY <1>1 DEF TabInv, Carried
<1> QED
  BY <1>1, <1>2
  DEF TabInv, LocksHeld, SavedRows, SavedBackground, Admitted, Validated, TxnStatement

\* A save that goes on to load the page for its answer has let its locks go.
LEMMA ReloadKeeps ==
    ASSUME TypeOK, NEW t \in Tab, NEW v, TabInv(t), Reload(t, v),
           UNCHANGED <<row[t], target[t], reading[t], base[t]>>
    PROVE  TabInv(t)'
<1>1. pc'[t] = "load_version" /\ index'[t] = 0
  BY DEF TypeOK, Reload, Goto
<1>2. Carried(t)'
  BY <1>1 DEF TabInv, Carried
<1> QED
  BY <1>1, <1>2
  DEF TabInv, LocksHeld, SavedRows, SavedBackground, Admitted, Validated, TxnStatement

\* A request outside the transaction carries on outside it.
LEMMA OutsideKeeps ==
    ASSUME TypeOK, NEW t \in Tab, TabInv(t),
           NEW where \in {"verify", "load_version", "load_rows", "load_items",
                          "version_row", "add_lookup", "add_position", "add_insert",
                          "rm_lookup", "rm_delete"},
           pc'[t] = where, index'[t] = 0, Carried(t)'
    PROVE  TabInv(t)'
  BY DEF TabInv, LocksHeld, SavedRows, SavedBackground, Admitted, Validated, TxnStatement

\* The statements of loadLayout keep what their tab relies on.
LEMMA ReadKeeps ==
    ASSUME IInv, NEW t \in Tab, Read(t)
    PROVE  TabInv(t)'
<1>0. TypeOK /\ TabInv(t) /\ Proper(rows)
  BY DEF IInv
<1>i. pc[t] \in {"load_version", "load_rows", "load_items"} => index[t] = 0
  BY <1>0 DEF TabInv, SavedRows, Validated
<1>1. CASE LoadVersion(t)
  <2>1. /\ pc'[t] = "load_rows" /\ index'[t] = 0
        /\ reading'[t].rows = reading[t].rows
        /\ UNCHANGED <<row, target, base>>
    BY <1>0, <1>1, <1>i DEF TypeOK, LoadVersion, Goto, Layout, asked, txn
  <2>2. Carried(t)'
    BY <1>0, <2>1 DEF TabInv, Carried
  <2> QED
    BY <1>0, <2>1, <2>2, OutsideKeeps
<1>2. CASE LoadRows(t)
  <2>1. /\ pc'[t] = "load_items" /\ index'[t] = 0
        /\ reading'[t].rows = rows
        /\ UNCHANGED <<row, target, base>>
    BY <1>0, <1>2, <1>i DEF TypeOK, LoadRows, Goto, Layout, asked, txn
  <2>2. Carried(t)'
    BY <1>0, <2>1 DEF TabInv, Carried
  <2> QED
    BY <1>0, <2>1, <2>2, OutsideKeeps
<1>3. CASE LoadItems(t)
  <2>1. base'[t].rows = reading[t].rows
    BY <1>0, <1>3 DEF TypeOK, LoadItems, Loaded, Layout
  <2>2. Proper(base'[t].rows)
    BY <1>0, <2>1 DEF TabInv, Carried
  <2> QED
    BY <1>0, <1>3, <2>2, FinishKeeps DEF LoadItems
<1> QED
  BY <1>1, <1>2, <1>3 DEF Read

\* The start of a request keeps what its tab relies on.
LEMMA RequestKeeps ==
    ASSUME IInv, NEW t \in Tab, Request(t)
    PROVE  TabInv(t)'
<1>0. TypeOK /\ TabInv(t)
  BY DEF IInv
<1>1. ASSUME NEW where \in {"verify", "load_version"}, Begin(t, where),
             UNCHANGED txn, UNCHANGED client,
             row'[t] \in Row => row'[t].position >= 0
      PROVE  TabInv(t)'
  <2>1. pc[t] = "idle" /\ pc'[t] = where
    BY <1>0, <1>1 DEF TypeOK, Begin, Goto
  <2>2. index'[t] = 0
    BY <1>0, <1>1, <2>1 DEF TabInv, SavedRows, Validated, txn
  <2>3. Carried(t)'
    BY <1>0, <1>1, <2>1 DEF TabInv, Carried, client
  <2> QED
    BY <1>0, <2>1, <2>2, <2>3, OutsideKeeps
<1>2. row[t] \in Row => row[t].position >= 0
  BY <1>0 DEF TabInv, Carried
<1>3. CASE StartLoad(t)
  BY <1>1, <1>2, <1>3 DEF StartLoad, asked
<1>4. CASE \E v \in 1..MaxVersion, save \in ClientSaves(t) : StartSave(t, v, save)
  BY <1>1, <1>2, <1>4 DEF StartSave
<1>5. ASSUME NEW key \in WidgetKey, NEW column \in Column, StartAdd(t, key, column)
      PROVE  TabInv(t)'
  <2>1. row'[t].position = 0
    BY <1>0, <1>5 DEF TypeOK, StartAdd
  <2> QED
    BY <1>1, <1>5, <2>1 DEF StartAdd
<1>6. CASE \E w \in WidgetId : StartRemove(t, w)
  BY <1>1, <1>2, <1>6 DEF StartRemove
<1> QED
  BY <1>3, <1>4, <1>5, <1>6 DEF Request

\* The edit lock and the statements outside the transaction keep it.
LEMMA OutsideStepsKeep ==
    ASSUME IInv, NEW t \in Tab,
           EditLockHeld(t) \/ EditLockRefused(t) \/ Widget(t) \/ LockWaitTimeout(t)
    PROVE  TabInv(t)'
<1>0. TypeOK /\ TabInv(t) /\ Proper(base[t].rows)
  BY DEF IInv, TabInv, Carried
<1>i. pc[t] \in {"verify", "add_lookup", "add_position", "rm_lookup"} => index[t] = 0
  BY <1>0 DEF TabInv, SavedRows, Validated
<1>f. ASSUME NEW a, Finish(t, a), UNCHANGED base
      PROVE  TabInv(t)'
  BY <1>0, <1>f, FinishKeeps
<1>1. CASE EditLockHeld(t)
  <2>1. /\ pc'[t] = (IF row[t] # NoRow THEN "add_lookup"
                     ELSE IF target[t] # 0 THEN "rm_lookup" ELSE "version_row")
        /\ index'[t] = 0
        /\ UNCHANGED <<row, target, reading, base>>
    BY <1>0, <1>1, <1>i DEF TypeOK, EditLockHeld, Goto, asked, txn, client
  <2>2. /\ row[t] # NoRow => row[t] \in Row
        /\ target[t] # 0 => target[t] \in WidgetId
    BY <1>0 DEF TypeOK
  <2>3. Carried(t)'
    BY <1>0, <2>1, <2>2 DEF TabInv, Carried
  <2> QED
    BY <1>0, <2>1, <2>3, OutsideKeeps
<1>2. CASE EditLockRefused(t)
  BY <1>f, <1>2 DEF EditLockRefused
<1>3. CASE LookupKey(t)
  <2>1. CASE Finish(t, "conflict")
    BY <1>3, <1>f, <2>1 DEF LookupKey
  <2>2. CASE Goto(t, "add_position") /\ UNCHANGED <<asked, txn, reading, base>>
    <3>1. /\ pc[t] = "add_lookup" /\ pc'[t] = "add_position" /\ index'[t] = 0
          /\ UNCHANGED <<row, target, reading, base>>
      BY <1>0, <1>3, <1>i, <2>2 DEF TypeOK, LookupKey, Goto, asked, txn
    <3>2. Carried(t)'
      BY <1>0, <3>1 DEF TabInv, Carried
    <3> QED
      BY <1>0, <3>1, <3>2, OutsideKeeps
  <2> QED
    BY <1>3, <2>1, <2>2 DEF LookupKey
<1>4. CASE FindPosition(t)
  <2>1. PICK bottom \in {0} \cup {rows[w].position + 1 : w \in InColumn(row[t].column)} :
           row' = [row EXCEPT ![t].position = bottom]
    BY <1>4 DEF FindPosition
  <2>2. \A w \in InColumn(row[t].column) :
            rows[w].position \in Int /\ rows[w].position >= 0
    BY DEF IInv, TypeOK, InColumn, OnPage, Page, Row, Proper
  <2>3. bottom \in Nat
    BY <2>1, <2>2
  <2>4. /\ pc[t] = "add_position" /\ pc'[t] = "add_insert" /\ index'[t] = 0
        /\ UNCHANGED <<target, reading, base>>
    BY <1>0, <1>4, <1>i DEF TypeOK, FindPosition, Goto, txn, client
  <2>5. row[t] \in Row
    BY <1>0, <2>4 DEF TabInv, Carried
  <2>6. row'[t] = [row[t] EXCEPT !.position = bottom]
    BY <1>0, <2>1 DEF TypeOK
  <2>7. row'[t] \in Row /\ row'[t].position >= 0
    BY <2>3, <2>5, <2>6 DEF Row
  <2>8. Carried(t)'
    BY <1>0, <2>4, <2>7 DEF TabInv, Carried
  <2> QED
    BY <1>0, <2>4, <2>8, OutsideKeeps
<1>5. CASE InsertWidget(t)
  BY <1>f, <1>5 DEF InsertWidget, WidgetWritten
<1>6. CASE LookupWidget(t)
  <2>1. CASE Finish(t, "missing") \/ Finish(t, "denied")
    BY <1>6, <1>f, <2>1 DEF LookupWidget
  <2>2. CASE Goto(t, "rm_delete") /\ UNCHANGED <<asked, txn, reading, base>>
    <3>1. /\ pc[t] = "rm_lookup" /\ pc'[t] = "rm_delete" /\ index'[t] = 0
          /\ UNCHANGED <<row, target, reading, base>>
      BY <1>0, <1>6, <1>i, <2>2 DEF TypeOK, LookupWidget, Goto, asked, txn
    <3>2. Carried(t)'
      BY <1>0, <3>1 DEF TabInv, Carried
    <3> QED
      BY <1>0, <3>1, <3>2, OutsideKeeps
  <2> QED
    BY <1>6, <2>1, <2>2 DEF LookupWidget
<1>7. CASE DeleteWidget(t)
  BY <1>f, <1>7 DEF DeleteWidget, WidgetWritten
<1>8. CASE LockWaitTimeout(t)
  <2>1. CASE AutocommitFails(t)
    BY <1>f, <2>1 DEF AutocommitFails
  <2>2. CASE Abort(t, "conflict") /\ UNCHANGED <<asked, client>>
    BY <1>0, <2>2, AbortKeeps DEF asked, client
  <2> QED
    BY <1>8, <2>1, <2>2 DEF LockWaitTimeout
<1> QED
  BY <1>1, <1>2, <1>3, <1>4, <1>5, <1>6, <1>7, <1>8 DEF Widget

\* Failing statements, lock waits and the timer keep it.
LEMMA MishapKeeps ==
    ASSUME IInv, NEW t \in Tab, StatementFails(t) \/ Watchdog(t) \/ WatchdogRace(t)
    PROVE  TabInv(t)'
<1>0. TypeOK /\ TabInv(t) /\ Proper(base[t].rows)
  BY DEF IInv, TabInv, Carried
<1>1. CASE StatementFails(t)
  <2>1. CASE AutocommitFails(t)
    BY <1>0, <2>1, FinishKeeps DEF AutocommitFails
  <2>2. CASE \E e \in {"unavailable", "conflict"} : Abort(t, e) /\ UNCHANGED <<asked, client>>
    BY <1>0, <2>2, AbortKeeps DEF asked, client
  <2> QED
    BY <1>1, <2>1, <2>2 DEF StatementFails
<1>2. CASE Watchdog(t)
  <2>1. pc'[t] \in {"rollback", "stranded"} /\ UNCHANGED <<row, target, reading, base>>
    BY <1>0, <1>2 DEF TypeOK, Watchdog, Goto, asked, client
  <2>2. Carried(t)'
    BY <1>0, <2>1 DEF TabInv, Carried
  <2> QED
    BY <2>1, <2>2
    DEF TabInv, LocksHeld, SavedRows, SavedBackground, Admitted, Validated, TxnStatement
<1>3. CASE WatchdogRace(t)
  BY <1>0, <1>3
  DEF WatchdogRace, TabInv, LocksHeld, SavedRows, SavedBackground, Carried, Admitted,
      store, locks, asked, txn, client
<1> QED
  BY <1>1, <1>2, <1>3

\* A statement on the layout rows that the index accepts.
LEMMA UpdateAccepted ==
    ASSUME TypeOK, NEW t \in Tab, NEW page, NEW next, UpdateRows(t, page, next),
           ~Clash(work[t].rows, page)
    PROVE  /\ pc'[t] = next
           /\ work'[t].rows = page /\ work'[t].placed = work[t].placed
           /\ UNCHANGED <<store, locks, asked, client>>
  BY DEF TypeOK, UpdateRows, Goto, View

\* A validated save that moves on to another statement keeps its locks and what
\* it carries.
LEMMA StaysValidated ==
    ASSUME NEW t \in Tab, TabInv(t), pc[t] \in Validated, pc'[t] \in Validated,
           UNCHANGED <<store, locks, asked, client>>
    PROVE  LocksHeld(t)' /\ Carried(t)'
<1>1. LocksHeld(t)'
  BY DEF TabInv, LocksHeld, Admitted, Validated, TxnStatement, store, locks, asked
<1>2. Carried(t)'
  BY DEF TabInv, Carried, Validated, asked, client
<1> QED
  BY <1>1, <1>2

\* Each statement of a validated save brings its view one stage further.
LEMMA StatementsKeep ==
    ASSUME IInv, NEW t \in Tab,
           \/ SelectBackground(t) \/ MirrorRows(t) \/ UnplaceBackground(t)
           \/ PlaceBackground(t) \/ PlaceWidget(t) \/ UnmirrorRows(t)
    PROVE  TabInv(t)'
<1> DEFINE requested == want[t].placements
<1>0. TypeOK /\ TabInv(t) /\ Proper(rows)
  BY DEF IInv
<1>1. pc[t] \in Validated
  BY DEF SelectBackground, MirrorRows, UnplaceBackground, PlaceBackground, PlaceWidget,
         UnmirrorRows, Validated
<1>2. /\ Accepted(requested, rows) /\ requested \in Seq(Placement)
      /\ Len(requested) \in Nat /\ want[t].background \in Item
  BY <1>0, <1>1, SavedPageType DEF TypeOK, SaveRequest
<1>3. ASSUME pc'[t] \in Validated, UNCHANGED <<store, locks, asked, client>>,
             SavedRows(t)', SavedBackground(t)'
      PROVE  TabInv(t)'
  BY <1>0, <1>1, <1>3, StaysValidated DEF TabInv
<1>4. CASE SelectBackground(t)
  <2>1. CASE Abort(t, "missing") \/ Abort(t, "denied")
    BY <1>0, <1>4, <2>1, AbortKeeps DEF SelectBackground, asked, client
  <2>2. CASE /\ Goto(t, "mirror")
             /\ want[t].background \notin {MissingItem, ForeignItem}
    <3>1. /\ pc[t] = "bg_select" /\ pc'[t] = "mirror"
          /\ UNCHANGED <<store, locks, asked, txn, client>>
      BY <1>0, <1>4, <2>2 DEF TypeOK, SelectBackground, Goto
    <3>2. want[t].background \in Background \cup {NoBackground}
      BY <1>2, <2>2 DEF Item
    <3>3. SavedRows(t)'
      BY <1>0, <3>1 DEF TabInv, SavedRows, Validated, store, asked, txn
    <3>4. SavedBackground(t)'
      BY <1>0, <3>1, <3>2 DEF TabInv, SavedBackground, Validated, store, asked, txn
    <3> QED
      BY <1>3, <3>1, <3>3, <3>4 DEF Validated
  <2> QED
    BY <1>4, <2>1, <2>2 DEF SelectBackground
<1>5. CASE MirrorRows(t)
  <2>1. /\ pc[t] = "mirror" /\ work[t].rows = rows /\ index[t] = 0
        /\ work[t].placed = placed
        /\ want[t].background \in Background \cup {NoBackground}
        /\ index' = index
    BY <1>0, <1>5 DEF MirrorRows, TabInv, SavedRows, SavedBackground, Validated
  <2>2. /\ Mirror(rows) = Written(requested, rows, 0)
        /\ ~Clash(work[t].rows, Mirror(work[t].rows))
    BY <1>0, <1>2, <2>1, MirrorIsClean
  <2>3. /\ pc'[t] = (IF want[t].background = NoBackground THEN NextPlacement(t, 0)
                     ELSE "bg_unplace")
        /\ work'[t].rows = Mirror(rows) /\ work'[t].placed = placed
        /\ UNCHANGED <<store, locks, asked, client>>
    BY <1>0, <1>5, <2>1, <2>2, UpdateAccepted DEF MirrorRows
  <2>4. NextPlacement(t, 0) = IF 0 < Len(requested) THEN "place" ELSE "unmirror"
    BY DEF NextPlacement
  <2>5. SavedRows(t)'
    BY <1>2, <2>1, <2>2, <2>3, <2>4 DEF SavedRows, Validated, store, asked
  <2>6. SavedBackground(t)'
    BY <2>1, <2>3, <2>4 DEF SavedBackground, Validated, store, asked
  <2> QED
    BY <1>3, <2>3, <2>4, <2>5, <2>6 DEF Validated
<1>6. CASE UnplaceBackground(t)
  <2>1. /\ pc[t] = "bg_unplace" /\ pc'[t] = "bg_place"
        /\ work'[t].rows = work[t].rows /\ work'[t].placed = {}
        /\ UNCHANGED <<store, locks, asked, index, client>>
    BY <1>0, <1>6 DEF TypeOK, UnplaceBackground, Goto, View
  <2>2. SavedRows(t)'
    BY <1>0, <2>1 DEF TabInv, SavedRows, Validated, store, asked
  <2>3. SavedBackground(t)'
    BY <1>0, <2>1 DEF TabInv, SavedBackground, Validated, store, asked
  <2> QED
    BY <1>3, <2>1, <2>2, <2>3 DEF Validated
<1>7. CASE PlaceBackground(t)
  <2>1. /\ pc[t] = "bg_place" /\ work[t].placed = {}
        /\ want[t].background \in Background /\ want[t].background # NoBackground
        /\ work[t].rows = Mirror(rows) /\ index[t] = 0
    BY <1>0, <1>7
    DEF PlaceBackground, TabInv, SavedRows, SavedBackground, Validated
  <2>2. /\ pc'[t] = NextPlacement(t, 0)
        /\ work'[t].rows = work[t].rows /\ work'[t].placed = {want[t].background}
        /\ UNCHANGED <<store, locks, asked, index, client>>
    BY <1>0, <1>7, <2>1 DEF TypeOK, PlaceBackground, Goto, View
  <2>3. NextPlacement(t, 0) = IF 0 < Len(requested) THEN "place" ELSE "unmirror"
    BY DEF NextPlacement
  <2>4. Mirror(rows) = Written(requested, rows, 0)
    BY <1>0, <1>2, MirrorIsClean
  <2>5. SavedRows(t)'
    BY <1>2, <2>1, <2>2, <2>3, <2>4 DEF SavedRows, Validated, store, asked
  <2>6. SavedBackground(t)'
    BY <2>1, <2>2, <2>3 DEF SavedBackground, Validated, store, asked
  <2> QED
    BY <1>3, <2>2, <2>3, <2>5, <2>6 DEF Validated
<1>8. CASE PlaceWidget(t)
  <2>1. /\ pc[t] = "place" /\ index[t] < Len(requested) /\ index[t] \in Nat
        /\ work[t].rows = Written(requested, rows, index[t])
        /\ want[t].background \in Background \cup {NoBackground}
        /\ work[t].placed = IF want[t].background = NoBackground THEN placed
                            ELSE {want[t].background}
    BY <1>0, <1>8
    DEF PlaceWidget, TypeOK, TabInv, SavedRows, SavedBackground, Validated
  <2>2. /\ Place(work[t].rows, requested[index[t] + 1])
              = Written(requested, rows, index[t] + 1)
        /\ ~Clash(work[t].rows, Place(work[t].rows, requested[index[t] + 1]))
    <3>1. index[t] \in 0..Len(requested)
      BY <1>2, <2>1
    <3> QED
      BY <1>0, <1>2, <2>1, <3>1, PlaceIsClean
  <2>3. /\ pc'[t] = NextPlacement(t, index[t] + 1)
        /\ work'[t].rows = Written(requested, rows, index[t] + 1)
        /\ work'[t].placed = work[t].placed
        /\ UNCHANGED <<store, locks, asked, client>>
    BY <1>0, <1>8, <2>2, UpdateAccepted DEF PlaceWidget
  <2>4. index'[t] = index[t] + 1
    BY <1>0, <1>8 DEF TypeOK, PlaceWidget
  <2>5. NextPlacement(t, index[t] + 1)
           = IF index[t] + 1 < Len(requested) THEN "place" ELSE "unmirror"
    BY DEF NextPlacement
  <2>6. SavedRows(t)'
    <3>1. CASE index[t] + 1 < Len(requested)
      BY <3>1, <2>3, <2>4, <2>5 DEF SavedRows, Validated, store, asked
    <3>2. CASE ~(index[t] + 1 < Len(requested))
      <4>1. index[t] + 1 = Len(requested)
        BY <3>2, <1>2, <2>1
      <4> QED
        BY <3>2, <4>1, <2>3, <2>4, <2>5 DEF SavedRows, Validated, store, asked
    <3> QED
      BY <3>1, <3>2
  <2>7. SavedBackground(t)'
    BY <2>1, <2>3, <2>5 DEF SavedBackground, Validated, store, asked
  <2> QED
    BY <1>3, <2>3, <2>5, <2>6, <2>7 DEF Validated
<1>9. CASE UnmirrorRows(t)
  <2>1. /\ pc[t] = "unmirror"
        /\ work[t].rows = Written(requested, rows, Len(requested))
        /\ want[t].background \in Background \cup {NoBackground}
        /\ work[t].placed = IF want[t].background = NoBackground THEN placed
                            ELSE {want[t].background}
    BY <1>0, <1>9 DEF UnmirrorRows, TabInv, SavedRows, SavedBackground, Validated
  <2>2. /\ Unmirror(work[t].rows) = FinalPage(requested, rows)
        /\ ~Clash(work[t].rows, Unmirror(work[t].rows))
    BY <1>0, <1>2, <2>1, UnmirrorIsClean
  <2>3. /\ pc'[t] = "commit"
        /\ work'[t].rows = FinalPage(requested, rows)
        /\ work'[t].placed = work[t].placed
        /\ UNCHANGED <<store, locks, asked, client>>
    BY <1>0, <1>9, <2>2, UpdateAccepted DEF UnmirrorRows
  <2>4. SavedRows(t)'
    BY <2>3 DEF SavedRows, Validated, store, asked
  <2>5. SavedBackground(t)'
    BY <2>1, <2>3 DEF SavedBackground, Validated, store, asked
  <2> QED
    BY <1>3, <2>3, <2>4, <2>5 DEF Validated
<1> QED
  BY <1>4, <1>5, <1>6, <1>7, <1>8, <1>9

\* The way into the transaction: version row, compare-and-swap, SELECT FOR UPDATE.
LEMMA AdmissionKeeps ==
    ASSUME IInv, NEW t \in Tab, CreateVersionRow(t) \/ CompareAndSwap(t) \/ SelectRows(t)
    PROVE  TabInv(t)'
<1>0. TypeOK /\ TabInv(t) /\ Proper(rows)
  BY DEF IInv
<1>1. CASE CreateVersionRow(t)
  <2>1. /\ pc[t] = "version_row" /\ pc'[t] = "cas" /\ version' # 0
        /\ UNCHANGED <<index, row, target, reading, base>>
    BY <1>0, <1>1 DEF TypeOK, CreateVersionRow, Goto, asked, txn, client
  <2>2. Carried(t)'
    BY <1>0, <2>1 DEF TabInv, Carried
  <2> QED
    BY <1>0, <2>1, <2>2
    DEF TabInv, LocksHeld, SavedRows, SavedBackground, Admitted, Validated, TxnStatement
<1>2. CASE CompareAndSwap(t)
  <2>1. CASE Abort(t, "conflict")
    BY <1>0, <1>2, <2>1, AbortKeeps DEF CompareAndSwap, asked, client
  <2>2. CASE VersionMatches(t) /\ Goto(t, "select")
    <3>1. /\ pc[t] = "cas" /\ pc'[t] = "select" /\ versionOwner' = t
          /\ want[t].version = version
          /\ UNCHANGED <<version, want, index, row, target, reading, base>>
      BY <1>0, <1>2, <2>2
      DEF TypeOK, CompareAndSwap, VersionMatches, Goto, store, asked, txn, client
    <3>2. Carried(t)'
      BY <1>0, <3>1 DEF TabInv, Carried
    <3> QED
      BY <1>0, <3>1, <3>2
      DEF TabInv, LocksHeld, SavedRows, SavedBackground, Admitted, Validated, TxnStatement
  <2> QED
    BY <1>2, <2>1, <2>2 DEF CompareAndSwap
<1>3. CASE SelectRows(t)
  <2>1. CASE ValidatePlacements(want[t].placements, rows) # "none"
    <3>1. /\ Abort(t, ValidatePlacements(want[t].placements, rows))
          /\ UNCHANGED <<asked, client>>
      BY <1>3, <2>1 DEF SelectRows
    <3> QED
      BY <1>0, <3>1, AbortKeeps DEF asked, client
  <2>2. CASE ValidatePlacements(want[t].placements, rows) = "none"
    <3>1. /\ pc[t] = "select"
          /\ pc'[t] = (IF want[t].background = NoBackground THEN "mirror" ELSE "bg_select")
          /\ rowsOwner' = t
          /\ work'[t].rows = rows /\ work'[t].placed = placed
          /\ UNCHANGED <<store, versionOwner, want, row, target, index, reading, base>>
      BY <1>0, <1>3, <2>2 DEF TypeOK, SelectRows, Goto, asked, client
    <3>2. Accepted(want[t].placements, rows)
      BY <1>0, <2>2, ValidationAccepts DEF TypeOK, SaveRequest
    <3>3. LocksHeld(t)'
      BY <1>0, <3>1, <3>2 DEF TabInv, LocksHeld, Admitted, Validated, TxnStatement, store
    <3>4. SavedRows(t)'
      BY <1>0, <3>1 DEF TabInv, SavedRows, Validated, store
    <3>5. SavedBackground(t)'
      BY <1>0, <3>1 DEF SavedBackground, Validated, store
    <3>6. Carried(t)'
      BY <1>0, <3>1 DEF TabInv, Carried
    <3> QED
      BY <3>3, <3>4, <3>5, <3>6 DEF TabInv
  <2> QED
    BY <2>1, <2>2
<1> QED
  BY <1>1, <1>2, <1>3

\* The way out: COMMIT or ROLLBACK.
LEMMA EndingKeeps ==
    ASSUME IInv, NEW t \in Tab, Commit(t) \/ CommitFails(t) \/ Rollback(t)
    PROVE  TabInv(t)'
<1>0. TypeOK /\ TabInv(t) /\ Proper(base[t].rows) /\ UNCHANGED base
  BY DEF IInv, TabInv, Carried, Commit, CommitFails, Rollback
<1>1. CASE \E a \in Answers : Finish(t, a)
  BY <1>0, <1>1, FinishKeeps
<1>2. CASE \E v \in Answers : Reload(t, v) /\ UNCHANGED <<row, target, reading>>
  BY <1>0, <1>2, ReloadKeeps
<1>3. verdict[t] \in Answers /\ {"ok", "none", "conflict", "unavailable"} \subseteq Answers
  BY <1>0 DEF TypeOK, Answers
<1> QED
  BY <1>1, <1>2, <1>3 DEF Commit, CommitFails, Rollback

-----------------------------------------------------------------------------
(* The invariant, and the theorems it gives.                                 *)

\* The invariant holds before the first request.
LEMMA IInvInit ==
    ASSUME Init
    PROVE  IInv
<1>1. rows \in Page /\ Proper(rows)
  BY ServiceAssumption, LayoutAssumption DEF Init, Proper
<1>2. TypeOK
  <2>1. "idle" \in PcValues /\ "none" \in Answers
    BY DEF PcValues, Answers
  <2>2. OnPage(rows) \subseteq WidgetId
    BY DEF OnPage
  <2> QED
    BY <1>1, <2>1, <2>2, Defaults DEF Init, TypeOK
<1>3. ASSUME NEW t \in Tab PROVE TabInv(t)
  <2>1. /\ pc[t] = "idle" /\ index[t] = 0 /\ row[t] = NoRow
        /\ reading[t].rows = EmptyPage /\ base[t].rows = EmptyPage
    BY Defaults DEF Init
  <2>2. Carried(t)
    BY <2>1, Defaults, NoRowAssumption DEF Carried
  <2> QED
    BY <2>1, <2>2
    DEF TabInv, LocksHeld, SavedRows, SavedBackground, Admitted, Validated, TxnStatement
<1> QED
  BY <1>1, <1>2, <1>3 DEF IInv

\* Every step keeps the invariant.
LEMMA IInvStep ==
    ASSUME IInv, [Next]_vars
    PROVE  IInv'
<1>1. TypeOK'
  BY TypeStep
<1>2. CASE UNCHANGED vars
  <2>0. UNCHANGED <<rows, version, placed, versionOwner, rowsOwner, pc, want, row, target,
                    index, work, reading, base>>
    BY <1>2 DEF vars, store, locks, asked, txn, client
  <2>1. ASSUME NEW t \in Tab PROVE TabInv(t)'
    <3>0. TabInv(t)
      BY DEF IInv
    <3>1. LocksHeld(t)'
      BY <2>0, <3>0 DEF TabInv, LocksHeld, Admitted
    <3>2. SavedRows(t)'
      BY <2>0, <3>0 DEF TabInv, SavedRows
    <3>3. SavedBackground(t)'
      BY <2>0, <3>0 DEF TabInv, SavedBackground
    <3>4. Carried(t)'
      BY <2>0, <3>0 DEF TabInv, Carried
    <3> QED
      BY <3>1, <3>2, <3>3, <3>4 DEF TabInv
  <2> QED
    BY <1>1, <2>0, <2>1 DEF IInv
<1>3. ASSUME NEW t \in Tab,
             \/ Request(t) \/ Outside(t) \/ InTransaction(t)
             \/ StatementFails(t) \/ Watchdog(t) \/ WatchdogRace(t)
      PROVE  IInv'
  <2>1. Proper(rows')
    BY <1>3, RowsStep
  <2>2. TabInv(t)'
    BY <1>3, ReadKeeps, RequestKeeps, OutsideStepsKeep, MishapKeeps, StatementsKeep,
       AdmissionKeeps, EndingKeeps DEF Outside, InTransaction
  <2>3. ASSUME NEW u \in Tab, u # t PROVE TabInv(u)'
    BY <1>3, <2>3, Interference
  <2> QED
    BY <1>1, <2>1, <2>2, <2>3 DEF IInv
<1> QED
  BY <1>2, <1>3 DEF Next

\* The inductive invariant: while a save holds its locks, the page it was
\* validated on is the page, and its view is how far its statements have come.
THEOREM Invariance == Spec => []IInv
<1>1. Init => IInv
  BY IInvInit
<1>2. IInv /\ [Next]_vars => IInv'
  BY IInvStep
<1> QED
  BY <1>1, <1>2, PTL DEF Spec

\* Every variable keeps its type: TypeOK of HomesService, for every instance.
THEOREM TypeCorrect == Spec => []TypeOK
<1>1. IInv => TypeOK
  BY DEF IInv
<1> QED
  BY <1>1, Invariance, PTL

\* No reader of the page ever meets two widgets in one slot, or one of the
\* negative positions saveLayout uses between its statements.
THEOREM PageStaysWellFormed == Spec => []PageWellFormed
<1>1. IInv => PageWellFormed
  BY DEF IInv, Proper, PageWellFormed
<1> QED
  BY <1>1, Invariance, PTL

\* However many widgets a save moves and in whatever order it names them, the
\* UNIQUE index refuses none of the statements of a validated save.
THEOREM SavesNeverClash == Spec => []SaveNeverClashes
<1>1. ASSUME IInv, NEW t \in Tab
      PROVE  /\ pc[t] = "mirror" => ~Clash(work[t].rows, Mirror(work[t].rows))
             /\ pc[t] = "place" =>
                   ~Clash(work[t].rows,
                          Place(work[t].rows, want[t].placements[index[t] + 1]))
             /\ pc[t] = "unmirror" => ~Clash(work[t].rows, Unmirror(work[t].rows))
  <2>0. Proper(rows) /\ TabInv(t) /\ TypeOK
    BY <1>1 DEF IInv
  <2>1. CASE pc[t] = "mirror"
    <3>1. work[t].rows = rows /\ Accepted(want[t].placements, rows)
      BY <2>0, <2>1 DEF TabInv, LocksHeld, SavedRows, Validated
    <3> QED
      BY <2>0, <2>1, <3>1, MirrorIsClean
  <2>2. CASE pc[t] = "place"
    <3>1. /\ index[t] \in Nat /\ index[t] < Len(want[t].placements)
          /\ work[t].rows = Written(want[t].placements, rows, index[t])
          /\ Accepted(want[t].placements, rows)
      BY <2>0, <2>2 DEF TypeOK, TabInv, LocksHeld, SavedRows, Validated
    <3>2. index[t] \in 0..Len(want[t].placements)
      BY <3>1 DEF Accepted
    <3>3. /\ Place(work[t].rows, want[t].placements[index[t] + 1])
                = Written(want[t].placements, rows, index[t] + 1)
          /\ ~Clash(work[t].rows, Written(want[t].placements, rows, index[t] + 1))
      BY <2>0, <3>1, <3>2, PlaceIsClean
    <3> QED
      BY <2>2, <3>3
  <2>3. CASE pc[t] = "unmirror"
    <3>1. /\ work[t].rows = Written(want[t].placements, rows, Len(want[t].placements))
          /\ Accepted(want[t].placements, rows)
      BY <2>0, <2>3 DEF TabInv, LocksHeld, SavedRows, Validated
    <3> QED
      BY <2>0, <2>3, <3>1, UnmirrorIsClean
  <2> QED
    BY <2>1, <2>2, <2>3
<1>2. IInv => SaveNeverClashes
  BY <1>1 DEF SaveNeverClashes
<1> QED
  BY <1>2, Invariance, PTL

\* Only COMMIT marks the request of a save applied.
LEMMA OnlyCommitApplies ==
    ASSUME TypeOK, NEW t \in Tab, NEW u \in Tab,
           \/ Request(t) \/ Outside(t) \/ InTransaction(t)
           \/ StatementFails(t) \/ Watchdog(t) \/ WatchdogRace(t),
           pc[u] = "commit", applied'[u], ~applied[u]
    PROVE  u = t /\ CommitApplied(u)
<1>1. Request(t) => \A v \in Tab : applied'[v] => applied[v]
  BY DEF TypeOK, Request, StartLoad, StartSave, StartAdd, StartRemove, Begin
<1>2. Read(t) \/ EditLockHeld(t) \/ EditLockRefused(t) \/ CreateVersionRow(t)
         => UNCHANGED applied
  BY DEF Read, LoadVersion, LoadRows, LoadItems, EditLockHeld, EditLockRefused,
         CreateVersionRow, outcome
<1>3. LookupKey(t) \/ FindPosition(t) \/ LookupWidget(t) => UNCHANGED applied
  BY DEF LookupKey, FindPosition, LookupWidget, outcome
<1>4. InsertWidget(t) \/ DeleteWidget(t) =>
         /\ pc[t] # "commit"
         /\ \A v \in Tab \ {t} : applied'[v] = applied[v]
  BY DEF TypeOK, InsertWidget, DeleteWidget
<1>5. LockWaitTimeout(t) \/ StatementFails(t) \/ Watchdog(t) \/ WatchdogRace(t)
         => UNCHANGED applied
  BY DEF LockWaitTimeout, StatementFails, AutocommitFails, Abort, Watchdog, WatchdogRace
<1>6. InTransaction(t) => UNCHANGED applied
  BY DEF InTransaction, CompareAndSwap, SelectRows, SelectBackground, MirrorRows,
         UnplaceBackground, PlaceBackground, PlaceWidget, UnmirrorRows, UpdateRows, Abort,
         Rollback, outcome
<1>7. Commit(t) \/ CommitFails(t) =>
         CommitApplied(t) \/ UNCHANGED applied
  BY DEF Commit, CommitFails
<1>8. CommitApplied(t) => \A v \in Tab \ {t} : applied'[v] = applied[v]
  BY DEF TypeOK, CommitApplied
<1> QED
  BY <1>1, <1>2, <1>3, <1>4, <1>5, <1>6, <1>7, <1>8 DEF Outside, Widget

\* A save that commits does so on the version its client named and leaves the
\* page and the background it asked for, untouched by any interleaving.
THEOREM SavesDoWhatTheyWereAsked == Spec => SavedAsAsked
<1> DEFINE Saved(t) ==
        pc[t] = "commit" /\ applied'[t] /\ ~applied[t] =>
              /\ want[t].version = version
              /\ version' = version + 1
              /\ rows' = FinalPage(want[t].placements, rows)
              /\ placed' = IF want[t].background = NoBackground THEN placed
                           ELSE {want[t].background}
<1>1. ASSUME IInv, [Next]_vars, NEW t \in Tab
      PROVE  Saved(t)
  <2> SUFFICES ASSUME pc[t] = "commit", applied'[t], ~applied[t]
               PROVE  /\ want[t].version = version
                      /\ version' = version + 1
                      /\ rows' = FinalPage(want[t].placements, rows)
                      /\ placed' = IF want[t].background = NoBackground THEN placed
                                   ELSE {want[t].background}
    OBVIOUS
  <2>0. TypeOK /\ TabInv(t)
    BY <1>1 DEF IInv
  <2>1. CommitApplied(t)
    <3>1. ~UNCHANGED vars
      BY DEF vars, outcome
    <3>2. PICK u \in Tab :
             \/ Request(u) \/ Outside(u) \/ InTransaction(u)
             \/ StatementFails(u) \/ Watchdog(u) \/ WatchdogRace(u)
      BY <1>1, <3>1 DEF Next
    <3> QED
      BY <2>0, <3>2, OnlyCommitApplies
  <2>2. /\ want[t].version = version
        /\ work[t].rows = FinalPage(want[t].placements, rows)
        /\ work[t].placed = IF want[t].background = NoBackground THEN placed
                            ELSE {want[t].background}
    BY <2>0 DEF TabInv, LocksHeld, SavedRows, SavedBackground, Admitted, Validated
  <2> QED
    BY <2>1, <2>2 DEF CommitApplied
<1>2. IInv /\ [Next]_vars => [\A t \in Tab : Saved(t)]_vars
  BY <1>1
<1> QED
  BY <1>2, Invariance, PTL DEF Spec, SavedAsAsked

-----------------------------------------------------------------------------
(* What a step does to the committed data, whoever takes it.                 *)

StepOf(t) ==
    \/ Request(t) \/ Outside(t) \/ InTransaction(t)
    \/ StatementFails(t) \/ Watchdog(t) \/ WatchdogRace(t)

StoreCreated == version = 0 /\ version' = 1 /\ UNCHANGED <<rows, used, placed>>

\* COMMIT: widgets move, the background may change, the version goes up.
StoreSaved ==
    /\ version # 0 /\ version' = version + 1
    /\ UNCHANGED used
    /\ Proper(rows')
    /\ \A w \in WidgetId : Abstract!Rearranged(rows[w], rows'[w])
    /\ placed' = placed \/ \E item \in Background : placed' = {item}

StoreAdded ==
    \E w \in WidgetId \ used :
        /\ rows'[w] \in Row /\ rows'[w].position >= 0
        /\ \A v \in OnPage(rows) : Slot(rows[v]) # Slot(rows'[w])
        /\ rows' = [rows EXCEPT ![w] = rows'[w]]
        /\ used' = used \cup {w}
        /\ UNCHANGED <<version, placed>>

StoreRemoved(t) ==
    /\ pc[t] = "rm_delete"
    /\ rows' = [rows EXCEPT ![target[t]] = NoRow]
    /\ UNCHANGED <<used, version, placed>>

\* What a COMMIT writes.
LEMMA CommitSaves ==
    ASSUME IInv, NEW t \in Tab, pc[t] = "commit", CommitApplied(t), UNCHANGED used
    PROVE  StoreSaved
<1> DEFINE requested == want[t].placements
<1>0. TypeOK /\ Proper(rows) /\ TabInv(t)
  BY DEF IInv
<1>1. /\ version # 0 /\ want[t].version = version
      /\ work[t].rows = FinalPage(requested, rows)
      /\ work[t].placed = IF want[t].background = NoBackground THEN placed
                          ELSE {want[t].background}
      /\ want[t].background \in Background \cup {NoBackground}
      /\ Accepted(requested, rows)
  BY <1>0 DEF TabInv, LocksHeld, SavedRows, SavedBackground, Admitted, Validated
<1>2. /\ FinalPage(requested, rows) \in Page
      /\ Proper(FinalPage(requested, rows))
      /\ \A w \in WidgetId :
            /\ FinalPage(requested, rows)[w] = NoRow <=> rows[w] = NoRow
            /\ ~(\E i \in 1..Len(requested) : requested[i].id = w)
                  => FinalPage(requested, rows)[w] = rows[w]
      /\ \A i \in 1..Len(requested) :
            LET w == requested[i].id IN
            /\ FinalPage(requested, rows)[w].key = rows[w].key
            /\ FinalPage(requested, rows)[w].column = requested[i].column
            /\ FinalPage(requested, rows)[w].position = requested[i].position
  BY <1>0, <1>1, FinalPageRows
<1>3. rows' = FinalPage(requested, rows)
  BY <1>1 DEF CommitApplied
<1>4. ASSUME NEW w \in WidgetId
      PROVE  Abstract!Rearranged(rows[w], rows'[w])
  <2>1. CASE ~(\E i \in 1..Len(requested) : requested[i].id = w)
    BY <1>2, <1>3, <2>1 DEF Abstract!Rearranged
  <2>2. ASSUME NEW i \in 1..Len(requested), requested[i].id = w
        PROVE  Abstract!Rearranged(rows[w], rows'[w])
    <3>1. /\ w \in OnPage(rows) /\ requested[i].column \in Column
          /\ requested[i].position \in 0..MaxPosition
      BY <1>1, <2>2 DEF Accepted
    <3>2. rows[w] # NoRow /\ rows'[w] # NoRow
      BY <1>2, <1>3, <3>1 DEF OnPage
    <3>3. /\ rows'[w].key = rows[w].key
          /\ rows'[w].column = requested[i].column
          /\ rows'[w].position = requested[i].position
      BY <1>2, <1>3, <2>2
    <3> QED
      BY <3>1, <3>2, <3>3 DEF Abstract!Rearranged, Abstract!Column, Column
  <2> QED
    BY <2>1, <2>2
<1>5. version' = version + 1 /\ placed' = work[t].placed
  BY <1>1 DEF CommitApplied
<1> QED
  BY <1>1, <1>2, <1>3, <1>4, <1>5 DEF StoreSaved

\* The steps that write the committed data, and what each may do to it.
LEMMA StoreSteps ==
    ASSUME IInv, NEW t \in Tab, StepOf(t)
    PROVE  \/ UNCHANGED store \/ StoreCreated
           \/ StoreSaved \/ StoreAdded \/ StoreRemoved(t)
<1>0. TypeOK /\ TabInv(t)
  BY DEF IInv
<1>1. CASE UNCHANGED <<store, locks>>
  BY <1>1
<1>2. CASE CreateVersionRow(t)
  BY <1>2 DEF CreateVersionRow, StoreCreated, store
<1>3. CASE CompareAndSwap(t) \/ SelectRows(t) \/ Rollback(t)
  BY <1>3 DEF CompareAndSwap, SelectRows, Rollback
<1>4. CASE Commit(t) \/ CommitFails(t)
  <2>1. /\ pc[t] = "commit" /\ UNCHANGED used
        /\ CommitApplied(t) \/ UNCHANGED <<rows, version, placed>>
    BY <1>4 DEF Commit, CommitFails
  <2> QED
    BY <2>1, CommitSaves DEF store
<1>5. CASE InsertWidget(t)
  <2>1. CASE UNCHANGED <<rows, used>>
    BY <1>5, <2>1 DEF InsertWidget, store
  <2>2. ASSUME NEW w \in WidgetId \ used, rows' = [rows EXCEPT ![w] = row[t]],
               used' = used \cup {w}, ~SlotTaken(t)
        PROVE  StoreAdded
    <3>1. row[t] \in Row /\ row[t].position >= 0
      <4>1. pc[t] = "add_insert"
        BY <1>5 DEF InsertWidget
      <4> QED
        BY <1>0, <4>1 DEF TabInv, Carried
    <3>2. rows'[w] = row[t]
      BY <1>0, <2>2 DEF TypeOK, Page
    <3>3. UNCHANGED <<version, placed>>
      BY <1>5 DEF InsertWidget
    <3> QED
      BY <2>2, <3>1, <3>2, <3>3 DEF StoreAdded, SlotTaken
  <2> QED
    BY <1>5, <2>1, <2>2 DEF InsertWidget
<1>6. CASE DeleteWidget(t)
  BY <1>6 DEF DeleteWidget, StoreRemoved
<1> QED
  BY <1>1, <1>2, <1>3, <1>4, <1>5, <1>6, QuietSteps DEF StepOf

\* Only loadLayout writes the layout a tab shows or is at its later statements, and
\* only a lookup that found the widget goes on to delete it.
LEMMA WhereStepsLead ==
    ASSUME TypeOK, NEW t \in Tab, StepOf(t)
    PROVE  /\ Read(t) \/ (UNCHANGED base /\ pc'[t] \notin {"load_rows", "load_items"})
           /\ LookupWidget(t) \/ pc'[t] # "rm_delete"
<1> USE DEF TypeOK, Goto, Finish, Reload, Abort, Begin, UpdateRows
<1>1. CASE Request(t)
  BY <1>1 DEF Request, StartLoad, StartSave, StartAdd, StartRemove, client
<1>2. CASE Read(t)
  BY <1>2 DEF Read, LoadVersion, LoadRows, LoadItems
<1>3. CASE LookupKey(t) \/ FindPosition(t) \/ InsertWidget(t) \/ DeleteWidget(t)
  BY <1>3 DEF LookupKey, FindPosition, InsertWidget, DeleteWidget, WidgetWritten, client
<1>4. CASE LookupWidget(t)
  BY <1>4 DEF LookupWidget
<1>5. CASE EditLockHeld(t) \/ EditLockRefused(t) \/ CreateVersionRow(t)
  BY <1>5 DEF EditLockHeld, EditLockRefused, CreateVersionRow, client
<1>6. CASE Commit(t) \/ CommitFails(t) \/ Rollback(t)
  BY <1>6 DEF Commit, CommitFails, Rollback
<1>7. CASE LockWaitTimeout(t) \/ StatementFails(t)
  BY <1>7 DEF LockWaitTimeout, StatementFails, AutocommitFails, client
<1>8. CASE CompareAndSwap(t) \/ SelectRows(t) \/ SelectBackground(t)
  BY <1>8 DEF CompareAndSwap, SelectRows, SelectBackground, client
<1>9. CASE MirrorRows(t) \/ UnplaceBackground(t) \/ PlaceBackground(t) \/ PlaceWidget(t)
             \/ UnmirrorRows(t)
  BY <1>9 DEF MirrorRows, UnplaceBackground, PlaceBackground, PlaceWidget, UnmirrorRows,
              NextPlacement, client
<1>10. CASE Watchdog(t) \/ WatchdogRace(t)
  BY <1>10 DEF Watchdog, WatchdogRace, client
<1> QED
  BY <1>1, <1>2, <1>3, <1>4, <1>5, <1>6, <1>7, <1>8, <1>9, <1>10
  DEF StepOf, Outside, InTransaction, Widget

-----------------------------------------------------------------------------
(* Lost updates: a layout that was read is of an older version, or is still   *)
(* how the page is.                                                          *)

\* The version a load that starts now will carry.
Current == IF version = 0 THEN 1 ELSE version

SeenRows(l) ==
    /\ l.version <= Current
    /\ OnPage(l.rows) \subseteq used
    /\ l.version = Current =>
          \A w \in OnPage(rows) \cap OnPage(l.rows) : l.rows[w] = rows[w]

UpToDate(t) ==
    /\ pc[t] \in {"load_rows", "load_items"} => reading[t].version <= Current
    /\ pc[t] = "load_items" => SeenRows(reading[t])
    /\ base[t].complete =>
          SeenRows(base[t]) /\ (base[t].version = Current => base[t].placed = placed)

\* While the version stays, rows only come under new ids or go.
Kept ==
    /\ UNCHANGED <<Current, placed>>
    /\ \A w \in used : rows'[w] = rows[w] \/ rows'[w] = NoRow

LEMMA StoreMovesOn ==
    ASSUME IInv, NEW t \in Tab, StepOf(t)
    PROVE  used \subseteq used' /\ (Kept \/ Current' > Current)
<1>0. TypeOK /\ rows \in Page /\ version \in Nat /\ used \subseteq WidgetId
  BY DEF IInv, TypeOK
<1>1. CASE UNCHANGED store
  BY <1>0, <1>1 DEF store, Kept, Current
<1>2. CASE StoreCreated
  BY <1>0, <1>2 DEF StoreCreated, Kept, Current
<1>3. CASE StoreSaved
  BY <1>0, <1>3 DEF StoreSaved, Current
<1>4. CASE StoreAdded
  <2>1. PICK w \in WidgetId \ used :
           /\ rows' = [rows EXCEPT ![w] = rows'[w]]
           /\ used' = used \cup {w}
           /\ UNCHANGED <<version, placed>>
    BY <1>4 DEF StoreAdded
  <2>2. \A v \in used : rows'[v] = rows[v]
    BY <1>0, <2>1 DEF Page
  <2> QED
    BY <2>1, <2>2 DEF Kept, Current
<1>5. CASE StoreRemoved(t)
  <2>1. \A v \in WidgetId : rows'[v] = rows[v] \/ rows'[v] = NoRow
    BY <1>0, <1>5 DEF StoreRemoved, Page
  <2> QED
    BY <1>0, <1>5, <2>1 DEF StoreRemoved, Kept, Current
<1> QED
  BY <1>1, <1>2, <1>3, <1>4, <1>5, StoreSteps

\* A layout that was read keeps its truth, however much later it is used.
LEMMA LayoutsAge ==
    ASSUME IInv, NEW l \in Layout, SeenRows(l),
           used \subseteq used', Kept \/ Current' > Current, version' \in Nat
    PROVE  SeenRows(l)' /\ (l.version = Current' => l.version = Current /\ placed' = placed)
<1>1. l.version \in Nat /\ Current \in Nat /\ Current' \in Nat
  BY DEF IInv, TypeOK, Layout, Current
<1>2. CASE Current' > Current
  BY <1>1, <1>2 DEF SeenRows
<1>3. CASE Kept
  <2>1. ASSUME l.version = Current, NEW w \in OnPage(rows') \cap OnPage(l.rows)
        PROVE  l.rows[w] = rows'[w]
    <3>1. w \in used /\ rows'[w] # NoRow
      BY <2>1 DEF SeenRows, OnPage
    <3>2. rows'[w] = rows[w]
      BY <1>3, <3>1 DEF Kept
    <3>3. w \in OnPage(rows)
      BY <3>1, <3>2 DEF OnPage
    <3> QED
      BY <2>1, <3>2, <3>3 DEF SeenRows
  <2>2. OnPage(l.rows)' \subseteq used'
    BY DEF SeenRows, OnPage
  <2> QED
    BY <1>1, <1>3, <2>1, <2>2 DEF Kept, SeenRows, OnPage
<1> QED
  BY <1>2, <1>3

LEMMA UpToDateStep ==
    ASSUME IInv, IInv', \A u \in Tab : UpToDate(u), NEW t \in Tab, StepOf(t)
    PROVE  \A u \in Tab : UpToDate(u)'
<1>0. /\ TypeOK /\ TypeOK'
      /\ used \subseteq used' /\ (Kept \/ Current' > Current)
      /\ version \in Nat /\ version' \in Nat
      /\ Current \in Nat /\ Current' \in Nat /\ Current <= Current'
  <2>1. used \subseteq used' /\ (Kept \/ Current' > Current)
    BY StoreMovesOn
  <2>2. version \in Nat /\ version' \in Nat /\ TypeOK /\ TypeOK'
    BY DEF IInv, TypeOK
  <2>3. Current \in Nat /\ Current' \in Nat
    BY <2>2 DEF Current
  <2> QED
    BY <2>1, <2>2, <2>3 DEF Kept
<1>1. ASSUME NEW u \in Tab, base'[u] = base[u]
      PROVE  base'[u].complete =>
                SeenRows(base[u])' /\ (base'[u].version = Current' => base'[u].placed = placed')
  <2> SUFFICES ASSUME base[u].complete
               PROVE  SeenRows(base[u])'
                      /\ (base'[u].version = Current' => base'[u].placed = placed')
    BY <1>1
  <2>1. PICK l \in Layout : l = base[u]
    BY <1>0 DEF TypeOK
  <2>2. SeenRows(l) /\ (l.version = Current => l.placed = placed)
    BY <2>1 DEF UpToDate
  <2>3. SeenRows(l)' /\ (l.version = Current' => l.version = Current /\ placed' = placed)
    BY <1>0, <2>2, LayoutsAge
  <2>4. l = base'[u]
    BY <1>1, <2>1
  <2> QED
    BY <2>2, <2>3, <2>4 DEF SeenRows
<1>2. ASSUME NEW u \in Tab, UNCHANGED <<pc[u], reading[u], base[u]>>
      PROVE  UpToDate(u)'
  <2>1. reading[u].version \in Nat
    BY <1>0 DEF TypeOK, Layout
  <2>2. pc'[u] \in {"load_rows", "load_items"} => reading'[u].version <= Current'
    BY <1>0, <1>2, <2>1 DEF UpToDate
  <2>3. pc'[u] = "load_items" => SeenRows(reading[u])'
    <3> SUFFICES ASSUME pc[u] = "load_items" PROVE SeenRows(reading[u])'
      BY <1>2
    <3>1. PICK l \in Layout : l = reading[u]
      BY <1>0 DEF TypeOK
    <3>2. SeenRows(l)
      BY <3>1 DEF UpToDate
    <3>3. SeenRows(l)'
      BY <1>0, <3>2, LayoutsAge
    <3>4. l = reading'[u]
      BY <1>2, <3>1
    <3> QED
      BY <3>3, <3>4 DEF SeenRows
  <2> QED
    BY <1>1, <1>2, <2>2, <2>3 DEF UpToDate
<1>3. ASSUME NEW u \in Tab, u # t PROVE UpToDate(u)'
  <2>1. UNCHANGED Own(u)
    BY <1>0, <1>3, StepsAreOwn DEF StepOf
  <2> QED
    BY <1>2, <2>1 DEF Own
<1>4. UpToDate(t)'
  <2>1. CASE LoadVersion(t)
    <3>1. /\ pc'[t] = "load_rows" /\ base'[t] = base[t]
          /\ reading'[t].version = Current /\ Current' = Current
      BY <1>0, <2>1 DEF LoadVersion, Goto, TypeOK, Layout, Current, store
    <3> QED
      BY <1>0, <1>1, <3>1 DEF UpToDate
  <2>2. CASE LoadRows(t)
    <3>1. /\ pc[t] = "load_rows" /\ pc'[t] = "load_items" /\ base'[t] = base[t]
          /\ reading'[t].version = reading[t].version /\ reading'[t].rows = rows
          /\ Current' = Current /\ rows' = rows /\ used' = used
      BY <1>0, <2>2 DEF LoadRows, Goto, TypeOK, Layout, Current, store
    <3>2. reading'[t].version <= Current'
      BY <3>1 DEF UpToDate
    <3>3. SeenRows(reading[t])'
      BY <1>0, <3>1, <3>2 DEF SeenRows, TypeOK, OnPage
    <3> QED
      BY <1>1, <3>1, <3>2, <3>3 DEF UpToDate
  <2>3. CASE LoadItems(t)
    <3>1. /\ pc[t] = "load_items" /\ pc'[t] = "idle"
          /\ base'[t].version = reading[t].version /\ base'[t].rows = reading[t].rows
          /\ base'[t].placed = placed
          /\ Current' = Current /\ rows' = rows /\ used' = used /\ placed' = placed
      BY <1>0, <2>3 DEF LoadItems, Loaded, Finish, Goto, TypeOK, Layout, Current, store
    <3>2. SeenRows(reading[t])
      BY <3>1 DEF UpToDate
    <3>3. SeenRows(base[t])'
      BY <3>1, <3>2 DEF SeenRows, OnPage
    <3> QED
      BY <3>1, <3>3 DEF UpToDate
  <2>4. CASE UNCHANGED base /\ pc'[t] \notin {"load_rows", "load_items"}
    BY <1>1, <2>4 DEF UpToDate
  <2> QED
    BY <1>0, <2>1, <2>2, <2>3, <2>4, WhereStepsLead DEF Read
<1> QED
  BY <1>3, <1>4

LEMMA UpToDateInit ==
    ASSUME Init, NEW t \in Tab
    PROVE  UpToDate(t)
  BY DEF Init, UpToDate, NoLayout

-----------------------------------------------------------------------------
(* What a client is told.                                                    *)

Loads == {"load_version", "load_rows", "load_items"}
Untouched(t) == ~applied[t] /\ ~audited[t]

\* A request has written nothing until its last statement; what is left after that is
\* to load the layout of its answer.
Told(t) ==
    /\ verdict[t] = "ok" => applied[t] /\ audited[t]
    /\ answer[t] \in Refusals => pc[t] = "idle" /\ Untouched(t)
    /\ pc[t] \notin Loads \cup {"idle"} => Untouched(t)
    /\ pc[t] \in Loads => verdict[t] \in {"none", "ok", "conflict"}
    /\ pc[t] \in Loads /\ verdict[t] = "conflict" => Untouched(t)
    /\ pc[t] = "idle" => verdict[t] = "none"

\* The outcome of tab u, which only the steps of tab u write.
OutcomeOf(u) == <<pc[u], verdict[u], answer[u], settled[u], applied[u], audited[u]>>

LEMMA OutcomesAreOwn ==
    ASSUME TypeOK, NEW t \in Tab, NEW u \in Tab, u # t, StepOf(t)
    PROVE  UNCHANGED OutcomeOf(u)
<1> USE DEF TypeOK, OutcomeOf, outcome, Goto, Settle, Finish, Reload, Abort, Begin, UpdateRows
<1>1. CASE Request(t)
  BY <1>1 DEF Request, StartLoad, StartSave, StartAdd, StartRemove
<1>2. CASE Read(t)
  BY <1>2 DEF Read, LoadVersion, LoadRows, LoadItems
<1>3. CASE Widget(t)
  BY <1>3 DEF Widget, LookupKey, FindPosition, InsertWidget, LookupWidget, DeleteWidget,
         WidgetWritten
<1>4. CASE EditLockHeld(t) \/ EditLockRefused(t) \/ CreateVersionRow(t)
  BY <1>4 DEF EditLockHeld, EditLockRefused, CreateVersionRow
<1>5. CASE Commit(t) \/ CommitFails(t)
  BY <1>5 DEF Commit, CommitFails, CommitApplied
<1>6. CASE LockWaitTimeout(t) \/ StatementFails(t)
  BY <1>6 DEF LockWaitTimeout, StatementFails, AutocommitFails
<1>7. CASE CompareAndSwap(t) \/ SelectRows(t) \/ SelectBackground(t)
  BY <1>7 DEF CompareAndSwap, SelectRows, SelectBackground
<1>8. CASE MirrorRows(t) \/ UnplaceBackground(t) \/ PlaceBackground(t) \/ PlaceWidget(t)
             \/ UnmirrorRows(t) \/ Rollback(t)
  BY <1>8 DEF MirrorRows, UnplaceBackground, PlaceBackground, PlaceWidget, UnmirrorRows,
              Rollback
<1>9. CASE Watchdog(t) \/ WatchdogRace(t)
  BY <1>9 DEF Watchdog, WatchdogRace
<1> QED
  BY <1>1, <1>2, <1>3, <1>4, <1>5, <1>6, <1>7, <1>8, <1>9 DEF StepOf, Outside, InTransaction

\* The end of a request, by what it is answered.
LEMMA FinishTells ==
    ASSUME TypeOK, NEW t \in Tab, Told(t), pc[t] # "idle", NEW a, Finish(t, a),
           a \in Refusals => ~applied'[t] /\ ~audited'[t]
    PROVE  Told(t)'
<1>1. pc'[t] = "idle" /\ verdict'[t] = "none"
  BY DEF TypeOK, Finish, Goto
<1>2. answer'[t] = answer[t] \/ answer'[t] = a
  BY DEF TypeOK, Finish, Settle
<1>3. answer[t] \notin Refusals
  BY DEF Told
<1> QED
  BY <1>1, <1>2, <1>3 DEF Told, Untouched, Loads

\* A request that goes on, having written nothing.
LEMMA GoesOnTells ==
    ASSUME TypeOK, NEW t \in Tab, Told(t), pc[t] \notin Loads \cup {"idle"},
           pc'[t] \notin Loads \cup {"idle"}, UNCHANGED <<applied, audited>>,
           answer'[t] = answer[t] \/ answer'[t] \notin Refusals,
           verdict'[t] = verdict[t] \/ verdict'[t] # "ok"
    PROVE  Told(t)'
  BY DEF Told, Untouched

LEMMA AbortTells ==
    ASSUME TypeOK, NEW t \in Tab, Told(t), pc[t] \notin Loads \cup {"idle"}, NEW e, e # "ok",
           Abort(t, e)
    PROVE  Told(t)'
<1>1. pc'[t] = "rollback" /\ verdict'[t] = e
  BY DEF TypeOK, Abort, Goto
<1> QED
  BY <1>1, GoesOnTells DEF Abort, Loads

LEMMA UpdateTells ==
    ASSUME TypeOK, NEW t \in Tab, Told(t), pc[t] \notin Loads \cup {"idle"}, NEW page,
           NEW next \in PcValues \ (Loads \cup {"idle"}), UpdateRows(t, page, next)
    PROVE  Told(t)'
<1>1. CASE Abort(t, "unavailable")
  BY <1>1, AbortTells
<1>2. CASE Goto(t, next) /\ UNCHANGED outcome
  <2>1. pc'[t] = next
    BY <1>2 DEF TypeOK, Goto
  <2> QED
    BY <1>2, <2>1, GoesOnTells DEF outcome
<1> QED
  BY <1>1, <1>2 DEF UpdateRows

LEMMA RequestTells ==
    ASSUME TypeOK, NEW t \in Tab, Told(t), Request(t)
    PROVE  Told(t)'
<1>1. PICK where \in {"verify", "load_version"} : Begin(t, where)
  BY DEF Request, StartLoad, StartSave, StartAdd, StartRemove
<1>2. /\ pc[t] = "idle" /\ pc'[t] = where /\ verdict'[t] = verdict[t]
      /\ answer'[t] = "none" /\ ~applied'[t] /\ ~audited'[t]
  BY <1>1 DEF TypeOK, Begin, Goto
<1>3. "none" \notin Refusals
  BY DEF Refusals
<1> QED
  BY <1>2, <1>3 DEF Told, Untouched, Loads

LEMMA ReadTells ==
    ASSUME TypeOK, NEW t \in Tab, Told(t), Read(t)
    PROVE  Told(t)'
<1>1. CASE LoadVersion(t) \/ LoadRows(t)
  <2>1. pc[t] \in Loads /\ pc'[t] \in Loads /\ UNCHANGED outcome
    BY <1>1 DEF TypeOK, LoadVersion, LoadRows, Goto, Loads
  <2> QED
    BY <2>1 DEF Told, Untouched, outcome, Loads
<1>2. CASE LoadItems(t)
  <2> DEFINE a == IF verdict[t] = "none" THEN "ok" ELSE verdict[t]
  <2>1. pc[t] \in Loads /\ pc[t] # "idle" /\ Finish(t, a) /\ UNCHANGED <<applied, audited>>
    BY <1>2 DEF LoadItems, Loads
  <2>2. a \in Refusals => verdict[t] = "conflict"
    BY <2>1 DEF Told, Refusals
  <2> HIDE DEF a
  <2> QED
    BY <2>1, <2>2, FinishTells DEF Told, Untouched
<1> QED
  BY <1>1, <1>2 DEF Read

LEMMA OutsideTells ==
    ASSUME TypeOK, NEW t \in Tab, Told(t),
           \/ EditLockHeld(t) \/ EditLockRefused(t) \/ CreateVersionRow(t) \/ Widget(t)
    PROVE  Told(t)'
<1>1. pc[t] \notin Loads \cup {"idle"} /\ Untouched(t)
  BY DEF EditLockHeld, EditLockRefused, CreateVersionRow, Widget, LookupKey, FindPosition,
         InsertWidget, LookupWidget, DeleteWidget,
         WidgetWritten, Told, Loads
<1>2. ASSUME NEW where, where \notin Loads \cup {"idle"}, Goto(t, where),
             UNCHANGED <<verdict, answer, applied, audited>>
      PROVE  Told(t)'
  <2>1. pc'[t] = where
    BY <1>2 DEF TypeOK, Goto
  <2> QED
    BY <1>1, <1>2, <2>1, GoesOnTells
<1>3. ASSUME NEW a, Finish(t, a), UNCHANGED <<applied, audited>>
      PROVE  Told(t)'
  BY <1>1, <1>3, FinishTells DEF Untouched
<1>4. ASSUME WidgetWritten(t)
      PROVE  Told(t)'
  <2>1. PICK a \in {"ok", "unavailable"} : Finish(t, a)
    BY <1>4 DEF WidgetWritten
  <2>2. a \notin Refusals
    BY DEF Refusals
  <2> QED
    BY <1>1, <2>1, <2>2, FinishTells
<1>5. CASE EditLockHeld(t)
  BY <1>2, <1>5 DEF EditLockHeld, outcome, Loads
<1>6. CASE EditLockRefused(t)
  BY <1>3, <1>6 DEF EditLockRefused
<1>7. CASE CreateVersionRow(t)
  BY <1>2, <1>7 DEF CreateVersionRow, outcome, Loads
<1>8. CASE LookupKey(t)
  BY <1>2, <1>3, <1>8 DEF LookupKey, Loads
<1>9. CASE FindPosition(t)
  BY <1>2, <1>9 DEF FindPosition, outcome, Loads
<1>10. CASE InsertWidget(t)
  BY <1>3, <1>4, <1>10 DEF InsertWidget
<1>11. CASE LookupWidget(t)
  BY <1>2, <1>3, <1>11 DEF LookupWidget, Loads
<1>12. CASE DeleteWidget(t)
  BY <1>4, <1>12 DEF DeleteWidget
<1> QED
  BY <1>5, <1>6, <1>7, <1>8, <1>9, <1>10, <1>11, <1>12 DEF Widget

LEMMA TransactionTells ==
    ASSUME TypeOK, NEW t \in Tab, Told(t), InTransaction(t)
    PROVE  Told(t)'
<1>1. pc[t] \notin Loads \cup {"idle"} /\ Untouched(t)
  BY DEF InTransaction, CompareAndSwap, SelectRows, SelectBackground, MirrorRows,
         UnplaceBackground, PlaceBackground, PlaceWidget, UnmirrorRows, Rollback, Told, Loads
<1>2. ASSUME NEW where, where \notin Loads \cup {"idle"}, Goto(t, where), UNCHANGED outcome
      PROVE  Told(t)'
  <2>1. pc'[t] = where
    BY <1>2 DEF TypeOK, Goto
  <2> QED
    BY <1>1, <1>2, <2>1, GoesOnTells DEF outcome
<1>3. ASSUME NEW e, e # "ok", Abort(t, e)
      PROVE  Told(t)'
  BY <1>1, <1>3, AbortTells
<1>4. ASSUME NEW page, NEW next \in PcValues \ (Loads \cup {"idle"}),
             UpdateRows(t, page, next)
      PROVE  Told(t)'
  BY <1>1, <1>4, UpdateTells
<1>5. \A n : NextPlacement(t, n) \in PcValues \ (Loads \cup {"idle"})
  BY DEF NextPlacement, PcValues, TxnStatement, Loads
<1>6. {"commit", "bg_unplace", "mirror", "bg_place", "bg_select", "select"}
         \subseteq PcValues \ (Loads \cup {"idle"})
  BY DEF PcValues, TxnStatement, Loads
<1>7. CASE CompareAndSwap(t)
  BY <1>2, <1>3, <1>6, <1>7 DEF CompareAndSwap
<1>8. CASE SelectRows(t)
  <2>1. ValidatePlacements(want[t].placements, rows) # "ok"
    BY ValidationAnswers
  <2> QED
    BY <1>2, <1>3, <1>6, <1>8, <2>1 DEF SelectRows
<1>9. CASE SelectBackground(t)
  BY <1>2, <1>3, <1>6, <1>9 DEF SelectBackground
<1>10. CASE MirrorRows(t)
  BY <1>4, <1>5, <1>6, <1>10 DEF MirrorRows
<1>11. CASE UnplaceBackground(t)
  BY <1>2, <1>6, <1>11 DEF UnplaceBackground
<1>12. CASE PlaceBackground(t)
  BY <1>2, <1>5, <1>12 DEF PlaceBackground
<1>13. CASE PlaceWidget(t)
  BY <1>4, <1>5, <1>13 DEF PlaceWidget
<1>14. CASE UnmirrorRows(t)
  BY <1>4, <1>6, <1>14 DEF UnmirrorRows
<1>15. CASE Rollback(t)
  <2>1. UNCHANGED <<applied, audited>>
    BY <1>15 DEF Rollback
  <2>2. CASE Finish(t, verdict[t])
    BY <1>1, <2>1, <2>2, FinishTells DEF Untouched
  <2>3. CASE Reload(t, "conflict") /\ UNCHANGED answer
    <3>1. pc'[t] = "load_version" /\ verdict'[t] = "conflict"
      BY <2>3 DEF TypeOK, Reload, Goto
    <3>2. answer[t] \notin Refusals
      BY <1>1 DEF Told
    <3> QED
      BY <1>1, <2>1, <2>3, <3>1, <3>2 DEF Told, Untouched, Loads
  <2> QED
    BY <1>15, <2>2, <2>3 DEF Rollback
<1> QED
  BY <1>7, <1>8, <1>9, <1>10, <1>11, <1>12, <1>13, <1>14, <1>15 DEF InTransaction

LEMMA CommitTells ==
    ASSUME TypeOK, NEW t \in Tab, Told(t), Commit(t) \/ CommitFails(t)
    PROVE  Told(t)'
<1>1. pc[t] = "commit" /\ pc[t] \notin Loads \cup {"idle"} /\ Untouched(t)
  BY DEF Commit, CommitFails, Told, Loads
<1>2. CASE Commit(t)
  <2>1. applied'[t]
    BY <1>2 DEF TypeOK, Commit, CommitApplied
  <2>2. CASE Finish(t, "none")
    <3>1. "none" \notin Refusals
      BY DEF Refusals
    <3> QED
      BY <1>1, <2>2, <3>1, FinishTells
  <2>3. CASE /\ audited' = [audited EXCEPT ![t] = TRUE]
             /\ Reload(t, "ok")
             /\ UNCHANGED answer
    <3>1. pc'[t] = "load_version" /\ verdict'[t] = "ok" /\ audited'[t]
      BY <2>3 DEF TypeOK, Reload, Goto
    <3>2. answer[t] \notin Refusals
      BY <1>1 DEF Told
    <3> QED
      BY <2>1, <2>3, <3>1, <3>2 DEF Told, Loads
  <2> QED
    BY <1>2, <2>2, <2>3 DEF Commit
<1>3. CASE CommitFails(t)
  <2>1. Finish(t, "unavailable") /\ UNCHANGED audited /\ "unavailable" \notin Refusals
    BY <1>3 DEF CommitFails, Refusals
  <2> QED
    BY <1>1, <2>1, FinishTells DEF Untouched
<1> QED
  BY <1>2, <1>3

LEMMA MishapTells ==
    ASSUME TypeOK, NEW t \in Tab, Told(t),
           StatementFails(t) \/ LockWaitTimeout(t) \/ Watchdog(t) \/ WatchdogRace(t)
    PROVE  Told(t)'
<1>1. ASSUME AutocommitFails(t), pc[t] \in AutocommitStatement
      PROVE  Told(t)'
  <2> DEFINE a == IF pc[t] \in {"load_version", "load_rows", "load_items"}
                       /\ verdict[t] = "conflict"
                    THEN "conflict" ELSE "unavailable"
  <2>1. Finish(t, a) /\ UNCHANGED <<applied, audited>> /\ pc[t] # "idle"
    BY <1>1 DEF AutocommitFails, AutocommitStatement
  <2>2. a \in Refusals => Untouched(t)
    BY DEF Told, Refusals, Loads
  <2> HIDE DEF a
  <2> QED
    BY <2>1, <2>2, FinishTells DEF Told, Untouched
<1>2. ASSUME pc[t] \in TxnStatement, NEW e, e # "ok", Abort(t, e)
      PROVE  Told(t)'
  BY <1>2, AbortTells DEF TxnStatement, Loads
<1>3. CASE StatementFails(t)
  BY <1>1, <1>2, <1>3 DEF StatementFails
<1>4. CASE LockWaitTimeout(t)
  <2>1. pc[t] \in {"version_row", "add_insert", "rm_delete"} => pc[t] \in AutocommitStatement
    BY DEF AutocommitStatement
  <2>2. pc[t] = "cas" => pc[t] \in TxnStatement
    BY DEF TxnStatement
  <2> QED
    BY <1>1, <1>2, <1>4, <2>1, <2>2 DEF LockWaitTimeout
<1>5. ASSUME Settle(t, "unavailable")
      PROVE  answer'[t] = answer[t] \/ answer'[t] \notin Refusals
  BY <1>5 DEF TypeOK, Settle, Refusals
<1>6. CASE Watchdog(t)
  <2>1. /\ pc[t] \notin Loads \cup {"idle"} /\ pc'[t] \in {"rollback", "stranded"}
        /\ Settle(t, "unavailable") /\ UNCHANGED <<verdict, applied, audited>>
    BY <1>6 DEF TypeOK, Watchdog, Goto, TxnStatement, Loads
  <2> QED
    BY <1>5, <2>1, GoesOnTells DEF Loads
<1>7. CASE WatchdogRace(t)
  <2>1. /\ pc[t] = "commit" /\ pc' = pc
        /\ Settle(t, "unavailable") /\ UNCHANGED <<verdict, applied, audited>>
    BY <1>7 DEF WatchdogRace
  <2> QED
    BY <1>5, <2>1, GoesOnTells DEF Loads
<1> QED
  BY <1>3, <1>4, <1>6, <1>7

LEMMA ToldStep ==
    ASSUME TypeOK, \A u \in Tab : Told(u), NEW t \in Tab, StepOf(t)
    PROVE  \A u \in Tab : Told(u)'
<1>1. ASSUME NEW u \in Tab, u # t PROVE Told(u)'
  <2>1. UNCHANGED OutcomeOf(u)
    BY <1>1, OutcomesAreOwn
  <2> QED
    BY <2>1 DEF Told, Untouched, OutcomeOf
<1>2. Told(t)'
  BY RequestTells, ReadTells, OutsideTells, TransactionTells, CommitTells, MishapTells
  DEF StepOf, Outside
<1> QED
  BY <1>1, <1>2

LEMMA ToldInit ==
    ASSUME Init, NEW t \in Tab
    PROVE  Told(t)
  BY DEF Init, Told, Loads, Refusals, Untouched

-----------------------------------------------------------------------------
(* Removals: the widget a DELETE names was looked up, and stays what it was.  *)

Removable(t) ==
    pc[t] = "rm_delete" =>
        /\ target[t] \in used
        /\ rows[target[t]] = NoRow \/ rows[target[t]].key # ProfileKey

\* A row that was given out keeps its key for as long as it is there.
LEMMA KeysStay ==
    ASSUME IInv, NEW t \in Tab, StepOf(t), NEW w \in used
    PROVE  /\ w \in used'
           /\ rows'[w] = NoRow \/ (rows[w] # NoRow /\ rows'[w].key = rows[w].key)
<1>0. TypeOK /\ rows \in Page /\ w \in WidgetId
  BY DEF IInv, TypeOK
<1>1. CASE UNCHANGED rows /\ UNCHANGED used
  BY <1>1
<1>2. CASE StoreSaved
  BY <1>0, <1>2 DEF StoreSaved, Abstract!Rearranged
<1>3. CASE StoreAdded
  <2>1. PICK v \in WidgetId \ used :
           rows' = [rows EXCEPT ![v] = rows'[v]] /\ used' = used \cup {v}
    BY <1>3 DEF StoreAdded
  <2> QED
    BY <1>0, <2>1 DEF Page
<1>4. CASE StoreRemoved(t)
  BY <1>0, <1>4 DEF StoreRemoved, Page
<1> QED
  BY <1>1, <1>2, <1>3, <1>4, StoreSteps DEF StoreCreated, store

LEMMA RemovableStep ==
    ASSUME IInv, \A u \in Tab : Removable(u), NEW t \in Tab, StepOf(t)
    PROVE  \A u \in Tab : Removable(u)'
<1>0. TypeOK /\ \A u \in Tab : TabInv(u)
  BY DEF IInv
<1>1. ASSUME NEW u \in Tab, u # t PROVE Removable(u)'
  <2>1. UNCHANGED <<pc[u], target[u]>>
    BY <1>0, <1>1, StepsAreOwn DEF StepOf, Own
  <2> QED
    BY <2>1, KeysStay DEF Removable
<1>2. CASE LookupWidget(t)
  <2> SUFFICES ASSUME pc'[t] = "rm_delete" PROVE Removable(t)'
    BY <1>1 DEF Removable
  <2>1. /\ pc[t] = "rm_lookup"
        /\ ~(rows[target[t]] = NoRow) /\ rows[target[t]].key # ProfileKey
        /\ UNCHANGED <<target, rows, used>>
    BY <1>0, <1>2 DEF TypeOK, LookupWidget, Finish, Goto, asked, store
  <2>2. target[t] \in WidgetId
    BY <1>0, <2>1 DEF TabInv, Carried
  <2>3. target[t] \in used
    BY <1>0, <2>1, <2>2 DEF TypeOK, OnPage
  <2> QED
    BY <2>1, <2>3 DEF Removable
<1>3. CASE pc'[t] # "rm_delete"
  BY <1>1, <1>3 DEF Removable
<1> QED
  BY <1>0, <1>2, <1>3, WhereStepsLead

-----------------------------------------------------------------------------
(* Locks: who holds one is past the compare-and-swap, and the layout rows are  *)
(* held only by who holds the version row.                                     *)

Holding(t) ==
    /\ versionOwner = t =>
          pc[t] \in (TxnStatement \ {"cas"}) \cup {"commit", "rollback", "stranded"}
    /\ rowsOwner = t =>
          versionOwner = t /\ pc[t] \in Validated \cup {"rollback", "stranded"}

\* Nobody is given a lock by a step of another tab, nor loses the version row to it.
LEMMA LocksAreOwn ==
    ASSUME IInv, NEW t \in Tab, NEW u \in Tab, u # t, StepOf(t)
    PROVE  /\ versionOwner' = u <=> versionOwner = u
           /\ rowsOwner' = u => rowsOwner = u
<1>0. u # Nobody /\ t # Nobody
  BY ServiceAssumption
<1>1. CASE UNCHANGED <<store, locks>>
  BY <1>1 DEF locks
<1>2. CASE CreateVersionRow(t) \/ InsertWidget(t) \/ DeleteWidget(t)
  BY <1>2 DEF CreateVersionRow, InsertWidget, DeleteWidget, locks
<1>3. CASE CompareAndSwap(t)
  BY <1>0, <1>3 DEF CompareAndSwap
<1>4. CASE SelectRows(t)
  BY <1>0, <1>4 DEF SelectRows
<1>5. CASE Commit(t) \/ CommitFails(t) \/ Rollback(t)
  BY <1>0, <1>5 DEF Commit, CommitFails, Rollback, ReleaseLocks
<1> QED
  BY <1>1, <1>2, <1>3, <1>4, <1>5, QuietSteps DEF StepOf

\* Who holds a lock goes on with its transaction, or ends it and holds none.
LEMMA HoldersGoOn ==
    ASSUME TypeOK, NEW t \in Tab, StepOf(t),
           pc[t] \in (TxnStatement \ {"cas"}) \cup {"commit", "rollback", "stranded"}
    PROVE  \/ versionOwner' # t /\ rowsOwner' # t
           \/ /\ UNCHANGED locks
              /\ pc'[t] \in (TxnStatement \ {"cas"}) \cup {"commit", "rollback", "stranded"}
              /\ pc[t] \in Validated \cup {"rollback", "stranded"} =>
                    pc'[t] \in Validated \cup {"rollback", "stranded"}
           \/ SelectRows(t)
<1> USE DEF TypeOK, Goto, Finish, Reload, Abort, Begin, TxnStatement, Validated
<1>0. t # Nobody
  BY ServiceAssumption
<1>1. ~Request(t)
  BY DEF Request, StartLoad, StartSave, StartAdd, StartRemove
<1>2. ~(Read(t) \/ Widget(t) \/ EditLockHeld(t) \/ EditLockRefused(t) \/ CreateVersionRow(t)
        \/ LockWaitTimeout(t) \/ CompareAndSwap(t))
  BY DEF Read, LoadVersion, LoadRows, LoadItems, Widget, LookupKey, FindPosition,
         InsertWidget, LookupWidget, DeleteWidget,
         WidgetWritten, EditLockHeld, EditLockRefused,
         CreateVersionRow, LockWaitTimeout, CompareAndSwap
<1>3. CASE Commit(t) \/ CommitFails(t) \/ Rollback(t)
  BY <1>0, <1>3 DEF Commit, CommitFails, Rollback, ReleaseLocks
<1>4. CASE StatementFails(t)
  BY <1>4 DEF StatementFails, AutocommitStatement
<1>5. CASE SelectBackground(t) \/ UnplaceBackground(t) \/ PlaceBackground(t)
  BY <1>5 DEF SelectBackground, UnplaceBackground, PlaceBackground, NextPlacement
<1>6. CASE MirrorRows(t) \/ PlaceWidget(t) \/ UnmirrorRows(t)
  BY <1>6 DEF MirrorRows, PlaceWidget, UnmirrorRows, UpdateRows, NextPlacement
<1>7. CASE Watchdog(t) \/ WatchdogRace(t)
  BY <1>7 DEF Watchdog, WatchdogRace
<1> QED
  BY <1>1, <1>2, <1>3, <1>4, <1>5, <1>6, <1>7 DEF StepOf, Outside, InTransaction

LEMMA HoldingStep ==
    ASSUME IInv, \A u \in Tab : Holding(u), NEW t \in Tab, StepOf(t)
    PROVE  \A u \in Tab : Holding(u)'
<1>0. TypeOK /\ TabInv(t) /\ t # Nobody
  BY ServiceAssumption DEF IInv
<1>1. ASSUME NEW u \in Tab, u # t PROVE Holding(u)'
  <2>1. UNCHANGED pc[u]
    BY <1>0, <1>1, StepsAreOwn DEF StepOf, Own
  <2> QED
    BY <1>1, <2>1, LocksAreOwn DEF Holding
<1>2. CASE versionOwner = t \/ rowsOwner = t
  <2>1. pc[t] \in (TxnStatement \ {"cas"}) \cup {"commit", "rollback", "stranded"}
    BY <1>2 DEF Holding
  <2>2. CASE SelectRows(t)
    <3>1. pc[t] = "select" /\ rowsOwner' = t /\ UNCHANGED versionOwner
          /\ pc'[t] \in {"mirror", "bg_select", "rollback"}
      BY <1>0, <2>2 DEF SelectRows, TypeOK, Goto, Abort
    <3>2. versionOwner = t
      BY <1>0, <3>1 DEF TabInv, LocksHeld, Admitted, TxnStatement
    <3> QED
      BY <1>1, <3>1, <3>2 DEF Holding, TxnStatement, Validated
  <2> QED
    BY <1>0, <1>1, <2>1, <2>2, HoldersGoOn DEF Holding, locks
<1>3. CASE versionOwner # t /\ rowsOwner # t
  <2>1. CASE CompareAndSwap(t)
    <3>1. pc'[t] \in {"select", "rollback"} /\ UNCHANGED rowsOwner
      BY <1>0, <2>1 DEF CompareAndSwap, TypeOK, Goto, Abort
    <3> QED
      BY <1>1, <1>3, <3>1 DEF Holding, TxnStatement
  <2>2. ~SelectRows(t)
    BY <1>0, <1>3 DEF SelectRows, TabInv, LocksHeld, Admitted, TxnStatement
  <2>3. CASE ~CompareAndSwap(t)
    <3>1. versionOwner' # t /\ rowsOwner' # t
      BY <1>0, <1>3, <2>2, <2>3, QuietSteps
      DEF StepOf, locks, CreateVersionRow, Commit, CommitFails, Rollback, ReleaseLocks,
          InsertWidget, DeleteWidget
    <3> QED
      BY <1>1, <3>1 DEF Holding
  <2> QED
    BY <2>1, <2>3
<1> QED
  BY <1>2, <1>3

-----------------------------------------------------------------------------
(* Answers: a request that was answered has one, and one that is being aborted *)
(* has the refusal it will be answered with.                                   *)

Answered(t) ==
    /\ pc[t] = "idle" => settled[t]
    /\ settled[t] /\ pc[t] # "idle" => answer[t] # "none"
    /\ ~settled[t] /\ pc[t] = "rollback" => verdict[t] # "none"
    /\ pc[t] = "stranded" => settled[t]

\* A request that is not answered yet, before or after a step of it.
Owed(t) ==
    /\ ~settled[t]
    /\ pc[t] \notin {"idle", "stranded"}
    /\ pc[t] = "rollback" => verdict[t] # "none"

\* What a step of a request does to the answer it is owed.
AnswerStep(t) ==
    \/ pc[t] = "idle" /\ Owed(t)'
    \/ /\ pc[t] # "idle" /\ UNCHANGED <<settled, answer>>
       /\ ~settled[t] => Owed(t)'
       /\ pc'[t] # "idle"
    \/ /\ pc[t] # "idle" /\ settled'[t] /\ (settled[t] => UNCHANGED answer)
       /\ ~settled[t] => answer'[t] # "none"

LEMMA AnswerSteps ==
    ASSUME TypeOK, NEW t \in Tab, Answered(t), StepOf(t)
    PROVE  AnswerStep(t)
<1>1. ASSUME NEW a \in Answers, Finish(t, a), pc[t] # "idle",
             settled[t] \/ a # "none"
      PROVE  AnswerStep(t)
  BY <1>1 DEF TypeOK, Finish, Settle, AnswerStep
<1>2. ASSUME NEW where \in PcValues \ {"idle", "stranded", "rollback"}, Goto(t, where),
             pc[t] # "idle", UNCHANGED <<settled, answer>>
      PROVE  AnswerStep(t)
  BY <1>2 DEF TypeOK, Goto, AnswerStep, Owed
<1>3. ASSUME NEW e, e # "none", Abort(t, e), pc[t] # "idle"
      PROVE  AnswerStep(t)
  BY <1>3 DEF TypeOK, Goto, Abort, AnswerStep, Owed
<1>4. ASSUME NEW page, NEW next \in PcValues \ {"idle", "stranded", "rollback"},
             UpdateRows(t, page, next), pc[t] # "idle"
      PROVE  AnswerStep(t)
  BY <1>2, <1>3, <1>4 DEF UpdateRows, outcome
<1>5. ASSUME NEW v, Reload(t, v), pc[t] # "idle", UNCHANGED <<settled, answer>>
      PROVE  AnswerStep(t)
  <2>1. "load_version" \in PcValues \ {"idle", "stranded", "rollback"}
    BY DEF PcValues, AutocommitStatement
  <2> QED
    BY <1>2, <1>5, <2>1 DEF Reload
<1>6. {"ok", "conflict", "unavailable", "locked", "missing", "denied"}
         \subseteq Answers \ {"none"}
  BY DEF Answers
<1>7. TxnStatement \cup AutocommitStatement \cup {"commit", "verify"}
         \subseteq PcValues \ {"idle", "stranded", "rollback"}
  BY DEF PcValues, TxnStatement, AutocommitStatement
<1>8. /\ \A n : NextPlacement(t, n) \in TxnStatement
      /\ {"load_rows", "load_items", "add_lookup", "add_position", "add_insert",
          "rm_lookup", "rm_delete", "version_row"} \subseteq AutocommitStatement
      /\ {"select", "cas", "bg_select", "mirror", "bg_unplace", "bg_place"}
            \subseteq TxnStatement
  BY DEF NextPlacement, TxnStatement, AutocommitStatement
<1>9. CASE Request(t)
  BY <1>9 DEF Request, StartLoad, StartSave, StartAdd, StartRemove, Begin, Goto, TypeOK,
              AnswerStep, Owed
<1>10. CASE Read(t)
  <2>1. verdict[t] \in Answers
    BY DEF TypeOK
  <2> QED
    BY <1>1, <1>2, <1>6, <1>7, <1>8, <1>10, <2>1
    DEF Read, LoadVersion, LoadRows, LoadItems, outcome
<1>11. CASE EditLockHeld(t) \/ EditLockRefused(t) \/ CreateVersionRow(t)
  BY <1>1, <1>2, <1>6, <1>7, <1>8, <1>11
  DEF EditLockHeld, EditLockRefused, CreateVersionRow, outcome
<1>12. CASE Widget(t)
  BY <1>1, <1>2, <1>6, <1>7, <1>8, <1>12
  DEF Widget, LookupKey, FindPosition, InsertWidget, LookupWidget, DeleteWidget,
         WidgetWritten, outcome
<1>13. CASE Commit(t)
  <2>1. "none" \in Answers
    BY DEF Answers
  <2> QED
    BY <1>1, <1>5, <1>13, <2>1 DEF Commit
<1>14. CASE CommitFails(t)
  BY <1>1, <1>6, <1>14 DEF CommitFails
<1>15. CASE Rollback(t)
  <2>1. verdict[t] \in Answers /\ pc[t] = "rollback"
    BY <1>15 DEF TypeOK, Rollback
  <2>2. settled[t] \/ verdict[t] # "none"
    BY <2>1 DEF Answered
  <2> QED
    BY <1>1, <1>5, <1>15, <2>1, <2>2 DEF Rollback
<1>16. CASE CompareAndSwap(t) \/ SelectBackground(t) \/ UnplaceBackground(t)
            \/ PlaceBackground(t)
  BY <1>2, <1>3, <1>7, <1>8, <1>16
  DEF CompareAndSwap, SelectBackground, UnplaceBackground, PlaceBackground, outcome
<1>17. CASE SelectRows(t)
  BY <1>2, <1>3, <1>7, <1>8, <1>17 DEF SelectRows, outcome
<1>18. CASE MirrorRows(t) \/ PlaceWidget(t) \/ UnmirrorRows(t)
  BY <1>4, <1>7, <1>8, <1>18 DEF MirrorRows, PlaceWidget, UnmirrorRows
<1>19. ASSUME AutocommitFails(t), pc[t] # "idle" PROVE AnswerStep(t)
  BY <1>1, <1>6, <1>19 DEF AutocommitFails
<1>20. CASE StatementFails(t) \/ LockWaitTimeout(t)
  BY <1>3, <1>19, <1>20 DEF StatementFails, LockWaitTimeout, AutocommitStatement,
                            TxnStatement
<1>21. CASE Watchdog(t) \/ WatchdogRace(t)
  BY <1>21 DEF Watchdog, WatchdogRace, Settle, TypeOK, AnswerStep, TxnStatement
<1> QED
  BY <1>9, <1>10, <1>11, <1>12, <1>13, <1>14, <1>15, <1>16, <1>17, <1>18, <1>20, <1>21
  DEF StepOf, Outside, InTransaction

LEMMA AnsweredStep ==
    ASSUME TypeOK, TypeOK', \A u \in Tab : Answered(u), NEW t \in Tab, StepOf(t)
    PROVE  \A u \in Tab : Answered(u)'
<1>1. ASSUME NEW u \in Tab, u # t PROVE Answered(u)'
  <2>1. UNCHANGED OutcomeOf(u)
    BY <1>1, OutcomesAreOwn
  <2> QED
    BY <2>1 DEF Answered, OutcomeOf
<1>2. Answered(t)'
  BY AnswerSteps DEF AnswerStep, Owed, Answered
<1> QED
  BY <1>1, <1>2

-----------------------------------------------------------------------------
(* All of it together, and the theorems it gives.                            *)

History ==
    \A t \in Tab :
        UpToDate(t) /\ Told(t) /\ Removable(t) /\ Holding(t) /\ Answered(t)

LEMMA HistoryStep ==
    ASSUME IInv, IInv', History, [Next]_vars
    PROVE  History'
<1>1. CASE UNCHANGED vars
  <2>1. UNCHANGED <<rows, used, version, placed, pc, target, reading, base, outcome>>
    BY <1>1 DEF vars, store, asked, client
  <2>2. ASSUME NEW t \in Tab PROVE UpToDate(t)'
    BY <2>1 DEF History, UpToDate, SeenRows, Current, OnPage
  <2>3. ASSUME NEW t \in Tab PROVE Told(t)'
    BY <2>1 DEF History, Told, Untouched, outcome
  <2>4. ASSUME NEW t \in Tab PROVE Removable(t)'
    BY <2>1 DEF History, Removable
  <2>5. ASSUME NEW t \in Tab PROVE Holding(t)'
    BY <1>1 DEF History, Holding, vars, locks
  <2>6. ASSUME NEW t \in Tab PROVE Answered(t)'
    BY <2>1 DEF History, Answered, outcome
  <2> QED
    BY <2>2, <2>3, <2>4, <2>5, <2>6 DEF History
<1>2. ASSUME NEW t \in Tab, StepOf(t) PROVE History'
  <2>1. \A u \in Tab : UpToDate(u)'
    BY <1>2, UpToDateStep DEF History
  <2>2. \A u \in Tab : Told(u)'
    BY <1>2, ToldStep DEF History, IInv
  <2>3. \A u \in Tab : Removable(u)'
    BY <1>2, RemovableStep DEF History
  <2>4. \A u \in Tab : Holding(u)'
    BY <1>2, HoldingStep DEF History
  <2>5. \A u \in Tab : Answered(u)'
    BY <1>2, AnsweredStep DEF History, IInv
  <2> QED
    BY <2>1, <2>2, <2>3, <2>4, <2>5 DEF History
<1> QED
  BY <1>1, <1>2 DEF Next, StepOf

LEMMA HistoryHolds == Spec => [](IInv /\ History)
<1>1. Init => IInv /\ History
  <2> SUFFICES ASSUME Init PROVE IInv /\ History
    OBVIOUS
  <2>1. \A t \in Tab : Removable(t)
    BY DEF Init, Removable
  <2>2. \A t \in Tab : Holding(t) /\ Answered(t)
    BY ServiceAssumption DEF Init, Holding, Answered
  <2> QED
    BY <2>1, <2>2, IInvInit, UpToDateInit, ToldInit DEF History
<1>2. IInv /\ History /\ [Next]_vars => (IInv /\ History)'
  BY IInvStep, HistoryStep
<1> QED
  BY <1>1, <1>2, PTL DEF Spec

\* A save admitted on the version its tab shows writes over nothing that tab has not
\* seen: loadLayout reads the version first, and only a COMMIT moves a widget.
THEOREM NoSaveOverwritesUnseen == Spec => []NoLostUpdate
<1>1. IInv /\ History => NoLostUpdate
  <2> SUFFICES ASSUME IInv, History, NEW t \in Tab,
                      Admitted(t), base[t].complete, base[t].version = want[t].version
               PROVE  /\ base[t].placed = placed
                      /\ \A w \in OnPage(rows) \cap OnPage(base[t].rows) :
                            base[t].rows[w] = rows[w]
    BY DEF NoLostUpdate
  <2>1. want[t].version = version /\ version # 0
    BY DEF IInv, TabInv, LocksHeld, Admitted
  <2>2. base[t].version = Current
    BY <2>1 DEF Current
  <2> QED
    BY <2>2 DEF History, UpToDate, SeenRows
<1> QED
  BY <1>1, HistoryHolds, PTL

\* A step that neither audits anything nor answers 200 or 201.
Silent(t) == /\ audited'[t] => audited[t]
             /\ answer'[t] = answer[t] \/ answer'[t] # "ok"

\* Only four steps of a request may tell of a success.
LEMMA SilentSteps ==
    ASSUME TypeOK, NEW t \in Tab, Told(t), StepOf(t),
           ~LoadItems(t), ~Commit(t), ~InsertWidget(t), ~DeleteWidget(t)
    PROVE  Silent(t)
<1>1. ASSUME NEW a, a # "ok", Finish(t, a), UNCHANGED audited
      PROVE  Silent(t)
  BY <1>1 DEF TypeOK, Finish, Settle, Silent
<1>2. ASSUME UNCHANGED <<answer, audited>>
      PROVE  Silent(t)
  BY <1>2 DEF Silent
<1>3. ASSUME NEW e, Abort(t, e) PROVE Silent(t)
  BY <1>2, <1>3 DEF Abort
<1>4. CASE Request(t)
  BY <1>4 DEF Request, StartLoad, StartSave, StartAdd, StartRemove, Begin, TypeOK, Silent
<1>5. CASE LoadVersion(t) \/ LoadRows(t) \/ EditLockHeld(t) \/ CreateVersionRow(t)
           \/ FindPosition(t) \/ UnplaceBackground(t) \/ PlaceBackground(t)
  BY <1>2, <1>5 DEF LoadVersion, LoadRows, EditLockHeld, CreateVersionRow, FindPosition,
                    UnplaceBackground, PlaceBackground, outcome
<1>6. CASE EditLockRefused(t) \/ LookupKey(t) \/ LookupWidget(t) \/ CommitFails(t)
  BY <1>1, <1>2, <1>6 DEF EditLockRefused, LookupKey, LookupWidget, CommitFails
<1>7. CASE CompareAndSwap(t) \/ SelectRows(t) \/ SelectBackground(t)
  BY <1>2, <1>3, <1>7 DEF CompareAndSwap, SelectRows, SelectBackground, outcome
<1>8. CASE MirrorRows(t) \/ PlaceWidget(t) \/ UnmirrorRows(t)
  BY <1>2, <1>3, <1>8 DEF MirrorRows, PlaceWidget, UnmirrorRows, UpdateRows, outcome
<1>9. CASE Rollback(t)
  <2>1. pc[t] = "rollback"
    BY <1>9 DEF Rollback
  <2>2. verdict[t] # "ok"
    BY <2>1 DEF Told, Loads, Untouched
  <2> QED
    BY <1>1, <1>2, <1>9, <2>2 DEF Rollback
<1>10. CASE StatementFails(t) \/ LockWaitTimeout(t)
  <2>1. AutocommitFails(t) => Silent(t)
    BY <1>1 DEF AutocommitFails
  <2> QED
    BY <1>3, <1>10, <2>1 DEF StatementFails, LockWaitTimeout
<1>11. CASE Watchdog(t) \/ WatchdogRace(t)
  BY <1>11 DEF Watchdog, WatchdogRace, Settle, TypeOK, Silent
<1> QED
  BY <1>4, <1>5, <1>6, <1>7, <1>8, <1>9, <1>10, <1>11
  DEF StepOf, Outside, Read, Widget, InTransaction

\* The other four tell it of what is so.
LEMMA SuccessSteps ==
    ASSUME TypeOK, NEW t \in Tab, Told(t), Removable(t),
           LoadItems(t) \/ Commit(t) \/ InsertWidget(t) \/ DeleteWidget(t)
    PROVE  LET done == applied'[t] \/ (target[t] # 0 /\ rows'[target[t]] = NoRow) IN
           /\ audited'[t] /\ ~audited[t] => done
           /\ answer[t] = "none" /\ answer'[t] = "ok" /\ ~OnlyReads(t) =>
                 audited'[t] /\ done
<1> DEFINE done == applied'[t] \/ (target[t] # 0 /\ rows'[target[t]] = NoRow)
<1>1. CASE LoadItems(t)
  <2>1. /\ pc[t] = "load_items" /\ UNCHANGED <<applied, audited>>
        /\ Finish(t, IF verdict[t] = "none" THEN "ok" ELSE verdict[t])
    BY <1>1 DEF LoadItems
  <2>2. answer[t] = "none" /\ answer'[t] = "ok" /\ ~OnlyReads(t) => verdict[t] = "ok"
    BY <2>1 DEF Finish, Settle, TypeOK, OnlyReads
  <2> QED
    BY <2>1, <2>2 DEF Told
<1>2. CASE Commit(t)
  <2>1. applied'[t]
    BY <1>2 DEF Commit, CommitApplied, TypeOK
  <2>2. audited'[t] \/ (settled[t] /\ Finish(t, "none"))
    BY <1>2 DEF Commit, TypeOK
  <2> QED
    BY <2>1, <2>2 DEF Finish, Settle, TypeOK
<1>3. CASE InsertWidget(t)
  <2>1. CASE UNCHANGED audited /\ (Finish(t, "conflict") \/ Finish(t, "unavailable"))
    BY <2>1 DEF Finish, Settle, TypeOK
  <2>2. CASE applied' = [applied EXCEPT ![t] = TRUE] /\ WidgetWritten(t)
    BY <2>2 DEF WidgetWritten, Finish, Settle, TypeOK
  <2> QED
    BY <1>3, <2>1, <2>2 DEF InsertWidget
<1>4. CASE DeleteWidget(t)
  <2>1. target[t] \in WidgetId /\ target[t] # 0
    BY <1>4, LayoutAssumption DEF DeleteWidget, Removable, TypeOK
  <2>2. rows'[target[t]] = NoRow /\ WidgetWritten(t)
    BY <1>4, <2>1 DEF DeleteWidget, TypeOK, Page
  <2> QED
    BY <2>1, <2>2 DEF WidgetWritten, Finish, Settle, TypeOK
<1> QED
  BY <1>1, <1>2, <1>3, <1>4

\* A client of a save, an add or a removal is told of a success only for what is audited
\* and done, and of a refusal only for what is neither; nothing is audited that is not
\* done; whatever fails, times out or is lost.
THEOREM ClientsAreToldTheTruth == Spec => AnswersTruthful
<1> DEFINE Truthful(t) ==
        LET done == applied'[t] \/ (target[t] # 0 /\ rows'[target[t]] = NoRow) IN
        /\ audited'[t] /\ ~audited[t] => done
        /\ answer[t] = "none" /\ answer'[t] = "ok" /\ ~OnlyReads(t) => audited'[t] /\ done
        /\ answer'[t] \in Refusals => ~applied'[t] /\ ~audited'[t]
<1>1. IInv /\ History /\ History' /\ [Next]_vars => [\A t \in Tab : Truthful(t)]_vars
  <2> SUFFICES ASSUME IInv, History, History', NEW t \in Tab, StepOf(t), NEW u \in Tab
               PROVE  Truthful(u)
    BY DEF Next, StepOf
  <2>0. TypeOK /\ Told(u) /\ Removable(u) /\ Told(u)'
    BY DEF IInv, History
  <2>1. answer'[u] \in Refusals => ~applied'[u] /\ ~audited'[u]
    BY <2>0 DEF Told, Untouched
  <2>2. CASE u # t
    <3>1. audited'[u] = audited[u] /\ answer'[u] = answer[u]
      BY <2>0, <2>2, OutcomesAreOwn DEF OutcomeOf
    <3> QED
      BY <2>1, <3>1
  <2>3. CASE u = t
    <3>1. CASE LoadItems(t) \/ Commit(t) \/ InsertWidget(t) \/ DeleteWidget(t)
      BY <2>0, <2>1, <2>3, <3>1, SuccessSteps
    <3>2. CASE ~(LoadItems(t) \/ Commit(t) \/ InsertWidget(t) \/ DeleteWidget(t))
      <4>1. Silent(t)
        BY <2>0, <2>3, <3>2, SilentSteps
      <4> QED
        BY <2>1, <2>3, <4>1 DEF Silent
    <3> QED
      BY <3>1, <3>2
  <2> QED
    BY <2>2, <2>3
<1> QED
  BY <1>1, HistoryHolds, PTL DEF Spec, AnswersTruthful

\* Nobody who holds a row lock waits for one, so requests cannot deadlock on them: the
\* compare-and-swap comes first, only its holder asks for the layout rows, and every end
\* of a transaction that was not left open gives both back.
THEOREM LocksCannotDeadlock == Spec => []HoldersNeverWait
<1>1. IInv /\ History => HoldersNeverWait
  <2> SUFFICES ASSUME IInv, History, NEW t \in Tab, t \in {versionOwner, rowsOwner}
               PROVE  ~Waits(t)
    BY DEF HoldersNeverWait
  <2>1. /\ pc[t] \in (TxnStatement \ {"cas"}) \cup {"commit", "rollback", "stranded"}
        /\ versionOwner = t
    BY DEF History, Holding
  <2>2. CASE pc[t] = "select"
    <3>1. rowsOwner # t
      BY <2>2 DEF History, Holding, Validated
    <3>2. \A u \in Tab : rowsOwner = u => versionOwner = u
      BY DEF History, Holding
    <3>3. RowsFree
      BY <2>1, <3>1, <3>2 DEF IInv, TypeOK, RowsFree
    <3> QED
      BY <2>2, <3>3 DEF Waits
  <2> QED
    BY <2>1, <2>2 DEF Waits, TxnStatement
<1> QED
  BY <1>1, HistoryHolds, PTL

\* A request that is over was answered, and answered with something: the timer, the
\* abort and the COMMIT callback share one flag, and each that sets it answers.
THEOREM RequestsEndAnswered == Spec => EndsAnswered
<1> DEFINE Ending == \A t \in Tab :
                        pc[t] # "idle" /\ pc'[t] = "idle" => settled'[t] /\ answer'[t] # "none"
<1>1. IInv /\ History /\ [Next]_vars => [Ending]_vars
  <2> SUFFICES ASSUME IInv, History, NEW t \in Tab, StepOf(t),
                      NEW u \in Tab, pc[u] # "idle", pc'[u] = "idle"
               PROVE  settled'[u] /\ answer'[u] # "none"
    BY DEF Next, StepOf
  <2>1. TypeOK /\ Answered(u)
    BY DEF IInv, History
  <2>2. u = t
    BY <2>1, OutcomesAreOwn DEF OutcomeOf
  <2> QED
    BY <2>1, <2>2, AnswerSteps DEF AnswerStep, Answered
<1> QED
  BY <1>1, HistoryHolds, PTL DEF Spec, EndsAnswered

\* HomePage's operators are those of HomeLayout.
LEMMA SameOperators ==
    /\ Abstract!Page = Page /\ Abstract!Row = Row
    /\ \A p : Abstract!OnPage(p) = OnPage(p) /\ (Abstract!SlotsDistinct(p) <=> SlotsDistinct(p))
    /\ \A r : Abstract!Slot(r) = Slot(r)
BY DEF Abstract!Page, Abstract!Row, Abstract!Column, Abstract!OnPage, Abstract!SlotsDistinct,
       Abstract!Slot, Page, Row, Column, OnPage, SlotsDistinct, Slot

\* One step of the code is one step of HomePage, or leaves the page alone.
LEMMA StepRefines ==
    ASSUME IInv, History, [Next]_vars
    PROVE  [Abstract!Next]_(Abstract!vars)
<1> DEFINE Stutters == UNCHANGED Abstract!vars
<1>0. /\ TypeOK /\ rows \in Page /\ used \subseteq WidgetId /\ OnPage(rows) \subseteq used
  BY DEF IInv, TypeOK
<1>1. CASE UNCHANGED store \/ UNCHANGED vars
  BY <1>1 DEF vars, store, Abstract!vars
<1>2. CASE StoreCreated
  BY <1>2 DEF StoreCreated, Abstract!Next, Abstract!CreateVersionRow
<1>3. CASE StoreSaved
  <2>1. Abstract!Save
    BY <1>3, SameOperators DEF StoreSaved, Proper, Abstract!Save
  <2> QED
    BY <2>1 DEF Abstract!Next
<1>4. CASE StoreAdded
  <2>1. PICK w \in WidgetId \ used :
           /\ rows'[w] \in Row /\ rows'[w].position >= 0
           /\ \A v \in OnPage(rows) : Slot(rows[v]) # Slot(rows'[w])
           /\ rows' = [rows EXCEPT ![w] = rows'[w]]
           /\ UNCHANGED <<version, placed>>
    BY <1>4 DEF StoreAdded
  <2>2. rows[w] = NoRow
    BY <1>0, <2>1 DEF OnPage
  <2>3. Abstract!Add(w, rows'[w])
    BY <2>1, <2>2, SameOperators DEF Abstract!Add
  <2> QED
    BY <2>1, <2>3 DEF Abstract!Next
<1>5. ASSUME NEW t \in Tab, StoreRemoved(t) PROVE Stutters \/ Abstract!Next
  <2>1. /\ target[t] \in WidgetId
        /\ rows[target[t]] = NoRow \/ rows[target[t]].key # ProfileKey
        /\ rows' = [rows EXCEPT ![target[t]] = NoRow]
        /\ UNCHANGED <<version, placed>>
    BY <1>0, <1>5 DEF StoreRemoved, History, Removable
  <2>2. CASE rows[target[t]] = NoRow
    <3>1. rows' = rows
      BY <1>0, <2>1, <2>2 DEF Page
    <3> QED
      BY <2>1, <3>1 DEF Abstract!vars
  <2>3. CASE rows[target[t]] # NoRow
    <3>1. Abstract!Remove(target[t])
      BY <2>1, <2>3, SameOperators DEF Abstract!Remove, OnPage
    <3> QED
      BY <2>1, <3>1 DEF Abstract!Next
  <2> QED
    BY <2>2, <2>3
<1>6. CASE \E t \in Tab : StepOf(t)
  BY <1>1, <1>2, <1>3, <1>4, <1>5, <1>6, StoreSteps
<1> QED
  BY <1>1, <1>6 DEF Next, StepOf

\* However the statements of saves, adds and removes interleave, fail and wait, the home
\* changes as HomePage says: in whole valid steps, the version with the rows.
THEOREM ServiceRefinesHomePage == Spec => ImplementsHomePage
<1>1. Init => Abstract!Init
  <2> SUFFICES ASSUME Init PROVE Abstract!Init
    OBVIOUS
  <2>1. rows \in Page /\ Proper(rows) /\ version \in {0, 1} /\ placed = {}
    BY IInvInit DEF Init, IInv, TypeOK
  <2> QED
    BY <2>1, SameOperators DEF Proper, Abstract!Init
<1>2. IInv /\ History /\ [Next]_vars => [Abstract!Next]_(Abstract!vars)
  BY StepRefines
<1> QED
  BY <1>1, <1>2, HistoryHolds, PTL DEF Spec, ImplementsHomePage, Abstract!Spec

=============================================================================
