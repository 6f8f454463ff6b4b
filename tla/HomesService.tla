----------------------------- MODULE HomesService -----------------------------
(***************************************************************************)
(* One home, edited from several browser tabs of its owner, as              *)
(* HomesService and HomesController run it: every request is a chain of      *)
(* statements, each a step of its own, and requests interleave between       *)
(* statements.  Loads and the widget routes run autocommitted statements; a  *)
(* save runs in a transaction that holds InnoDB row locks and whose writes    *)
(* (work[t]) reach the page only at COMMIT.  Requests refused before any      *)
(* statement (not the owner, no version, an unknown key) are left out.       *)
(*                                                                         *)
(* Some definitions are preceded by a variant of theirs with a mistake such   *)
(* a program could make; the properties below tell the two apart.            *)
(***************************************************************************)
EXTENDS HomeLayout, FiniteSets

CONSTANTS
    Tab,             \* browser tabs (or API clients) of the owner
    Nobody,          \* a row lock nobody holds
    Background,      \* background items in the owner's inventory
    ForeignItem,     \* an item that exists but is not such a background
    MissingItem,     \* an item id with no row
    NoBackground,    \* background_item_id absent from the body
    InitialPages,    \* the pages a home can start with
    ApiSaves,        \* the saves that clients other than the editor send
    MaxVersion,      \* bound: the versions a request may name
    Routes,          \* the operations the clients use
    Mishaps          \* what may go wrong: see MishapKinds

Item == Background \cup {ForeignItem, MissingItem, NoBackground}

MishapKinds == {
    "error",        \* a statement fails, for a reason of the database's own
    "lost",         \* a write is committed but the connection is lost after it
    "watchdog",     \* the timer of a save fires before the save is done
    "strand"}       \* dropping a transaction after rollback() leaves it open

ASSUME ServiceAssumption ==
    /\ Nobody \notin Tab
    /\ {ForeignItem, MissingItem, NoBackground} \cap Background = {}
    /\ NoBackground \notin {ForeignItem, MissingItem}
    /\ ForeignItem # MissingItem
    /\ ApiSaves \subseteq [placements : Seq(Placement), background : Item]
    /\ MaxVersion \in Nat
    /\ Routes \subseteq {"load", "save", "add", "remove"}
    /\ Mishaps \subseteq MishapKinds
    /\ \A page \in InitialPages :
          /\ page \in Page
          /\ SlotsDistinct(page)
          /\ \A w \in OnPage(page) : page[w].position \in 0..MaxPosition

VARIABLES
    \* MariaDB, committed
    rows, used, version, placed,
    \* InnoDB: who holds the version row, who holds the layout rows
    versionOwner, rowsOwner,
    \* each request: where it is, what it asks for, its transaction's own view
    pc, want, index, work, row, target,
    \* each request's outcome
    verdict, answer, settled, applied, audited,
    \* each tab: the layout being read, and the layout it shows
    reading, base

store == <<rows, used, version, placed>>
locks == <<versionOwner, rowsOwner>>
asked == <<want, row, target>>
txn == <<index, work>>
outcome == <<verdict, answer, settled, applied, audited>>
client == <<reading, base>>
vars == <<store, locks, pc, asked, txn, outcome, client>>

\* A statement that runs inside the transaction.
TxnStatement == {"cas", "select", "bg_select", "mirror", "bg_unplace",
                 "bg_place", "place", "unmirror"}
AutocommitStatement == {"version_row", "load_version", "load_rows", "load_items",
                        "add_lookup", "add_position", "add_insert",
                        "rm_lookup", "rm_delete"}
PcValues == TxnStatement \cup AutocommitStatement
                \cup {"idle", "verify", "commit", "rollback", "stranded"}

SaveRequest == [version : Nat, placements : Seq(Placement), background : Item]
NoRequest == [version |-> 0, placements |-> <<>>, background |-> NoBackground]

\* A layout as a load reads it, in three statements.
Layout == [version : Nat, rows : Page, placed : SUBSET Background, complete : BOOLEAN]
EmptyPage == [w \in WidgetId |-> NoRow]
NoLayout == [version |-> 0, rows |-> EmptyPage, placed |-> {}, complete |-> FALSE]

View == [rows : Page, placed : SUBSET Background]
NoView == [rows |-> EmptyPage, placed |-> {}]

Answers == {"none", "ok", "invalid", "denied", "missing", "conflict", "locked",
            "unavailable"}

\* The layout rows of the home are free for another session's INSERT or DELETE.
\* (RowsNeverLocked: a SELECT without FOR UPDATE.)
RowsNeverLocked == TRUE
RowsFree == rowsOwner = Nobody

TypeOK ==
    /\ rows \in Page /\ used \subseteq WidgetId /\ OnPage(rows) \subseteq used
    /\ version \in Nat /\ placed \subseteq Background
    /\ versionOwner \in Tab \cup {Nobody} /\ rowsOwner \in Tab \cup {Nobody}
    /\ pc \in [Tab -> PcValues]
    /\ want \in [Tab -> SaveRequest]
    /\ index \in [Tab -> Nat]
    /\ work \in [Tab -> View]
    /\ row \in [Tab -> Row \cup {NoRow}]
    /\ target \in [Tab -> WidgetId \cup {0}]
    /\ verdict \in [Tab -> Answers]
    /\ answer \in [Tab -> Answers]
    /\ settled \in [Tab -> BOOLEAN]
    /\ applied \in [Tab -> BOOLEAN] /\ audited \in [Tab -> BOOLEAN]
    /\ reading \in [Tab -> Layout] /\ base \in [Tab -> Layout]

Init ==
    /\ rows \in InitialPages /\ used = OnPage(rows)
    /\ version \in {0, 1} /\ placed = {}
    /\ versionOwner = Nobody /\ rowsOwner = Nobody
    /\ pc = [t \in Tab |-> "idle"]
    /\ want = [t \in Tab |-> NoRequest]
    /\ index = [t \in Tab |-> 0]
    /\ work = [t \in Tab |-> NoView]
    /\ row = [t \in Tab |-> NoRow]
    /\ target = [t \in Tab |-> 0]
    /\ verdict = [t \in Tab |-> "none"]
    /\ answer = [t \in Tab |-> "none"]
    /\ settled = [t \in Tab |-> TRUE]
    /\ applied = [t \in Tab |-> FALSE] /\ audited = [t \in Tab |-> FALSE]
    /\ reading = [t \in Tab |-> NoLayout] /\ base = [t \in Tab |-> NoLayout]

-----------------------------------------------------------------------------
(* Steps every request shares.                                              *)

Goto(t, where) == pc' = [pc EXCEPT ![t] = where]

\* A new request of a tab: no answer yet, nothing written yet.
Begin(t, where) ==
    /\ pc[t] = "idle"
    /\ Goto(t, where)
    /\ UNCHANGED verdict
    /\ answer' = [answer EXCEPT ![t] = "none"]
    /\ settled' = [settled EXCEPT ![t] = FALSE]
    /\ applied' = [applied EXCEPT ![t] = FALSE]
    /\ audited' = [audited EXCEPT ![t] = FALSE]

\* Answer the request, unless it was answered before (the `settled` flag).
Settle(t, a) ==
    /\ settled' = [settled EXCEPT ![t] = TRUE]
    /\ answer' = IF settled[t] THEN answer ELSE [answer EXCEPT ![t] = a]

\* The request is over; what it asked for is forgotten.
Finish(t, a) ==
    /\ Settle(t, a)
    /\ Goto(t, "idle")
    /\ verdict' = [verdict EXCEPT ![t] = "none"]
    /\ want' = [want EXCEPT ![t] = NoRequest]
    /\ row' = [row EXCEPT ![t] = NoRow]
    /\ target' = [target EXCEPT ![t] = 0]
    /\ reading' = [reading EXCEPT ![t] = NoLayout]
    /\ index' = [index EXCEPT ![t] = 0]
    /\ work' = [work EXCEPT ![t] = NoView]

\* (LocksKept: the transaction is never dropped.)
LocksKept(t) == UNCHANGED <<versionOwner, rowsOwner>>
ReleaseLocks(t) ==
    /\ versionOwner' = IF versionOwner = t THEN Nobody ELSE versionOwner
    /\ rowsOwner' = IF rowsOwner = t THEN Nobody ELSE rowsOwner

(* What is left of a request is the load its response carries. *)
Reload(t, v) ==
    /\ Goto(t, "load_version")
    /\ verdict' = [verdict EXCEPT ![t] = v]
    /\ want' = [want EXCEPT ![t] = NoRequest]
    /\ index' = [index EXCEPT ![t] = 0]
    /\ work' = [work EXCEPT ![t] = NoView]

-----------------------------------------------------------------------------
(* GET: loadLayout reads the version, then the rows, then the placed items.  *)
(* The same chain ends a saved or a conflicting PUT.                         *)

StartLoad(t) ==
    /\ "load" \in Routes
    /\ Begin(t, "load_version")
    /\ UNCHANGED <<store, locks, asked, txn, client>>

LoadVersion(t) ==
    /\ pc[t] = "load_version"
    /\ reading' = [reading EXCEPT ![t].version = IF version = 0 THEN 1 ELSE version]
    /\ Goto(t, "load_rows")
    /\ UNCHANGED <<store, locks, asked, txn, outcome, base>>

LoadRows(t) ==
    /\ pc[t] = "load_rows"
    /\ reading' = [reading EXCEPT ![t].rows = rows]
    /\ Goto(t, "load_items")
    /\ UNCHANGED <<store, locks, asked, txn, outcome, base>>

\* (VersionReadLast: the version is read after the rows, not before.)
VersionReadLast(t) ==
    [reading[t] EXCEPT !.version = version, !.placed = placed, !.complete = TRUE]
Loaded(t) == [reading[t] EXCEPT !.placed = placed, !.complete = TRUE]

LoadItems(t) ==
    /\ pc[t] = "load_items"
    /\ base' = [base EXCEPT ![t] = Loaded(t)]
    /\ Finish(t, IF verdict[t] = "none" THEN "ok" ELSE verdict[t])
    /\ UNCHANGED <<store, locks, applied, audited>>

-----------------------------------------------------------------------------
(* The edits: the controller and the service settle the edit lock first.     *)

StartSave(t, v, save) ==
    /\ "save" \in Routes
    /\ Begin(t, "verify")
    /\ want' = [want EXCEPT ![t] = [version |-> v, placements |-> save.placements,
                                   background |-> save.background]]
    /\ UNCHANGED <<store, locks, row, target, txn, client>>

StartAdd(t, key, column) ==
    /\ "add" \in Routes
    /\ Begin(t, "verify")
    /\ row' = [row EXCEPT ![t] = [key |-> key, column |-> column, position |-> 0]]
    /\ UNCHANGED <<store, locks, want, target, txn, client>>

StartRemove(t, w) ==
    /\ "remove" \in Routes
    /\ Begin(t, "verify")
    /\ target' = [target EXCEPT ![t] = w]
    /\ UNCHANGED <<store, locks, want, row, txn, client>>

\* verifyEditLock for a save, acquireEditLock for a widget: the key in Redis may
\* expire at any time, so either answer may come.
EditLockHeld(t) ==
    /\ pc[t] = "verify"
    /\ Goto(t, IF row[t] # NoRow THEN "add_lookup"
               ELSE IF target[t] # 0 THEN "rm_lookup" ELSE "version_row")
    /\ UNCHANGED <<store, locks, asked, txn, outcome, client>>

\* When Redis fails, the widget routes say so; a save is told the lock is not held.
EditLockRefused(t) ==
    /\ pc[t] = "verify"
    /\ \/ Finish(t, "locked")
       \/ /\ "error" \in Mishaps
          /\ row[t] # NoRow \/ target[t] # 0
          /\ Finish(t, "unavailable")
    /\ UNCHANGED <<store, locks, applied, audited, base>>

-----------------------------------------------------------------------------
(* PUT: the save.  TxnSteps runs the statements in the order below; a step   *)
(* that refuses queues ROLLBACK and drops the rest.                          *)

Abort(t, e) ==
    /\ Goto(t, "rollback")
    /\ verdict' = [verdict EXCEPT ![t] = e]
    /\ UNCHANGED <<answer, settled, applied, audited>>

\* (CreatedInTransaction: as the transaction's first statement, it keeps its lock, which
\* the UPDATE then cannot have.)
CreatedInTransaction(t) ==
    /\ pc[t] = "version_row"
    /\ versionOwner = Nobody
    /\ versionOwner' = t
    /\ version' = IF version = 0 THEN 1 ELSE version
    /\ Goto(t, "cas")
    /\ UNCHANGED <<rows, used, placed, rowsOwner, asked, txn, outcome, client>>

\* INSERT IGNORE, autocommitted; its duplicate check waits for the row's lock.
CreateVersionRow(t) ==
    /\ pc[t] = "version_row"
    /\ versionOwner = Nobody
    /\ version' = IF version = 0 THEN 1 ELSE version
    /\ Goto(t, "cas")
    /\ UNCHANGED <<rows, used, placed, locks, asked, txn, outcome, client>>

\* UPDATE ... WHERE version = ? has changed a row.
\* (VersionUnchecked: the same without the condition on the version.)
VersionUnchecked(t) == TRUE
VersionMatches(t) == version = want[t].version

\* The UPDATE locks the version row whether or not the version matched.
CompareAndSwap(t) ==
    /\ pc[t] = "cas"
    /\ versionOwner = Nobody
    /\ versionOwner' = t
    /\ IF VersionMatches(t)
       THEN Goto(t, "select") /\ UNCHANGED outcome
       ELSE Abort(t, "conflict")
    /\ UNCHANGED <<store, rowsOwner, asked, txn, client>>

SelectRows(t) ==
    LET fault == ValidatePlacements(want[t].placements, rows) IN
    /\ pc[t] = "select"
    /\ RowsFree
    /\ rowsOwner' = t
    /\ work' = [work EXCEPT ![t] = [rows |-> rows, placed |-> placed]]
    /\ IF fault # "none" THEN Abort(t, fault)
       ELSE /\ Goto(t, IF want[t].background = NoBackground THEN "mirror"
                       ELSE "bg_select")
            /\ UNCHANGED outcome
    /\ UNCHANGED <<store, versionOwner, asked, index, client>>

SelectBackground(t) ==
    /\ pc[t] = "bg_select"
    /\ CASE want[t].background = MissingItem -> Abort(t, "missing")
         [] want[t].background = ForeignItem -> Abort(t, "denied")
         [] OTHER -> Goto(t, "mirror") /\ UNCHANGED outcome
    /\ UNCHANGED <<store, locks, asked, txn, client>>

\* An UPDATE of the layout rows; the UNIQUE index may refuse it.
UpdateRows(t, page, next) ==
    /\ IF Clash(work[t].rows, page)
       THEN Abort(t, "unavailable") /\ UNCHANGED work
       ELSE /\ work' = [work EXCEPT ![t].rows = page]
            /\ Goto(t, next)
            /\ UNCHANGED outcome
    /\ UNCHANGED <<store, locks, asked, client>>

\* What follows the first n placements.
\* (SkipsTheLast: an off-by-one leaves the last placement out.)
SkipsTheLast(t, n) == IF n + 1 < Len(want[t].placements) THEN "place" ELSE "unmirror"
NextPlacement(t, n) == IF n < Len(want[t].placements) THEN "place" ELSE "unmirror"

MirrorRows(t) ==
    /\ pc[t] = "mirror"
    /\ UpdateRows(t, Mirror(work[t].rows),
                  IF want[t].background = NoBackground THEN NextPlacement(t, 0)
                  ELSE "bg_unplace")
    /\ UNCHANGED index

UnplaceBackground(t) ==
    /\ pc[t] = "bg_unplace"
    /\ work' = [work EXCEPT ![t].placed = {}]
    /\ Goto(t, "bg_place")
    /\ UNCHANGED <<store, locks, asked, index, outcome, client>>

PlaceBackground(t) ==
    /\ pc[t] = "bg_place"
    /\ work' = [work EXCEPT ![t].placed = @ \cup {want[t].background}]
    /\ Goto(t, NextPlacement(t, 0))
    /\ UNCHANGED <<store, locks, asked, index, outcome, client>>

PlaceWidget(t) ==
    /\ pc[t] = "place"
    /\ index' = [index EXCEPT ![t] = @ + 1]
    /\ UpdateRows(t, Place(work[t].rows, want[t].placements[index[t] + 1]),
                  NextPlacement(t, index[t] + 1))

UnmirrorRows(t) ==
    /\ pc[t] = "unmirror"
    /\ UpdateRows(t, Unmirror(work[t].rows), "commit")
    /\ UNCHANGED index

\* The last reference to the transaction is dropped, which queues COMMIT; its
\* callback answers and audits unless the request was answered already.
CommitApplied(t) ==
    /\ rows' = work[t].rows
    /\ placed' = work[t].placed
    /\ version' = want[t].version + 1
    /\ applied' = [applied EXCEPT ![t] = TRUE]

Commit(t) ==
    /\ pc[t] = "commit"
    /\ CommitApplied(t)
    /\ IF settled[t] THEN Finish(t, "none") /\ UNCHANGED audited
       ELSE /\ audited' = [audited EXCEPT ![t] = TRUE]
            /\ Reload(t, "ok")
            /\ UNCHANGED <<answer, settled, row, target, reading>>
    /\ ReleaseLocks(t)
    /\ UNCHANGED <<used, base>>

\* (CommitUnchecked: the callback does not look at `committed`.)
CommitUnchecked(t) ==
    /\ pc[t] = "commit"
    /\ "error" \in Mishaps
    /\ audited' = [audited EXCEPT ![t] = TRUE]
    /\ Reload(t, "ok")
    /\ ReleaseLocks(t)
    /\ UNCHANGED <<store, answer, settled, applied, row, target, client>>

\* The commit callback is told FALSE: either nothing was committed, or the
\* connection was lost after it was.
CommitFails(t) ==
    /\ pc[t] = "commit"
    /\ \/ /\ "lost" \in Mishaps
          /\ CommitApplied(t)
       \/ /\ "error" \in Mishaps
          /\ UNCHANGED <<rows, version, placed, applied>>
    /\ Finish(t, "unavailable")
    /\ ReleaseLocks(t)
    /\ UNCHANGED <<used, audited, base>>

\* ROLLBACK ran: finishAbort reports the refusal.  A conflict is answered with
\* the layout as it is now.
Rollback(t) ==
    /\ pc[t] = "rollback"
    /\ ReleaseLocks(t)
    /\ IF verdict[t] = "conflict" /\ ~settled[t]
       THEN Reload(t, "conflict") /\ UNCHANGED <<answer, settled, row, target, reading>>
       ELSE Finish(t, verdict[t])
    /\ UNCHANGED <<store, applied, audited, base>>

-----------------------------------------------------------------------------
(* POST and DELETE of a widget: autocommitted statements, no version.        *)

LookupKey(t) ==
    /\ pc[t] = "add_lookup"
    /\ IF \E w \in OnPage(rows) : rows[w].key = row[t].key
       THEN Finish(t, "conflict")
       ELSE /\ Goto(t, "add_position")
            /\ UNCHANGED <<verdict, answer, settled, asked, txn, reading>>
    /\ UNCHANGED <<store, locks, applied, audited, base>>

\* COALESCE(MAX(position), -1) + 1 over the column: the one position above all
\* of the column's, among 0 and the positions after one of them.
InColumn(column) == {w \in OnPage(rows) : rows[w].column = column}

FindPosition(t) ==
    LET widgets == InColumn(row[t].column) IN
    /\ pc[t] = "add_position"
    /\ \E bottom \in {0} \cup {rows[w].position + 1 : w \in widgets} :
          /\ \A w \in widgets : rows[w].position < bottom
          /\ row' = [row EXCEPT ![t].position = bottom]
    /\ Goto(t, "add_insert")
    /\ UNCHANGED <<store, locks, want, target, txn, outcome, client>>

\* The UNIQUE index has a row at the slot of the INSERT.
\* (NoUniqueIndex: the schema was created without the index.)
NoUniqueIndex(t) == FALSE
SlotTaken(t) == \E w \in OnPage(rows) : Slot(rows[w]) = Slot(row[t])

\* The write of a widget route ran: it is audited and answered, unless its answer
\* was lost, which the route takes for a failure.
WidgetWritten(t) ==
    \/ Finish(t, "ok") /\ audited' = [audited EXCEPT ![t] = TRUE]
    \/ "lost" \in Mishaps /\ Finish(t, "unavailable") /\ UNCHANGED audited

\* The INSERT waits for a save's gap locks; the index refuses a taken slot.
\* (With every id of WidgetId used, the bounded model refuses it as well.)
InsertWidget(t) ==
    /\ pc[t] = "add_insert"
    /\ RowsFree
    /\ \/ /\ SlotTaken(t)
          /\ Finish(t, "conflict")
          /\ UNCHANGED <<rows, used, applied, audited>>
       \/ /\ used = WidgetId
          /\ Finish(t, "unavailable")
          /\ UNCHANGED <<rows, used, applied, audited>>
       \/ /\ ~SlotTaken(t)
          /\ \E w \in WidgetId \ used :
                /\ rows' = [rows EXCEPT ![w] = row[t]]
                /\ used' = used \cup {w}
          /\ applied' = [applied EXCEPT ![t] = TRUE]
          /\ WidgetWritten(t)
    /\ UNCHANGED <<version, placed, locks, base>>

LookupWidget(t) ==
    /\ pc[t] = "rm_lookup"
    /\ CASE rows[target[t]] = NoRow -> Finish(t, "missing")
         [] rows[target[t]] # NoRow /\ rows[target[t]].key = ProfileKey ->
                Finish(t, "denied")
         [] OTHER -> /\ Goto(t, "rm_delete")
                     /\ UNCHANGED <<verdict, answer, settled, asked, txn, reading>>
    /\ UNCHANGED <<store, locks, applied, audited, base>>

\* Answered and audited as removed even when the row is already gone: nobody looks
\* at how many rows the DELETE removed.
DeleteWidget(t) ==
    /\ pc[t] = "rm_delete"
    /\ RowsFree \/ rows[target[t]] = NoRow
    /\ rows' = [rows EXCEPT ![target[t]] = NoRow]
    /\ applied' = [applied EXCEPT ![t] = rows[target[t]] # NoRow]
    /\ WidgetWritten(t)
    /\ UNCHANGED <<used, version, placed, locks, base>>

-----------------------------------------------------------------------------
(* What goes wrong.                                                          *)

\* A statement outside a transaction failed: the request is refused, except
\* that a conflict whose fresh layout cannot be read is still a conflict.
AutocommitFails(t) ==
    /\ Finish(t, IF pc[t] \in {"load_version", "load_rows", "load_items"}
                    /\ verdict[t] = "conflict"
                 THEN "conflict" ELSE "unavailable")
    /\ UNCHANGED <<store, locks, applied, audited, base>>

\* A statement inside the transaction failed.  "Deadlock found" is reported as
\* a conflict whatever the statement was.
StatementFails(t) ==
    /\ "error" \in Mishaps
    /\ \/ pc[t] \in AutocommitStatement /\ AutocommitFails(t)
       \/ /\ pc[t] \in TxnStatement
          /\ \E e \in {"unavailable", "conflict"} : Abort(t, e)
          /\ UNCHANGED <<store, locks, asked, txn, client>>

\* A statement that waits for another session's row lock gives up.
LockWaitTimeout(t) ==
    \/ /\ \/ pc[t] = "version_row" /\ versionOwner # Nobody
          \/ pc[t] \in {"add_insert", "rm_delete"} /\ ~RowsFree
       /\ AutocommitFails(t)
    \/ /\ pc[t] = "cas" /\ versionOwner # Nobody
       /\ Abort(t, "conflict")
       /\ UNCHANGED <<store, locks, asked, txn, client>>

\* (SilentWatchdog: the transaction is released and nobody is told.)
SilentWatchdog(t) ==
    /\ "watchdog" \in Mishaps
    /\ pc[t] \in TxnStatement
    /\ Goto(t, "rollback")
    /\ UNCHANGED <<store, locks, asked, txn, outcome, client>>

\* kAbandonedSaveSeconds after start(): the caller is answered, rollback() is
\* called and the transaction dropped, which may leave it open.
Watchdog(t) ==
    /\ "watchdog" \in Mishaps
    /\ pc[t] \in TxnStatement \cup {"rollback"}
    /\ ~settled[t]
    /\ Settle(t, "unavailable")
    /\ \/ Goto(t, "rollback")
       \/ /\ "strand" \in Mishaps
          /\ pc[t] \in TxnStatement
          /\ Goto(t, "stranded")
    /\ UNCHANGED <<store, locks, asked, txn, verdict, applied, audited, client>>

\* done_ is not atomic: the timer's thread may have read it just before the
\* database's thread set it and queued the COMMIT.
WatchdogRace(t) ==
    /\ "watchdog" \in Mishaps
    /\ pc[t] = "commit"
    /\ ~settled[t]
    /\ Settle(t, "unavailable")
    /\ UNCHANGED <<store, locks, pc, asked, txn, verdict, applied, audited, client>>

-----------------------------------------------------------------------------
(* Clients.                                                                  *)

\* What a client sends: a save of its own, or the move of one widget on the
\* layout it shows, which leaves the background alone.
ClientSaves(t) ==
    ApiSaves \cup
        {[placements |-> PlacementsForMove(base[t].rows, w, column, position),
          background |-> NoBackground] :
            w \in OnPage(base[t].rows), column \in Column, position \in 0..MaxPosition}

Request(t) ==
    \/ StartLoad(t)
    \/ \E v \in 1..MaxVersion, save \in ClientSaves(t) : StartSave(t, v, save)
    \/ \E key \in WidgetKey, column \in Column : StartAdd(t, key, column)
    \/ \E w \in WidgetId : StartRemove(t, w)

Read(t) == LoadVersion(t) \/ LoadRows(t) \/ LoadItems(t)

InTransaction(t) ==
    \/ CompareAndSwap(t) \/ SelectRows(t) \/ SelectBackground(t) \/ MirrorRows(t)
    \/ UnplaceBackground(t) \/ PlaceBackground(t) \/ PlaceWidget(t) \/ UnmirrorRows(t)
    \/ Rollback(t)

Widget(t) ==
    \/ LookupKey(t) \/ FindPosition(t) \/ InsertWidget(t)
    \/ LookupWidget(t) \/ DeleteWidget(t)

Outside(t) ==
    \/ Read(t) \/ EditLockHeld(t) \/ EditLockRefused(t) \/ CreateVersionRow(t)
    \/ Widget(t) \/ Commit(t) \/ CommitFails(t) \/ LockWaitTimeout(t)

Next ==
    \E t \in Tab :
        \/ Request(t) \/ Outside(t) \/ InTransaction(t)
        \/ StatementFails(t) \/ Watchdog(t) \/ WatchdogRace(t)

Spec == Init /\ [][Next]_vars

-----------------------------------------------------------------------------
(* Safety.                                                                   *)

\* The committed page always obeys its index and never shows the negative
\* positions a save uses on the way: no reader meets a half-written save.
PageWellFormed ==
    /\ SlotsDistinct(rows)
    /\ \A w \in OnPage(rows) : rows[w].position >= 0

\* A validated save is never refused by the UNIQUE index, in whatever order its
\* placements come: mirroring first is what makes a swap possible.
SaveNeverClashes ==
    \A t \in Tab :
        /\ pc[t] = "mirror" => ~Clash(work[t].rows, Mirror(work[t].rows))
        /\ pc[t] = "place" =>
              ~Clash(work[t].rows,
                     Place(work[t].rows, want[t].placements[index[t] + 1]))
        /\ pc[t] = "unmirror" => ~Clash(work[t].rows, Unmirror(work[t].rows))

\* The compare-and-swap has passed and the transaction is not being ended.
Admitted(t) == pc[t] \in (TxnStatement \ {"cas"}) \cup {"commit"}

\* No lost update: a save admitted on the version its tab shows writes over
\* nothing the tab has not seen.  Every widget the tab shows that is still on
\* the page is where the tab shows it, and so is the background.  It needs
\* loadLayout to read the version BEFORE the rows it belongs to.
NoLostUpdate ==
    \A t \in Tab :
        Admitted(t) /\ base[t].complete /\ base[t].version = want[t].version =>
            /\ base[t].placed = placed
            /\ \A w \in OnPage(rows) \cap OnPage(base[t].rows) :
                    base[t].rows[w] = rows[w]

\* A statement of the request waits for a row lock that another session holds.
Waits(t) ==
    \/ pc[t] \in {"version_row", "cas"} /\ versionOwner # Nobody
    \/ pc[t] \in {"select", "add_insert"} /\ ~RowsFree
    \/ pc[t] = "rm_delete" /\ ~RowsFree /\ rows[target[t]] # NoRow

\* No two requests ever wait for each other: whoever holds a lock waits for none.
\* That is what the compare-and-swap as the FIRST statement is for (with the INSERT
\* IGNORE inside the transaction, two saves deadlocked); and no lock outlives its
\* transaction, or the next request of the same tab would wait for its own.
HoldersNeverWait ==
    \A t \in Tab : t \in {versionOwner, rowsOwner} => ~Waits(t)

\* A save that commits does so on the version it named, and leaves exactly the
\* page it asked for: the widgets it does not mention stay where they were,
\* however the page looked when the request came.
SavedAsAsked ==
    [][\A t \in Tab :
          pc[t] = "commit" /\ applied'[t] /\ ~applied[t] =>
              /\ want[t].version = version
              /\ version' = version + 1
              /\ rows' = FinalPage(want[t].placements, rows)
              /\ placed' = IF want[t].background = NoBackground THEN placed
                           ELSE {want[t].background}]_vars

Refusals == {"invalid", "denied", "missing", "conflict", "locked"}

\* A GET is answered with what it read and writes nothing.
OnlyReads(t) == pc[t] = "load_items" /\ verdict[t] = "none"

\* What a client is told is what happened, of saves, adds and removes.  200 and 201
\* come only to a write that is committed and audited, a refusal only to one that is
\* neither, and what is audited is so: written by this request, or, of a removal,
\* gone (the row may have been removed by another request between the lookup and
\* the DELETE).  503 may mean either.
AnswersTruthful ==
    [][\A t \in Tab :
          LET done == applied'[t] \/ (target[t] # 0 /\ rows'[target[t]] = NoRow) IN
          /\ audited'[t] /\ ~audited[t] => done
          /\ answer[t] = "none" /\ answer'[t] = "ok" /\ ~OnlyReads(t) =>
                audited'[t] /\ done
          /\ answer'[t] \in Refusals => ~applied'[t] /\ ~audited'[t]]_vars

\* A request never ends unanswered, whichever of the timer, the COMMIT callback and
\* the abort callback comes first and however the transaction is dropped.
EndsAnswered ==
    [][\A t \in Tab :
          pc[t] # "idle" /\ pc'[t] = "idle" =>
              settled'[t] /\ answer'[t] # "none"]_vars

\* The rows, the version and the background change as HomePage says.
Abstract == INSTANCE HomePage WITH rows <- rows, version <- version, placed <- placed
ImplementsHomePage == Abstract!Spec

-----------------------------------------------------------------------------
(* Liveness.                                                                 *)

\* A statement of the transaction may stay without an answer for ever; the
\* timer, the ROLLBACK and everything outside the transaction do not.
Progress(t) == Outside(t) \/ Rollback(t) \/ Watchdog(t)

FairSpec == Spec /\ \A t \in Tab : WF_vars(Progress(t))

\* Every request is answered, even when the chain of its transaction stops.
RequestsAnswered == \A t \in Tab : ~settled[t] ~> answer[t] # "none"

\* The version row does not stay locked and the next save gets its turn, unless the
\* timer left the transaction open.
ReleasedOrStranded ==
    \A t \in Tab : versionOwner = t ~> versionOwner # t \/ pc[t] = "stranded"

-----------------------------------------------------------------------------
(* Statements of the documents and comments that the code does not keep.     *)

\* docs/homes-layout-api.md: one of each widget key per home.
OneOfEachKey ==
    \A v, w \in OnPage(rows) : rows[v].key = rows[w].key => v = w

\* HomesService.cpp, on the timer of a save: "After the deadline the transaction is
\* rolled back and released", so the version row does not stay locked.
VersionRowReleased == versionOwner # Nobody ~> versionOwner = Nobody
=============================================================================
