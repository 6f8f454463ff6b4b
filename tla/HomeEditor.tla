------------------------------ MODULE HomeEditor ------------------------------
(***************************************************************************)
(* One tab of the home editor, from the layout it fetches to the drags it      *)
(* saves, and the edit lock its saves need.  The cached layout is changed by    *)
(* four hands: the fetch, the drag (at once, before the server has agreed), the *)
(* answer to a save, and its refusal.  Nothing orders them: two drags are two   *)
(* requests under way together, and what the lease, an added or a removed       *)
(* widget invalidates is fetched meanwhile.                                     *)
(*                                                                         *)
(* The server's side is that of HomePage, one step for each change of the rows;  *)
(* the lock is a key of Redis, and each of its commands is a step.  Another tab  *)
(* of the owner, who alone may edit, shares the lock and may save and close it.  *)
(*                                                                         *)
(* Some definitions are preceded by a variant of theirs with a mistake such   *)
(* a program could make; the properties below tell the two apart.            *)
(***************************************************************************)
EXTENDS HomeLayout

CONSTANTS
    NoLayout,
    InitialPages,   \* the rows at the start: one of these
    MaxDrags,       \* bound: drags of this tab
    MaxLeases,      \* bound: times this tab opens the editor
    MaxChanges,     \* bound: widgets this tab adds or removes, 0 or 1
    MaxTokens,      \* bound: tokens made
    MaxOthers,      \* bound: saves of the other tab
    MaxWork         \* bound: all of these drags, changes and saves together

ASSUME EditorAssumption ==
    /\ InitialPages \subseteq Page
    /\ \A p \in InitialPages :
          SlotsDistinct(p) /\ \A w \in OnPage(p) : p[w].position >= 0
    /\ \A n \in {MaxDrags, MaxLeases, MaxChanges, MaxTokens, MaxOthers, MaxWork} : n \in Nat
    /\ MaxChanges <= 1
    /\ MaxPlacements >= 2   \* two boxes change places in one save

VARIABLES
    rows, version,  \* the home in the database
    lock, issued,   \* the edit lock's token, 0 for none; the tokens made so far
    others,         \* saves of the other tab so far
    cache,          \* the query of the layout
    mode,           \* the route: HomePage in one of its modes, or another page
    token,          \* lockToken
    said,           \* saveMessage, conflictNotice: what they say of a drag
    drags, saves,   \* the drags so far and their mutations
    opened, leases, \* the edit sessions asked for
    closes,         \* the DELETEs under way, by token
    change,         \* the added or removed widget
    hurried         \* (ghost) something was started before the last thing was over

home == <<rows, version, others>>
redis == <<lock, issued>>
page == <<mode, token, said>>
leasing == <<opened, leases, closes>>
vars == <<home, redis, cache, page, drags, saves, leasing, change, hurried>>

Layout == [rows : Page, version : Nat]
ASSUME NoLayoutAssumption == NoLayout \notin Layout
LayoutOrNone == Layout \cup {NoLayout}
Shown == cache.data

Cache == [data : LayoutOrNone, error : BOOLEAN,
          fetch : {"idle", "asked", "served"}, got : LayoutOrNone]

\* at, with: the version and the token that are sent; previous: what the cache held;
\* got: the layout in the answer; loud: its callbacks will run; lost: the tab has
\* given it up, though the server may be at work on it; applied: ghost.
Save == [stage : {"none", "sent", "admitted", "applied", "stale",
                  "ok", "conflict", "locked", "invalid", "done"},
         at : Nat, with : 0..MaxTokens, move : Seq(Placement),
         previous : LayoutOrNone, got : LayoutOrNone,
         loud : BOOLEAN, lost : BOOLEAN, applied : BOOLEAN]
NoSave == [stage |-> "none", at |-> 0, with |-> 0, move |-> <<>>,
           previous |-> NoLayout, got |-> NoLayout,
           loud |-> FALSE, lost |-> FALSE, applied |-> FALSE]

Lease == [stage : {"none", "asked", "taken", "granted", "refused"},
          token : 0..MaxTokens, wanted : BOOLEAN]
NoLease == [stage |-> "none", token |-> 0, wanted |-> FALSE]

\* lost: as of a save; late: lost, and served afterwards.
Change == [stage : {"none", "sent", "settled", "done", "lost", "late"},
           op : {"add", "remove"}, w : WidgetId \cup {0}, key : WidgetKey]
NoChange == [stage |-> "none", op |-> "remove", w |-> 0, key |-> ProfileKey]

\* Other messages are left out; one that takes the place of "Saved." is "nothing".
Message == {"nothing", "saved", "conflict"}

NoClose == [sent |-> 0, matched |-> 0]

Init ==
    /\ rows \in InitialPages /\ version = 1 /\ others = 0
    \* The other tab may have opened the editor first.
    /\ lock \in {0, 1} /\ lock <= MaxOthers /\ lock <= MaxTokens /\ issued = lock
    /\ cache = [data |-> NoLayout, error |-> FALSE, fetch |-> "asked", got |-> NoLayout]
    /\ mode \in {"view", "edit"} /\ token = 0 /\ said = "nothing"
    /\ drags = 0 /\ saves = [i \in 1..MaxDrags |-> NoSave]
    /\ opened = 0 /\ leases = [i \in 1..MaxLeases |-> NoLease]
    /\ closes = [t \in 1..MaxTokens |-> NoClose]
    /\ change = NoChange
    /\ hurried = FALSE

\* The callbacks given to mutate() run for the last call of a mounted page alone.
\* (StillLoud: every answer has its say.)
StillLoud(save) == save
Silenced(save) == [save EXCEPT !.loud = FALSE]

Editor == mode = "edit" /\ Shown # NoLayout /\ ~cache.error
UnderWay(i) == saves[i].stage \notin {"none", "done"} /\ ~saves[i].lost
Busy ==
    \/ cache.fetch # "idle"
    \/ \E i \in 1..MaxDrags : UnderWay(i)
    \/ change.stage \in {"sent", "settled"}

\* The bound leaves room for one more.
Room == drags + others + (IF change.stage = "none" THEN 0 ELSE 1) < MaxWork

Current == [rows |-> rows, version |-> version]

-----------------------------------------------------------------------------
(* The layout: useHomeLayout.                                               *)

Asked(c) == [c EXCEPT !.fetch = "asked", !.got = NoLayout]

\* invalidateQueries: what is rendered is asked again, from the start if there is
\* a layout already.  (TakenAsFresh: the layout is not asked again.)
TakenAsFresh(c) == c
Invalidated(c) ==
    IF mode = "away" \/ (c.data = NoLayout /\ c.fetch # "idle") THEN c ELSE Asked(c)

\* The effect that opens the edit session, once the layout is there.
OpensSession ==
    /\ opened < MaxLeases
    /\ opened' = opened + 1
    /\ leases' = [i \in 1..MaxLeases |->
          IF i = opened + 1 THEN [NoLease EXCEPT !.stage = "asked", !.wanted = TRUE]
          ELSE [leases[i] EXCEPT !.wanted = FALSE]]
OpensIf(needed) == IF needed THEN OpensSession ELSE UNCHANGED <<opened, leases>>
\* Its cleanup.
Unwanted == leases' = [i \in 1..MaxLeases |-> [leases[i] EXCEPT !.wanted = FALSE]]

ServeLayout ==
    /\ cache.fetch = "asked"
    /\ cache' = [cache EXCEPT !.fetch = "served", !.got = Current]
    /\ UNCHANGED <<home, redis, page, drags, saves, leasing, change, hurried>>

LayoutArrives ==
    /\ cache.fetch = "served"
    /\ cache' = [data |-> cache.got, error |-> FALSE, fetch |-> "idle", got |-> NoLayout]
    /\ OpensIf(mode = "edit" /\ Shown = NoLayout)
    /\ UNCHANGED <<home, redis, page, drags, saves, closes, change, hurried>>

LayoutFails ==
    /\ cache.fetch # "idle"
    /\ cache' = [cache EXCEPT !.error = TRUE, !.fetch = "idle", !.got = NoLayout]
    /\ UNCHANGED <<home, redis, page, drags, saves, leasing, change, hurried>>

-----------------------------------------------------------------------------
(* The modes of the page.  HomePage stays mounted from one to the other.     *)

\* A DELETE of the lock; without a token the server refuses it at once.
Closing(c, t) == IF t = 0 THEN c ELSE [c EXCEPT ![t].sent = @ + 1]

Edit ==
    /\ mode = "view" /\ Shown # NoLayout /\ ~cache.error
    /\ mode' = "edit"
    /\ OpensSession
    /\ UNCHANGED <<home, redis, cache, token, said, drags, saves, closes, change, hurried>>

\* The button sends a DELETE, and so does the cleanup of the effect that holds the
\* token.
Cancel ==
    /\ Editor
    /\ mode' = "view" /\ token' = 0
    /\ closes' = Closing(Closing(closes, token), token)
    /\ Unwanted
    /\ UNCHANGED <<home, redis, cache, said, drags, saves, opened, change, hurried>>

\* A step back in the browser's history: the token stays where it is.
Back ==
    /\ mode = "edit"
    /\ mode' = "view"
    /\ closes' = Closing(closes, token)
    /\ Unwanted
    /\ UNCHANGED <<home, redis, cache, token, said, drags, saves, opened, change, hurried>>

\* HomePage is unmounted: its fetch is aborted, its callbacks never run.
Leave ==
    /\ mode # "away"
    /\ mode' = "away" /\ token' = 0 /\ said' = "nothing"
    /\ cache' = [cache EXCEPT !.fetch = "idle", !.got = NoLayout]
    /\ saves' = [i \in 1..MaxDrags |-> Silenced(saves[i])]
    /\ closes' = IF mode = "edit" THEN Closing(closes, token) ELSE closes
    /\ Unwanted
    /\ UNCHANGED <<home, redis, drags, opened, change, hurried>>

\* (Bound: as long as the editor may still be opened.)
Return(m) ==
    /\ mode = "away" /\ opened < MaxLeases
    /\ mode' = m
    /\ cache' = [Asked(cache) EXCEPT !.error = @ /\ Shown # NoLayout]
    /\ OpensIf(m = "edit" /\ Shown # NoLayout)
    /\ UNCHANGED <<home, redis, token, said, drags, saves, closes, change, hurried>>

-----------------------------------------------------------------------------
(* The edit lock: acquireEditLock, releaseEditLock.                          *)

Makes == issued < MaxTokens /\ issued' = issued + 1 /\ lock' = issued + 1

\* SET ... NX
TakeLock(i) ==
    /\ leases[i].stage = "asked"
    /\ IF lock = 0
       THEN /\ Makes
            /\ leases' = [leases EXCEPT ![i].stage = "granted", ![i].token = issued + 1]
       ELSE /\ leases' = [leases EXCEPT ![i].stage = "taken"]
            /\ UNCHANGED redis
    /\ UNCHANGED <<home, cache, page, drags, saves, opened, closes, change, hurried>>

\* GET: the owner's own token is given out again, unless it is gone meanwhile.
ReadHolder(i) ==
    /\ leases[i].stage = "taken"
    /\ leases' = [leases EXCEPT
          ![i].stage = IF lock = 0 THEN "refused" ELSE "granted", ![i].token = lock]
    /\ UNCHANGED <<home, redis, cache, page, drags, saves, opened, closes, change, hurried>>

Ends(i) == leases' = [leases EXCEPT ![i] = NoLease]

\* useOpenHomeEditSession invalidates the layout; the page takes the token if it
\* still wants it, and gives up one it held before.
LeaseGranted(i) ==
    /\ leases[i].stage = "granted"
    /\ cache' = Invalidated(cache)
    /\ IF leases[i].wanted
       THEN /\ token' = leases[i].token
            /\ closes' = IF token # token' THEN Closing(closes, token) ELSE closes
       ELSE UNCHANGED <<token, closes>>
    /\ Ends(i)
    /\ UNCHANGED <<home, redis, mode, said, drags, saves, opened, change, hurried>>

LeaseFails(i) ==
    /\ leases[i].stage # "none"
    /\ Ends(i)
    /\ UNCHANGED <<home, redis, cache, page, drags, saves, opened, closes, change, hurried>>

\* GET, and DEL if the value is that of the token; the two are two commands.
CompareToken(t) ==
    /\ closes[t].sent > 0
    /\ closes' = [closes EXCEPT ![t] =
          [sent |-> @.sent - 1, matched |-> IF lock = t THEN @.matched + 1 ELSE @.matched]]
    /\ UNCHANGED <<home, redis, cache, page, drags, saves, opened, leases, change, hurried>>

DeleteKey(t) ==
    /\ closes[t].matched > 0
    /\ closes' = [closes EXCEPT ![t].matched = @ - 1]
    /\ lock' = 0
    /\ UNCHANGED <<home, issued, cache, page, drags, saves, opened, leases, change, hurried>>

\* kEditLockTtlSeconds have passed, or the other tab has closed its session.
LockGone ==
    /\ lock # 0
    /\ lock' = 0
    /\ UNCHANGED <<home, issued, cache, page, drags, saves, leasing, change, hurried>>

\* The other tab was given the same token.  (Bound: it asks for none of its own.)
OtherSaves(w, column, position) ==
    /\ lock # 0 /\ others < MaxOthers /\ Room
    /\ LET move == PlacementsForMove(rows, w, column, position)
       IN  /\ move # <<>>
           /\ ValidatePlacements(move, rows) = "none"
           /\ rows' = FinalPage(move, rows)
    /\ version' = version + 1 /\ others' = others + 1
    /\ UNCHANGED <<redis, cache, page, drags, saves, leasing, change, hurried>>

-----------------------------------------------------------------------------
(* A drag and its save: handleDragEnd, useSaveHomeLayout.                    *)

\* The cache shows the move at once, and whatever was being fetched is dropped.
\* (NeverSwaps: a box is dropped onto another one.)
NeverSwaps(layout, w, column, position) ==
    IF w \notin OnPage(layout.rows) \/ Slot(layout.rows[w]) = <<column, position>> THEN <<>>
    ELSE <<[id |-> w, column |-> column, position |-> position]>>
MoveOn(layout, w, column, position) == PlacementsForMove(layout.rows, w, column, position)

DragEnd(w, column, position) ==
    /\ Editor /\ drags < MaxDrags /\ Room
    /\ LET move == MoveOn(Shown, w, column, position)
       IN  /\ move # <<>>
           /\ saves' = [i \in 1..MaxDrags |->
                 IF i = drags + 1
                 THEN [NoSave EXCEPT !.stage = "sent", !.at = Shown.version, !.with = token,
                                     !.move = move, !.previous = Shown, !.loud = TRUE]
                 ELSE Silenced(saves[i])]
           /\ cache' = [cache EXCEPT !.fetch = "idle", !.got = NoLayout,
                                     !.data.rows = FinalPage(move, Shown.rows)]
    /\ drags' = drags + 1
    /\ said' = "nothing"
    /\ hurried' = (hurried \/ Busy)
    /\ UNCHANGED <<home, redis, mode, token, leasing, change>>

Over(save) == [NoSave EXCEPT !.stage = "done", !.applied = save.applied]
\* How the server gets on with a save; nobody waits for the end of a lost one.
Reaches(save, stage) ==
    IF save.lost /\ stage # "admitted" THEN Over(save) ELSE [save EXCEPT !.stage = stage]
ToStage(i, stage) == saves' = [saves EXCEPT ![i] = Reaches(saves[i], stage)]

\* verifyEditLock
VerifyLock(i) ==
    /\ saves[i].stage = "sent"
    /\ ToStage(i, IF saves[i].with # 0 /\ saves[i].with = lock THEN "admitted" ELSE "locked")
    /\ UNCHANGED <<home, redis, cache, page, drags, leasing, change, hurried>>

\* The transaction; HomesService shows that it is one step.
VersionMatches(i) == saves[i].at = version
Apply(i) ==
    /\ saves[i].stage = "admitted" /\ VersionMatches(i)
    /\ LET move == saves[i].move
       IN  IF ValidatePlacements(move, rows) = "none"
           THEN /\ rows' = FinalPage(move, rows) /\ version' = version + 1
                /\ saves' = [saves EXCEPT
                      ![i] = Reaches([saves[i] EXCEPT !.applied = TRUE], "applied")]
           ELSE ToStage(i, "invalid") /\ UNCHANGED <<rows, version>>
    /\ UNCHANGED <<others, redis, cache, page, drags, leasing, change, hurried>>

Refuse(i) ==
    /\ saves[i].stage = "admitted" /\ ~VersionMatches(i)
    /\ ToStage(i, "stale")
    /\ UNCHANGED <<home, redis, cache, page, drags, leasing, change, hurried>>

\* The layout is read again for the answer; a 409 may have to do without.
ReadBack(i) ==
    /\ \/ /\ saves[i].stage = "applied"
          /\ saves' = [saves EXCEPT ![i].stage = "ok", ![i].got = Current]
       \/ /\ saves[i].stage = "stale"
          /\ \E got \in {Current, NoLayout} :
                saves' = [saves EXCEPT ![i].stage = "conflict", ![i].got = got]
    /\ UNCHANGED <<home, redis, cache, page, drags, leasing, change, hurried>>

\* What the hook puts into the cache, and what the page says if it still listens.
SettlesAs(i, over, layout, message) ==
    /\ cache' = [cache EXCEPT !.data = layout, !.error = FALSE]
    /\ said' = IF saves[i].loud THEN message ELSE said
    /\ saves' = [saves EXCEPT ![i] = over]
    /\ UNCHANGED <<home, redis, mode, token, drags, leasing, change, hurried>>
Settles(i, layout, message) == SettlesAs(i, Over(saves[i]), layout, message)

\* (MoveStays: a refused move is left on the page.)
MoveStays(i) == Shown
RolledBack(i) == saves[i].previous

SaveAnswered(i) ==
    /\ saves[i].stage = "ok"
    /\ Settles(i, saves[i].got, "saved")

SaveConflicts(i) ==
    /\ saves[i].stage = "conflict"
    /\ Settles(i, IF saves[i].got # NoLayout THEN saves[i].got ELSE RolledBack(i),
               "conflict")

SaveLocked(i) ==
    /\ saves[i].stage = "locked"
    /\ Settles(i, RolledBack(i), "nothing")

\* 400, 403, 503, or no answer at all.  The server does not learn that nobody waits:
\* what it has not come to yet it may still do.
Lost(save) ==
    [NoSave EXCEPT !.stage = save.stage, !.at = save.at, !.with = save.with,
                   !.move = save.move, !.lost = TRUE, !.applied = save.applied]
SaveFails(i) ==
    /\ UnderWay(i)
    /\ SettlesAs(i, IF saves[i].stage \in {"sent", "admitted"} THEN Lost(saves[i])
                    ELSE Over(saves[i]),
                 RolledBack(i), "nothing")

-----------------------------------------------------------------------------
(* Widgets: useAddHomeWidget, useRemoveHomeWidget.  Neither needs the lock.   *)

Starts(op, w, key) ==
    /\ change.stage = "none" /\ MaxChanges = 1 /\ Room
    /\ change' = [stage |-> "sent", op |-> op, w |-> w, key |-> key]
    /\ hurried' = (hurried \/ Busy)
    /\ UNCHANGED <<home, redis, cache, page, drags, saves, leasing>>

\* The palette offers the keys that are not on the page, and adds to column 1; every
\* box but the profile can be removed.  (w: the id the new row will get.)
StartAdd(w, key) ==
    /\ Editor
    /\ w \notin OnPage(Shown.rows)
    /\ \A v \in OnPage(Shown.rows) : Shown.rows[v].key # key
    /\ Starts("add", w, key)

StartRemove(w) ==
    /\ Editor
    /\ w \in OnPage(Shown.rows) /\ Shown.rows[w].key # ProfileKey
    /\ Starts("remove", w, Shown.rows[w].key)

\* Where the boxes of column 1 are; a new one goes below them.
\* (ColumnEmpty: it is put at the top.)
ColumnEmpty == {}
Below == {rows[w].position : w \in {v \in OnPage(rows) : rows[v].column = 1}}
ToServe == change.stage \in {"sent", "lost"}
Served ==
    change' = [change EXCEPT !.stage = IF change.stage = "lost" THEN "late" ELSE "settled"]

ServeAdd ==
    /\ ToServe /\ change.op = "add" /\ rows[change.w] = NoRow
    /\ \A v \in OnPage(rows) : rows[v].key # change.key
    /\ \E position \in 0..(MaxPosition + 1) :
          /\ \A p \in Below : p < position
          /\ position = 0 \/ position - 1 \in Below
          /\ rows' = [rows EXCEPT
                ![change.w] = [key |-> change.key, column |-> 1, position |-> position]]
    /\ Served
    /\ UNCHANGED <<version, others, redis, cache, page, drags, saves, leasing, hurried>>

ServeRemove ==
    /\ ToServe /\ change.op = "remove"
    /\ change.w \in OnPage(rows) /\ rows[change.w].key # ProfileKey
    /\ rows' = [rows EXCEPT ![change.w] = NoRow]
    /\ Served
    /\ UNCHANGED <<version, others, redis, cache, page, drags, saves, leasing, hurried>>

\* onSettled, after an answer, a refusal or none: a call that was given up before the
\* server came to it may still be served.
Recalled(c) == [NoChange EXCEPT !.stage = "done"]
GivenUp(c) == IF c.stage = "sent" THEN [c EXCEPT !.stage = "lost"] ELSE Recalled(c)

ChangeSettles ==
    /\ change.stage \in {"sent", "settled"}
    /\ change' = GivenUp(change)
    /\ cache' = Invalidated(cache)
    /\ \/ change.stage = "settled" /\ UNCHANGED said
       \/ said' = IF said = "saved" THEN "nothing" ELSE said
    /\ UNCHANGED <<home, redis, mode, token, drags, saves, leasing, hurried>>

-----------------------------------------------------------------------------
Position == 0..MaxPosition

SaveSteps ==
    \E i \in 1..MaxDrags :
        \/ VerifyLock(i) \/ Apply(i) \/ Refuse(i) \/ ReadBack(i)
        \/ SaveAnswered(i) \/ SaveConflicts(i) \/ SaveLocked(i) \/ SaveFails(i)
LockSteps ==
    \/ \E i \in 1..MaxLeases :
          TakeLock(i) \/ ReadHolder(i) \/ LeaseGranted(i) \/ LeaseFails(i)
    \/ \E t \in 1..MaxTokens : CompareToken(t) \/ DeleteKey(t)
    \/ LockGone

Next ==
    \/ ServeLayout \/ LayoutArrives \/ LayoutFails
    \/ Edit \/ Cancel \/ Back \/ Leave
    \/ \E m \in {"view", "edit"} : Return(m)
    \/ \E w \in WidgetId, column \in Column, position \in Position :
          DragEnd(w, column, position) \/ OtherSaves(w, column, position)
    \/ SaveSteps \/ LockSteps
    \/ \E w \in WidgetId, key \in WidgetKey : StartAdd(w, key)
    \/ \E w \in WidgetId : StartRemove(w)
    \/ ServeAdd \/ ServeRemove \/ ChangeSettles

Spec == Init /\ [][Next]_vars

-----------------------------------------------------------------------------
(* Properties.                                                              *)

\* Every variable has its type; what is shown was shown before or came from the
\* server, with each widget in a slot of its own.
TypeOK ==
    /\ rows \in Page /\ version \in Nat /\ others \in 0..MaxOthers
    /\ lock \in 0..MaxTokens /\ issued \in 0..MaxTokens
    /\ cache \in Cache
    /\ Shown # NoLayout => SlotsDistinct(Shown.rows)
    /\ mode \in {"view", "edit", "away"} /\ token \in 0..MaxTokens /\ said \in Message
    /\ drags \in 0..MaxDrags /\ saves \in [1..MaxDrags -> Save]
    /\ opened \in 0..MaxLeases /\ leases \in [1..MaxLeases -> Lease]
    /\ closes \in [1..MaxTokens -> [sent : Nat, matched : Nat]]
    /\ change \in Change /\ hurried \in BOOLEAN

\* "Saved." is about the last drag, and it is saved; the notice that a move "was
\* not applied" is about the last drag too, and it is not.  Two saves under way at
\* once are answered in either order.
MessagesTruthful ==
    /\ said = "saved" => drags > 0 /\ saves[drags].applied
    /\ said = "conflict" => drags > 0 /\ ~saves[drags].applied

\* A widget was added or removed late, after the page had given the call up, and the
\* layout does not show it.
Unseen(layout) ==
    /\ change.stage = "late"
    /\ change.w \in OnPage(layout.rows) <=> change.w \notin OnPage(rows)

\* Who does one thing at a time sees the rows as they are, as long as nobody has
\* saved since, whatever was refused, fetched or rolled back.  One box may be wrong:
\* the one whose adding or removal was lost on the way and served after all, for that
\* does not raise the version and nothing asks for the layout again.
ShownIsTrue ==
    Editor /\ ~Busy /\ ~hurried /\ Shown.version = version =>
        \A w \in WidgetId :
            Shown.rows[w] = rows[w] \/ (w = change.w /\ Unseen(Shown))

\* "The result is always a valid permutation, so the server never has to refuse a
\* move the user made on screen" (placementsForMove): not from one who does one
\* thing at a time, has no widget below the grid and sees all widgets there are.
\* (The claim makes none of these exceptions.)
MovesAreValid ==
    \A i \in 1..MaxDrags :
        UnderWay(i) /\ saves[i].stage = "invalid" =>
            LET before == saves[i].previous
            IN  \/ hurried \/ Unseen(before)
                \/ \E w \in OnPage(before.rows) : OffGrid(before.rows[w])

\* The server the editor talks to is the one that HomesService implements.
Abstract == INSTANCE HomePage WITH
    rows <- rows, version <- version, placed <- {}, Background <- {}
ImplementsHomePage == Abstract!Spec

\* "Only the holder's own token releases it" (HomesService.h): a DELETE with one
\* token leaves a lock with another alone.
OwnTokenOnly ==
    [][\A t \in 1..MaxTokens : closes'[t].matched < closes[t].matched => lock \in {0, t}]_vars
=============================================================================
