----------------------------- MODULE AdminContent -----------------------------
(***************************************************************************)
(* One housekeeping page in one browser, over the table it edits.  The page   *)
(* shows a list it keeps in the query cache, and a form; saves and removals   *)
(* are calls that may still be under way when the operator cancels, opens     *)
(* another row or leaves the page.  Every acknowledged write invalidates the  *)
(* list.  Other operators write to the same table.                           *)
(*                                                                         *)
(* Some definitions are preceded by a variant of theirs with a mistake such   *)
(* a program could make; the properties below tell the two apart.            *)
(***************************************************************************)
EXTENDS AdminPages, FiniteSets

CONSTANTS
    Id,             \* row ids; AUTO_INCREMENT gives each once
    NoId,           \* 0: the row of a form for a new one
    NoRow,          \* an id without a row
    NewsLimit,      \* 20: the news a list shows
    MaxWrites       \* bound: writes to the table of each page

ASSUME ContentAssumption ==
    /\ NoId \notin Id
    /\ NoRow \notin Row
    /\ NewsLimit \in Nat
    /\ MaxWrites \in [Kind -> Nat]

VARIABLES
    kind,           \* which of the five pages this is
    rank,           \* the rank in the operator's staff session
    table,          \* the rows
    version,        \* ghost: how many writes made them
    used,           \* the ids given out
    list,           \* the cached list: its rows, and the version they were read at
    invalid,        \* the cached list is marked invalidated
    failed,         \* the last fetch of the list ended in an error
    fetch,          \* the fetch under way: asked, or read and what it read
    screen,         \* what is mounted: nothing, the list or a form
    editing,        \* the row the form is for
    form,
    filled,         \* ghost: the row the form was last filled from
    calls,          \* the creates, updates and removals under way
    acked,          \* ghost: the newest write this browser knows of
    overlooked      \* ghost: an acknowledgement found an older answer on its way,
                    \* of a first load or with the page gone, and let it be

operator == <<kind, rank>>
server == <<table, version, used>>
query == <<list, invalid, failed, fetch>>
page == <<screen, editing, form, filled>>
ghosts == <<acked, overlooked>>
vars == <<operator, server, query, page, calls, ghosts>>

Table == [Id -> Row \cup {NoRow}]
NoRows == [i \in Id |-> NoRow]
List == [loaded : BOOLEAN, rows : Table, at : Nat]
Fetch == [stage : {"idle", "asked", "read"}, rows : Table, at : Nat]
Idle == [stage |-> "idle", rows |-> NoRows, at |-> 0]
Asked == [Idle EXCEPT !.stage = "asked"]

\* What the client module sends: create, update and delete of each resource.
\* mine: the page that sent it is still mounted; at: the version it wrote.
Call == [op : {"create", "update", "delete"}, id : Id \cup {NoId}, payload : Row,
         filled : Id \cup {NoId}, stage : {"sent", "ok"},
         mine : BOOLEAN, at : Nat]

TypeOK ==
    /\ kind \in Kind /\ rank \in {5, HighTrustRank}
    /\ table \in Table /\ version \in Nat /\ used \subseteq Id
    /\ list \in List /\ invalid \in BOOLEAN /\ failed \in BOOLEAN
    /\ fetch \in Fetch
    /\ screen \in {"away", "list", "create", "edit"}
    /\ editing \in Id \cup {NoId} /\ form \in Row /\ filled \in Id \cup {NoId}
    /\ calls \subseteq Call
    /\ acked \in Nat /\ overlooked \in BOOLEAN

\* The rows of the five tables: what some form was once saved as.
Rows ==
    {Stored(kind, Payload(kind, f)) :
        f \in {g \in Forms(kind) : ~Refused(kind, Payload(kind, g))}}

Init ==
    /\ kind \in Kind
    /\ rank \in IF kind = "banners" THEN {5, HighTrustRank} ELSE {5}
    /\ \E i \in Id : \E row \in Rows :
          /\ used = {i}
          /\ table = [NoRows EXCEPT ![i] = row]
    /\ version = 0
    /\ list = [loaded |-> FALSE, rows |-> NoRows, at |-> 0]
    /\ invalid = FALSE /\ failed = FALSE
    /\ fetch = Idle
    /\ screen = "away" /\ editing = NoId /\ form = Blank(kind) /\ filled = NoId
    /\ calls = {}
    /\ acked = 0 /\ overlooked = FALSE

-----------------------------------------------------------------------------
(* The list and its query.                                                  *)

\* Nothing of a form survives its closing.
Empty == editing' = NoId /\ form' = Blank(kind) /\ filled' = NoId

\* A list that is missing or invalidated is fetched when the page mounts; any
\* other only once it is older than its stale time.
OpenPage ==
    /\ screen = "away"
    /\ screen' = "list" /\ Empty
    /\ \/ fetch' = IF fetch = Idle THEN Asked ELSE fetch
       \/ list.loaded /\ ~invalid /\ UNCHANGED fetch
    /\ UNCHANGED <<operator, server, list, invalid, failed, calls, ghosts>>

\* A call outlives the page that sent it; its answer finds no page to change.
LeavePage ==
    /\ screen # "away"
    /\ screen' = "away" /\ Empty
    /\ calls' = {[c EXCEPT !.mine = FALSE] : c \in calls}
    /\ UNCHANGED <<operator, server, query, ghosts>>

\* The rows a list shows: all there are, but of the news the NewsLimit newest.
Present == {i \in Id : table[i] # NoRow}
Shown(ids) ==
    /\ ids \subseteq Present
    /\ \/ ids = Present /\ (kind = "news" => Cardinality(ids) <= NewsLimit)
       \/ /\ kind = "news" /\ Cardinality(ids) = NewsLimit
          /\ \A i \in ids, j \in Present \ ids : table[i].number >= table[j].number

ListOf(ids) == [i \in Id |-> IF i \in ids THEN Listed(kind, table[i]) ELSE NoRow]

\* A SELECT that fails is answered with an empty list, and 200.
ServeList ==
    /\ fetch.stage = "asked"
    /\ \E ids \in SUBSET Id :
          /\ ids = {} \/ Shown(ids)
          /\ fetch' = [stage |-> "read", at |-> version, rows |-> ListOf(ids)]
    /\ UNCHANGED <<operator, server, list, invalid, failed, page, calls, ghosts>>

ListArrives ==
    /\ fetch.stage = "read"
    /\ list' = [loaded |-> TRUE, rows |-> fetch.rows, at |-> fetch.at]
    /\ fetch' = Idle
    /\ invalid' = FALSE /\ failed' = FALSE
    /\ UNCHANGED <<operator, server, page, calls, ghosts>>

\* A fetch that fails is asked again once, unless it was refused (AdminPanel).
FetchFails ==
    /\ fetch # Idle
    /\ \/ fetch' = Asked /\ UNCHANGED failed
       \/ fetch' = Idle /\ failed' = TRUE
    /\ UNCHANGED <<operator, server, list, invalid, page, calls, ghosts>>

-----------------------------------------------------------------------------
(* The form.                                                                *)

\* (FormKept: a new row starts from what the form held before.)
FormKept == UNCHANGED <<form, filled>>
FormEmptied == form' = Blank(kind) /\ filled' = NoId

StartCreate ==
    /\ screen = "list"
    /\ screen' = "create" /\ editing' = NoId /\ FormEmptied
    /\ UNCHANGED <<operator, server, query, calls, ghosts>>

\* The form is filled from the list, however old that is.
StartEdit(i) ==
    /\ screen = "list" /\ list.rows[i] # NoRow
    /\ screen' = "edit" /\ editing' = i
    /\ form' = list.rows[i] /\ filled' = i
    /\ UNCHANGED <<operator, server, query, calls, ghosts>>

\* The flag of a banner has no input of its own.
Type ==
    /\ screen \in {"create", "edit"}
    /\ \E typed \in Forms(kind) : form' = [typed EXCEPT !.advanced = form.advanced]
    /\ UNCHANGED <<operator, server, query, screen, editing, filled, calls, ghosts>>

Reset == screen' = "list" /\ editing' = NoId /\ FormEmptied

Cancel ==
    /\ screen \in {"create", "edit"}
    /\ Reset
    /\ UNCHANGED <<operator, server, query, calls, ghosts>>

-----------------------------------------------------------------------------
(* Saving and removing.                                                     *)

Send(op, i, payload, from) ==
    LET c == [op |-> op, id |-> i, payload |-> payload, filled |-> from,
              stage |-> "sent", mine |-> TRUE, at |-> 0]
    IN  /\ \A d \in calls : (d.op = "delete") # (op = "delete")   \* bound: one of each
        /\ calls' = calls \cup {c}
        /\ UNCHANGED <<operator, server, query, page, ghosts>>

\* The Save button waits for the save this page has sent, even if its form was
\* cancelled since.
Saving == \E c \in calls : c.mine /\ c.op # "delete"

\* (The bound keeps a second save of a remounted page out.)
Submit ==
    /\ screen \in {"create", "edit"} /\ ~Saving
    /\ Send(IF screen = "edit" THEN "update" ELSE "create", editing,
            Payload(kind, form), filled)

\* The buttons of the list wait for nothing.
Delete(i) ==
    /\ screen = "list" /\ list.rows[i] # NoRow
    /\ Send("delete", i, Blank(kind), NoId)

\* What the server asks of a call before it writes.
\* (AnyStaff: raw markup needs no more than a staff session.)
AnyStaff(c) == TRUE
Permitted(c) ==
    kind = "banners" /\ c.op # "delete" /\ BannerRequiresHighTrust(c.payload)
        => rank = HighTrustRank

\* The months of the collectibles are UNIQUE.
MonthFree(c) ==
    kind = "collectibles" =>
        \A j \in Id \ {c.id} : table[j] # NoRow => table[j].number # c.payload.number

Acceptable(c) == Permitted(c) /\ ~Refused(kind, c.payload) /\ MonthFree(c)

\* The rows after a call: an UPDATE that changes nothing is "not found".
Written(c, row) ==
    \/ /\ c.op = "create" /\ Acceptable(c)
       /\ \E i \in Id \ used : table' = [table EXCEPT ![i] = row] /\ used' = used \cup {i}
    \/ /\ c.op = "update" /\ Acceptable(c)
       /\ table[c.id] \notin {NoRow, row}
       /\ table' = [table EXCEPT ![c.id] = row] /\ UNCHANGED used
    \/ /\ c.op = "delete" /\ Permitted(c)
       /\ table[c.id] # NoRow
       /\ table' = [table EXCEPT ![c.id] = NoRow] /\ UNCHANGED used

ServeCall(c) ==
    /\ c.stage = "sent"
    /\ version < MaxWrites[kind]                                       \* bound
    /\ Written(c, Stored(kind, c.payload))
    /\ version' = version + 1
    /\ calls' = (calls \ {c}) \cup {[c EXCEPT !.stage = "ok", !.at = version + 1]}
    /\ UNCHANGED <<operator, query, page, ghosts>>

\* Invalidating the list.  A mounted list that was loaded once is fetched anew
\* and a fetch under way is dropped; the first load is joined instead, and a
\* list nobody shows is only marked.
\* (Joined: whatever is under way is joined.)
Joined == fetch' = IF screen = "away" \/ fetch # Idle THEN fetch ELSE Asked
Refetched ==
    fetch' = IF screen = "away" \/ (fetch # Idle /\ ~list.loaded) THEN fetch ELSE Asked

Acknowledged(c) ==
    /\ c.stage = "ok"
    /\ calls' = calls \ {c}
    /\ Refetched /\ invalid' = TRUE
    /\ acked' = IF c.at > acked THEN c.at ELSE acked
    /\ overlooked' =
          (overlooked \/ (fetch.stage = "read" /\ fetch.at < c.at
                          /\ (screen = "away" \/ ~list.loaded)))
    \* The form that is open is closed, whichever row it is for by now; the
    \* reset after a removal is for the row edited when it was clicked: none.
    /\ IF c.mine /\ c.op # "delete" THEN Reset ELSE UNCHANGED page
    /\ UNCHANGED <<operator, server, list, failed>>

\* An error is reported and leaves the form as it is: the call was not permitted,
\* not valid or found no row, the database failed, or the connection was lost
\* before or after the server did its part.
Failed(c) ==
    /\ calls' = calls \ {c}
    /\ UNCHANGED <<operator, server, query, page, ghosts>>

-----------------------------------------------------------------------------
(* Everybody else.                                                          *)

OtherOperator ==
    /\ version < MaxWrites[kind]                                       \* bound
    /\ \E i \in Id : \E row \in Rows \cup {NoRow} :
          /\ table[i] # row
          /\ i \in used \/ row # NoRow
          /\ table[i] = NoRow => i \notin used
          /\ kind = "collectibles" /\ row # NoRow =>
                \A j \in Id \ {i} : table[j] # NoRow => table[j].number # row.number
          /\ table' = [table EXCEPT ![i] = row]
          /\ used' = used \cup {i}
    /\ version' = version + 1
    /\ UNCHANGED <<operator, query, page, calls, ghosts>>

Next ==
    \/ OpenPage \/ LeavePage
    \/ ServeList \/ ListArrives \/ FetchFails
    \/ StartCreate \/ Type \/ Cancel \/ Submit
    \/ \E i \in Id : StartEdit(i) \/ Delete(i)
    \/ \E c \in calls : ServeCall(c) \/ Acknowledged(c) \/ Failed(c)
    \/ OtherOperator

Spec == Init /\ [][Next]_vars

-----------------------------------------------------------------------------
(* Properties.                                                              *)

\* What the table's rows are listed as, or nothing.
UpToDate(rows) == rows # NoRows => \E ids \in SUBSET Id : Shown(ids) /\ rows = ListOf(ids)

\* The browser has a list of the last write it was told of, is about to have one, or says
\* that it could not.
CatchesUp ==
    \/ list.at >= acked
    \/ fetch.stage = "asked"
    \/ fetch.stage = "read" /\ fetch.at >= acked
    \/ screen = "away" /\ invalid
    \/ failed \/ overlooked

\* A list that was read after the last write to the table shows its rows as they are,
\* and such a list is what this browser has, is about to have, or says it could not
\* have, after every write it was told of: useAdminMutations invalidates the list of
\* every write.  The comment at adminKeys promises that a create "is visible on the next
\* render"; three things keep it from being so, and are named here: an
\* acknowledgement that finds an older answer on its way when the list was never
\* shown, or its page is gone (overlooked: that answer is not dropped), a SELECT that
\* failed (the list is empty), and a news list that is full.
ListKeepsUp == CatchesUp /\ (list.at = version => UpToDate(list.rows))

\* Whatever a form was left at, and whatever the list had when it was opened, what
\* is saved fits the public pages: a path without its legacy token and an order
\* from 1 up in banners and campaigns, a text everywhere else, and for a
\* collectible a month of its own.  (The pages' Math.max(1, ...) does not bound an order
\* from above: one of 2^31 or more is stored as what is left of it in 32 bits.)
RowsAreClean ==
    \A i \in Id : table[i] # NoRow =>
        /\ kind \in {"banners", "campaigns"} =>
              /\ table[i].link # "%path%"
              /\ \/ table[i].number >= 1
                 \/ \E n \in Orders : n >= Half /\ table[i].number = Narrowed(n)
        /\ kind # "banners" => table[i].text # ""
        /\ kind = "collectibles" =>
              \A j \in Id \ {i} : table[j] # NoRow => table[j].number # table[i].number

\* What is sent for a row was filled in from that row, and what is sent as a new
\* one from none: opening, cancelling, leaving and late answers never cross a
\* form's text with another row's id.
FormsAimAtTheirRow ==
    /\ screen \in {"create", "edit"} => filled = editing
    /\ \A c \in calls :
          /\ c.op = "update" => c.filled = c.id /\ c.id # NoId
          /\ c.op = "create" => c.filled = NoId

\* Rows of this browser's writes: raw markup gets into a row only by a high-trust
\* operator.  (AdminContentController asks for the permission when the payload carries
\* markup; ContentService is only told whether it did.)
OwnWrite == calls' # calls /\ table' # table
MarkupNeedsHighTrust ==
    [][OwnWrite => \A i \in Id :
          /\ table'[i] # NoRow /\ table'[i] # table[i] /\ table'[i].markup # ""
          /\ table[i] # NoRow => table[i].markup # table'[i].markup
          => rank = HighTrustRank]_vars
=============================================================================
