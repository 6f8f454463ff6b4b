------------------------------ MODULE HomeLayout ------------------------------
(***************************************************************************)
(* The rows of one MyHabbo home and the pure functions HomesService applies *)
(* to them.  A home has widgets; a widget row carries its key, a column (1  *)
(* or 2) and a position in that column.  A slot is a (column, position)     *)
(* pair, and phpretro_myhabbo_layouts has a UNIQUE index over the slots of  *)
(* a home, so every statement below is also judged by that index.           *)
(***************************************************************************)
EXTENDS Integers, Sequences

CONSTANTS
    WidgetId,       \* ids a row of this home can have (AUTO_INCREMENT, never 0)
    WidgetKey,      \* USER_WIDGETS: the keys a user home may hold
    ProfileKey,     \* requiredWidgetKey(): the widget that cannot be removed
    NoRow,          \* an id with no row
    MaxPosition,    \* kMaxPosition
    MaxPlacements   \* kMaxPlacements

ASSUME LayoutAssumption ==
    /\ WidgetId \subseteq Nat \ {0}
    /\ ProfileKey \in WidgetKey
    /\ MaxPosition \in Nat
    /\ MaxPlacements \in Nat

Column == {1, 2}
Row == [key : WidgetKey, column : Column, position : Int]
ASSUME NoRowAssumption == NoRow \notin Row

\* The rows of the home; a position is negative only inside a save.
Page == [WidgetId -> Row \cup {NoRow}]

\* One entry of a save request, as the JSON body carries it (the id, the column
\* and the position are unsigned and otherwise unchecked).
Placement == [id : Nat, column : Nat, position : Nat]

OnPage(page) == {w \in WidgetId : page[w] # NoRow}
Slot(row) == <<row.column, row.position>>

SlotsDistinct(page) ==
    \A v, w \in OnPage(page) : Slot(page[v]) = Slot(page[w]) => v = w

-----------------------------------------------------------------------------
(* Validation.                                                              *)

Mentioned(requested) == {requested[i].id : i \in DOMAIN requested}

\* The slot a placement names is not one of the page.
\* (ColumnUnchecked: the same without the test of the column.)
ColumnUnchecked(p) == p.position > MaxPosition
OffGrid(p) == p.column \notin Column \/ p.position > MaxPosition

\* What is wrong with one entry, in the order the loop tests it.
PlacementFault(requested, page, i) ==
    LET p == requested[i]
        repeated == \E j \in 1..(i - 1) : requested[j].id = p.id
    IN  IF p.id = 0 \/ repeated THEN "invalid"
        ELSE IF p.id \notin OnPage(page) THEN "denied"
        ELSE IF OffGrid(p) THEN "invalid"
        ELSE "none"

PlacementOf(requested, w) ==
    requested[CHOOSE i \in DOMAIN requested : requested[i].id = w]

\* The page the request asks for: an unmentioned widget keeps its slot.
FinalPage(requested, page) ==
    [w \in WidgetId |->
        IF page[w] # NoRow /\ w \in Mentioned(requested)
        THEN [page[w] EXCEPT !.column = PlacementOf(requested, w).column,
                             !.position = PlacementOf(requested, w).position]
        ELSE page[w]]

Faults(requested, page) ==
    {i \in DOMAIN requested : PlacementFault(requested, page, i) # "none"}

\* The loop returns at the first entry at fault.
FirstFaultIs(fault, requested, page) ==
    \E i \in Faults(requested, page) :
        /\ \A j \in Faults(requested, page) : i <= j
        /\ PlacementFault(requested, page, i) = fault

ValidatePlacements(requested, page) ==
    IF Len(requested) > MaxPlacements THEN "invalid"
    ELSE IF FirstFaultIs("denied", requested, page) THEN "denied"
    ELSE IF /\ Faults(requested, page) = {}
            /\ SlotsDistinct(FinalPage(requested, page)) THEN "none"
    ELSE "invalid"

-----------------------------------------------------------------------------
(* The statements of a save, each as the page after it.                     *)

\* UPDATE ... SET position = -(position + 1): every row leaves its slot.
\* (MirrorNothing: the placements are written straight over the page.)
MirrorNothing(page) == page
Mirror(page) ==
    [w \in WidgetId |->
        IF page[w] = NoRow THEN NoRow
        ELSE [page[w] EXCEPT !.position = -(@ + 1)]]

\* The same with WHERE position < 0: the rows no placement wrote come back.
\* (Without the WHERE it is Mirror again.)
Unmirror(page) ==
    [w \in WidgetId |->
        IF page[w] # NoRow /\ page[w].position < 0
        THEN [page[w] EXCEPT !.position = -(@ + 1)]
        ELSE page[w]]

\* UPDATE ... SET column_number, position WHERE id = p.id: no row, no effect.
Place(page, p) ==
    [w \in WidgetId |->
        IF w = p.id /\ page[w] # NoRow
        THEN [page[w] EXCEPT !.column = p.column, !.position = p.position]
        ELSE page[w]]

\* An UPDATE runs row by row and the index is checked at each row, so it is
\* refused when a slot it writes is, before or after it, another row's slot.
Clash(before, after) ==
    \E v, w \in OnPage(before) :
        /\ v # w
        /\ after[v] # before[v]
        /\ Slot(after[v]) \in {Slot(before[w]), Slot(after[w])}

-----------------------------------------------------------------------------
(* The editor's side: the placements a drag of widget w to a slot produces. *)

PlacementsForMove(page, w, column, position) ==
    LET occupants == {v \in OnPage(page) \ {w} : Slot(page[v]) = <<column, position>>}
        moved == [id |-> w, column |-> column, position |-> position]
    IN  IF w \notin OnPage(page) \/ Slot(page[w]) = <<column, position>> THEN <<>>
        ELSE IF occupants = {} THEN <<moved>>
        ELSE <<moved, [id |-> CHOOSE v \in occupants : TRUE,
                       column |-> page[w].column,
                       position |-> page[w].position]>>
=============================================================================
