------------------------------- MODULE HomePage -------------------------------
(***************************************************************************)
(* What a home promises, without transactions, locks or requests: its rows, *)
(* its version and its background change in whole, valid steps.  A save is  *)
(* one step that bumps the version once and leaves every widget on the page  *)
(* in a slot of its own.  HomesService implements this.                      *)
(***************************************************************************)
EXTENDS HomeLayout

CONSTANT Background      \* the background items in the owner's inventory

VARIABLES
    rows,        \* phpretro_myhabbo_layouts: the home's rows
    version,     \* phpretro_myhabbo_homes.version, 0 when the row is missing
    placed       \* the background items with placed = 1

vars == <<rows, version, placed>>

Init ==
    /\ rows \in Page
    /\ SlotsDistinct(rows)
    /\ \A w \in OnPage(rows) : rows[w].position >= 0
    /\ version \in {0, 1}
    /\ placed \in SUBSET Background

CreateVersionRow ==
    /\ version = 0
    /\ version' = 1
    /\ UNCHANGED <<rows, placed>>

\* A row a save may leave in place of row: same widget, and either its old slot
\* or one on the page.
Rearranged(old, new) ==
    \/ new = old
    \/ /\ old # NoRow /\ new # NoRow
       /\ new.key = old.key
       /\ new.column \in Column
       /\ new.position \in 0..MaxPosition

\* A save moves widgets to distinct slots, changes the background or leaves it,
\* and takes the version up by exactly one, all in one step.
Save ==
    /\ version # 0
    /\ version' = version + 1
    /\ rows' \in Page
    /\ \A w \in WidgetId : Rearranged(rows[w], rows'[w])
    /\ SlotsDistinct(rows')
    /\ placed' = placed \/ \E item \in Background : placed' = {item}

\* A new widget takes a free slot.  That its key is new is NOT promised.
Add(w, row) ==
    /\ rows[w] = NoRow
    /\ row \in Row
    /\ row.position >= 0
    /\ \A v \in OnPage(rows) : Slot(rows[v]) # Slot(row)
    /\ rows' = [rows EXCEPT ![w] = row]
    /\ UNCHANGED <<version, placed>>

Remove(w) ==
    /\ w \in OnPage(rows)
    /\ rows[w].key # ProfileKey
    /\ rows' = [rows EXCEPT ![w] = NoRow]
    /\ UNCHANGED <<version, placed>>

Next ==
    \/ CreateVersionRow
    \/ Save
    \/ \E w \in WidgetId : Add(w, rows'[w])
    \/ \E w \in WidgetId : Remove(w)

Spec == Init /\ [][Next]_vars
=============================================================================
