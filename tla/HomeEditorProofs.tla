--------------------------- MODULE HomeEditorProofs ---------------------------
(***************************************************************************)
(* Proofs about HomeEditor for every number of widgets, drags, sessions and    *)
(* tokens: what the cache shows is always a page, the messages tell the truth, *)
(* and the rows change as HomePage promises.  The invariant has a part for     *)
(* each party: the rows, the cache, the saves, the lock.  A second one, SeenInv, *)
(* says that a layout the browser has is of an older version or has its rows.  *)
(***************************************************************************)
EXTENDS HomeEditor, HomeLayoutProofs

-----------------------------------------------------------------------------
(* A move on a proper page leaves a proper page, though the server might refuse *)
(* it: a box from below the grid changes places with the one it is dropped on.  *)

Put(row, column, position) == [row EXCEPT !.column = column, !.position = position]

LEMMA RowAt ==
    ASSUME NEW row \in Row, NEW c \in Column, NEW p \in Int
    PROVE  /\ Put(row, c, p) \in Row /\ Slot(Put(row, c, p)) = <<c, p>>
           /\ Put(row, c, p).position = p
BY DEF Row, Slot, Put

\* Widgets that change places, or one that takes a free one.
Exchanged(before, final, w, v, column, position) ==
    /\ final \in [WidgetId -> Row \cup {NoRow}]
    /\ \A u \in WidgetId : u # w /\ u # v => final[u] = before[u]
    /\ final[w] = Put(before[w], column, position)
    /\ v # w => /\ Slot(before[v]) = <<column, position>>
                /\ final[v] = Put(before[v], before[w].column, before[w].position)
    /\ v = w => \A u \in OnPage(before) : u # w => Slot(before[u]) # <<column, position>>

LEMMA ExchangedPage ==
    ASSUME NEW before, Proper(before), NEW w \in OnPage(before), NEW v \in OnPage(before),
           NEW column \in Column, NEW position \in 0..MaxPosition,
           NEW final, Exchanged(before, final, w, v, column, position)
    PROVE  Proper(final)
<1> USE DEF Exchanged
<1>1. /\ \A u \in OnPage(before) : before[u] \in Row /\ before[u].position >= 0
      /\ position \in Int /\ position >= 0
      /\ before[w].column \in Column /\ before[w].position \in Int
      /\ w \in WidgetId /\ v \in WidgetId /\ SlotsDistinct(before)
  <2> HIDE DEF Exchanged
  <2> QED
    BY LayoutAssumption DEF Proper, Page, OnPage, Row
<1>2. Slot(before[w]) = <<before[w].column, before[w].position>>
  BY DEF Slot
<1>3. final[w] \in Row /\ Slot(final[w]) = <<column, position>> /\ final[w].position >= 0
  <2> HIDE DEF Exchanged
  <2>1. final[w] = Put(before[w], column, position)
    BY DEF Exchanged
  <2>2. /\ Put(before[w], column, position) \in Row
        /\ Slot(Put(before[w], column, position)) = <<column, position>>
        /\ Put(before[w], column, position).position = position
    BY <1>1, RowAt
  <2> QED
    BY <1>1, <2>1, <2>2
<1>4. v # w => /\ final[v] \in Row /\ Slot(final[v]) = Slot(before[w])
               /\ final[v].position >= 0
  <2> HIDE DEF Exchanged
  <2>1. v # w => final[v] = Put(before[v], before[w].column, before[w].position)
    BY DEF Exchanged
  <2>2. /\ Put(before[v], before[w].column, before[w].position) \in Row
        /\ Slot(Put(before[v], before[w].column, before[w].position))
              = <<before[w].column, before[w].position>>
        /\ Put(before[v], before[w].column, before[w].position).position = before[w].position
    BY <1>1, RowAt
  <2> QED
    BY <1>1, <1>2, <2>1, <2>2
<1>5. OnPage(final) = OnPage(before)
  BY <1>1, <1>3, <1>4, NoRowAssumption DEF OnPage
<1>6. SlotsDistinct(final)
  <2> SUFFICES ASSUME NEW a \in OnPage(before), NEW b \in OnPage(before), a # b,
                      Slot(final[a]) = Slot(final[b])
               PROVE  FALSE
    BY <1>5 DEF SlotsDistinct
  <2>1. \A x, y \in OnPage(before) : Slot(before[x]) = Slot(before[y]) => x = y
    BY <1>1 DEF SlotsDistinct
  <2>2. \A u \in OnPage(before) : u # w /\ u # v => Slot(final[u]) = Slot(before[u])
    BY DEF OnPage
  <2>3. CASE v = w
    BY <1>3, <2>1, <2>2, <2>3
  <2>4. CASE v # w
    BY <1>3, <1>4, <2>1, <2>2, <2>4
  <2> QED
    BY <2>3, <2>4
<1>7. \A u \in OnPage(final) : final[u].position >= 0
  BY <1>1, <1>3, <1>4, <1>5 DEF OnPage
<1> QED
  BY <1>5, <1>6, <1>7 DEF Proper, Page

LEMMA MovedPage ==
    ASSUME NEW before, Proper(before), NEW w \in WidgetId,
           NEW column \in Column, NEW position \in 0..MaxPosition,
           NEW move, move = PlacementsForMove(before, w, column, position), move # <<>>
    PROVE  /\ move \in Seq(Placement)
           /\ FinalPage(move, before) \in Page /\ Proper(FinalPage(move, before))
<1> DEFINE occupants == {v \in OnPage(before) \ {w} : Slot(before[v]) = <<column, position>>}
           other(v) == [id |-> v, column |-> before[w].column, position |-> before[w].position]
           moved == [id |-> w, column |-> column, position |-> position]
           final == FinalPage(move, before)
<1>1. w \in OnPage(before)
  BY DEF PlacementsForMove
<1>2. move \in Seq(Placement)
  BY <1>1, MoveIsAList
<1>3. \A u \in OnPage(before) : before[u] \in Row
  BY DEF Proper, Page, OnPage
<1>4. \A u \in OnPage(before), c \in Column, p \in Int :
         Put(before[u], c, p) \in Row
  BY <1>3, RowAt
<1>5. before[w].column \in Column /\ before[w].position \in Int /\ position \in Int
  BY <1>1, <1>3, LayoutAssumption DEF Row
<1>6. \A u \in WidgetId : before[u] \in Row \cup {NoRow}
  BY DEF Proper, Page
<1>7. CASE occupants = {}
  <2>1. DOMAIN move = {1} /\ move[1] = moved
    BY <1>1, <1>7 DEF PlacementsForMove
  <2>2. Mentioned(move) = {w}
    BY <2>1 DEF Mentioned
  <2>3. PlacementOf(move, w) = moved
    <3>1. (CHOOSE i \in DOMAIN move : move[i].id = w) = 1
      BY <2>1
    <3> QED
      BY <2>1, <3>1 DEF PlacementOf
  <2>4. final[w] = Put(before[w], moved.column, moved.position)
    <3>1. final[w] = Put(before[w], PlacementOf(move, w).column, PlacementOf(move, w).position)
      BY <1>1, <2>2 DEF FinalPage, OnPage, Put
    <3> QED
      BY <2>3, <3>1
  <2>5. \A u \in WidgetId : u # w => final[u] = before[u]
    BY <2>2 DEF FinalPage
  <2>6. final[w] = Put(before[w], column, position)
    BY <2>4
  <2>7. final \in [WidgetId -> Row \cup {NoRow}]
    <3>1. \A u \in WidgetId : final[u] \in Row \cup {NoRow}
      BY <1>1, <1>4, <1>5, <1>6, <2>5, <2>6
    <3> QED
      BY <3>1 DEF FinalPage
  <2>8. \A u \in OnPage(before) : u # w => Slot(before[u]) # <<column, position>>
    BY <1>7
  <2>9. Exchanged(before, final, w, w, column, position)
    <3> HIDE DEF final
    <3> QED
      BY <2>5, <2>6, <2>7, <2>8 DEF Exchanged
  <2> QED
    BY <1>1, <1>2, <2>9, ExchangedPage DEF Proper
<1>8. CASE occupants # {}
  <2>0. PICK v \in occupants : move = <<moved, other(v)>>
    BY <1>1, <1>8 DEF PlacementsForMove
  <2>1. /\ DOMAIN move = {1, 2} /\ move[1] = moved /\ move[2] = other(v)
        /\ v \in OnPage(before) /\ v # w /\ Slot(before[v]) = <<column, position>>
    BY <2>0
  <2>2. Mentioned(move) = {w, v}
    BY <2>1 DEF Mentioned
  <2>3. PlacementOf(move, w) = moved /\ PlacementOf(move, v) = other(v)
    <3>1. /\ (CHOOSE i \in DOMAIN move : move[i].id = w) = 1
          /\ (CHOOSE i \in DOMAIN move : move[i].id = v) = 2
      BY <2>1
    <3> QED
      BY <2>1, <3>1 DEF PlacementOf
  <2>4. /\ final[w] = Put(before[w], moved.column, moved.position)
        /\ final[v] = Put(before[v], other(v).column, other(v).position)
    <3>1. /\ final[w] = Put(before[w], PlacementOf(move, w).column, PlacementOf(move, w).position)
          /\ final[v] = Put(before[v], PlacementOf(move, v).column, PlacementOf(move, v).position)
      BY <1>1, <2>1, <2>2 DEF FinalPage, OnPage, Put
    <3> QED
      BY <2>3, <3>1
  <2>5. \A u \in WidgetId : u # w /\ u # v => final[u] = before[u]
    BY <2>2 DEF FinalPage
  <2>6. /\ final[w] = Put(before[w], column, position)
        /\ final[v] = Put(before[v], before[w].column, before[w].position)
    BY <2>4
  <2>7. final \in [WidgetId -> Row \cup {NoRow}]
    <3>1. final[w] \in Row /\ final[v] \in Row
      <4> HIDE DEF final
      <4> QED
        BY <1>1, <1>4, <1>5, <2>1, <2>6
    <3>2. \A u \in WidgetId : final[u] \in Row \cup {NoRow}
      <4> HIDE DEF final
      <4> QED
        BY <1>6, <2>5, <3>1
    <3> QED
      BY <3>2 DEF FinalPage
  <2>9. Exchanged(before, final, w, v, column, position)
    <3> HIDE DEF final
    <3> QED
      BY <2>1, <2>5, <2>6, <2>7 DEF Exchanged
  <2> QED
    BY <1>1, <1>2, <2>1, <2>9, ExchangedPage DEF Proper
<1> QED
  BY <1>7, <1>8

\* placementsForMove makes a list the server accepts on the page it was made for, unless
\* the box that is dragged comes from below the grid and would send another one there.
LEMMA MoveIsValid ==
    ASSUME NEW before, Proper(before), NEW w \in WidgetId, ~OffGrid(before[w]),
           NEW column \in Column, NEW position \in 0..MaxPosition,
           NEW move, move = PlacementsForMove(before, w, column, position), move # <<>>
    PROVE  ValidatePlacements(move, before) = "none"
<1> DEFINE occupants == {v \in OnPage(before) \ {w} : Slot(before[v]) = <<column, position>>}
           other(v) == [id |-> v, column |-> before[w].column, position |-> before[w].position]
           moved == [id |-> w, column |-> column, position |-> position]
<1>1. w \in OnPage(before) /\ SlotsDistinct(FinalPage(move, before))
  <2>1. w \in OnPage(before)
    BY DEF PlacementsForMove
  <2> QED
    BY <2>1, MovedPage DEF Proper
<1>2. /\ DOMAIN move = 1..Len(move) /\ Len(move) <= 2
      /\ \A i \in 1..Len(move) : move[i].id \in OnPage(before) /\ ~OffGrid(move[i])
      /\ Len(move) = 2 => move[1].id # move[2].id
  <2>0. ~OffGrid(moved)
    BY LayoutAssumption DEF OffGrid
  <2>1. CASE occupants = {}
    <3>1. move = <<moved>>
      BY <1>1, <2>1 DEF PlacementsForMove
    <3> QED
      BY <1>1, <2>0, <3>1
  <2>2. CASE occupants # {}
    <3>1. PICK v \in occupants : move = <<moved, other(v)>>
      BY <1>1, <2>2 DEF PlacementsForMove
    <3>2. v \in OnPage(before) /\ v # w /\ ~OffGrid(other(v))
      BY <3>1 DEF OffGrid
    <3>3. /\ Len(move) = 2 /\ DOMAIN move = 1..2 /\ move[1] = moved /\ move[2] = other(v)
      BY <3>1
    <3> HIDE DEF other, moved
    <3>4. moved.id = w /\ other(v).id = v
      BY DEF moved, other
    <3>5. \A i \in 1..2 : i = 1 \/ i = 2
      OBVIOUS
    <3> QED
      BY <1>1, <2>0, <3>2, <3>3, <3>4, <3>5
  <2> QED
    BY <2>1, <2>2
<1>3. Faults(move, before) = {}
  <2> SUFFICES ASSUME NEW i \in 1..Len(move) PROVE PlacementFault(move, before, i) = "none"
    BY <1>2 DEF Faults
  <2>1. move[i].id # 0
    BY <1>2, LayoutAssumption DEF OnPage
  <2>2. ~\E j \in 1..(i - 1) : move[j].id = move[i].id
    <3>1. Len(move) \in Nat
      BY <1>1, MoveIsAList
    <3>2. ASSUME NEW j \in 1..(i - 1) PROVE j = 1 /\ i = 2 /\ Len(move) = 2
      BY <1>2, <3>1
    <3> QED
      BY <1>2, <3>2
  <2> QED
    BY <1>2, <2>1, <2>2 DEF PlacementFault
<1>4. ~FirstFaultIs("denied", move, before)
  BY <1>3 DEF FirstFaultIs
<1> QED
  <2>1. ~(Len(move) > MaxPlacements)
    <3>1. Len(move) \in Nat
      BY <1>1, MoveIsAList
    <3> QED
      BY <1>2, <3>1, EditorAssumption, LayoutAssumption
  <2> QED
    BY <1>1, <1>3, <1>4, <2>1 DEF ValidatePlacements

-----------------------------------------------------------------------------
(* The rows.                                                                *)

HomeInv ==
    /\ Proper(rows) /\ version \in Nat /\ version # 0
    /\ others \in 0..MaxOthers

WorkInv ==
    /\ change \in Change /\ hurried \in BOOLEAN
    /\ ToServe => change.w \in WidgetId

\* HomePage speaks of the same pages.
LEMMA SameTerms ==
    /\ Abstract!Page = Page /\ Abstract!Row = Row /\ Abstract!Column = Column
    /\ \A p : Abstract!OnPage(p) = OnPage(p) /\ (Abstract!SlotsDistinct(p) <=> SlotsDistinct(p))
    /\ \A r : Abstract!Slot(r) = Slot(r)
BY DEF Abstract!Page, Abstract!Row, Abstract!Column, Abstract!OnPage, Abstract!SlotsDistinct,
       Abstract!Slot, Page, Row, Column, OnPage, SlotsDistinct, Slot

LEMMA AcceptedSave ==
    ASSUME HomeInv, NEW move \in Seq(Placement),
           ValidatePlacements(move, rows) = "none",
           rows' = FinalPage(move, rows), version' = version + 1
    PROVE  Proper(rows') /\ Abstract!Save /\ OnPage(rows') = OnPage(rows)
<1>1. Accepted(move, rows)
  BY ValidationAccepts DEF HomeInv, Proper
<1>2. /\ FinalPage(move, rows) \in Page /\ Proper(FinalPage(move, rows))
      /\ \A w \in WidgetId : Abstract!Rearranged(rows[w], FinalPage(move, rows)[w])
      /\ OnPage(FinalPage(move, rows)) = OnPage(rows)
  <2>1. /\ FinalPage(move, rows) \in Page /\ Proper(FinalPage(move, rows))
        /\ \A w \in WidgetId :
              /\ FinalPage(move, rows)[w] = NoRow <=> rows[w] = NoRow
              /\ ~(\E i \in 1..Len(move) : move[i].id = w)
                    => FinalPage(move, rows)[w] = rows[w]
        /\ \A i \in 1..Len(move) :
              /\ FinalPage(move, rows)[move[i].id].key = rows[move[i].id].key
              /\ FinalPage(move, rows)[move[i].id].column = move[i].column
              /\ FinalPage(move, rows)[move[i].id].position = move[i].position
    BY <1>1, FinalPageRows DEF HomeInv
  <2>2. ASSUME NEW i \in 1..Len(move)
        PROVE  Abstract!Rearranged(rows[move[i].id], FinalPage(move, rows)[move[i].id])
    <3>1. /\ move[i].id \in OnPage(rows) /\ move[i].column \in Column
          /\ move[i].position \in 0..MaxPosition
      BY <1>1 DEF Accepted
    <3> QED
      BY <2>1, <3>1, SameTerms DEF OnPage, Abstract!Rearranged
  <2>3. ASSUME NEW w \in WidgetId
        PROVE  Abstract!Rearranged(rows[w], FinalPage(move, rows)[w])
    BY <2>1, <2>2 DEF Abstract!Rearranged
  <2>4. OnPage(FinalPage(move, rows)) = OnPage(rows)
    BY <2>1 DEF OnPage
  <2> QED
    BY <2>1, <2>3, <2>4
<1> QED
  BY <1>2, SameTerms DEF HomeInv, Abstract!Save, Proper

LEMMA OtherSavesStep ==
    ASSUME HomeInv, NEW w \in WidgetId, NEW column \in Column, NEW position \in Position,
           OtherSaves(w, column, position)
    PROVE  HomeInv' /\ Abstract!Save /\ OnPage(rows') = OnPage(rows)
<1> DEFINE move == PlacementsForMove(rows, w, column, position)
<1>1. /\ move # <<>> /\ ValidatePlacements(move, rows) = "none"
      /\ rows' = FinalPage(move, rows) /\ version' = version + 1
      /\ others < MaxOthers /\ others' = others + 1
  BY DEF OtherSaves
<1>2. move \in Seq(Placement)
  BY <1>1, MovedPage DEF HomeInv, Position
<1>3. Proper(rows') /\ Abstract!Save /\ OnPage(rows') = OnPage(rows)
  <2> HIDE DEF move
  <2> QED
    BY <1>1, <1>2, AcceptedSave
<1> QED
  BY <1>1, <1>3, EditorAssumption DEF HomeInv

LEMMA ServeAddStep ==
    ASSUME HomeInv, WorkInv, ServeAdd
    PROVE  HomeInv' /\ \E w \in WidgetId : Abstract!Add(w, rows'[w])
<1> DEFINE w == change.w
<1>1. PICK position \in 0..(MaxPosition + 1) :
         /\ \A p \in Below : p < position
         /\ rows' = [rows EXCEPT
               ![w] = [key |-> change.key, column |-> 1, position |-> position]]
  BY DEF ServeAdd
<1> DEFINE row == [key |-> change.key, column |-> 1, position |-> position]
<1>2. rows[w] = NoRow /\ w \in WidgetId /\ row \in Row /\ position \in Int /\ position >= 0
  <2>1. \A v \in WidgetId : rows[v] = NoRow \/ rows[v] \in Row
    BY DEF HomeInv, Proper, Page
  <2>2. rows[w] = NoRow
    BY DEF ServeAdd
  <2>3. w \in WidgetId /\ change.key \in WidgetKey
    BY DEF WorkInv, Change, ServeAdd, ToServe
  <2> QED
    BY <2>2, <2>3, LayoutAssumption DEF Row, Column
<1>3. /\ rows'[w] = row /\ \A v \in WidgetId : v # w => rows'[v] = rows[v]
      /\ rows' \in Page /\ row # NoRow
  BY <1>1, <1>2, NoRowAssumption DEF HomeInv, Proper, Page
<1>4. \A v \in OnPage(rows) : v # w /\ rows[v] \in Row /\ Slot(rows[v]) # Slot(row)
  <2> SUFFICES ASSUME NEW v \in OnPage(rows), Slot(rows[v]) = Slot(row) PROVE FALSE
    BY <1>2 DEF HomeInv, Proper, Page, OnPage
  <2>1. rows[v].column = 1 /\ rows[v].position = position
    BY DEF Slot
  <2>2. position \in Below
    BY <2>1 DEF Below, OnPage
  <2> QED
    BY <1>1, <1>2, <2>2
<1> HIDE DEF row
<1>5. OnPage(rows') = OnPage(rows) \cup {w}
  <2>1. \A x \in WidgetId : rows'[x] # NoRow <=> x = w \/ rows[x] # NoRow
    BY <1>3
  <2> QED
    BY <1>2, <2>1 DEF OnPage
<1>9. \A v \in OnPage(rows) : v # w /\ rows'[v] = rows[v]
  BY <1>3, <1>4 DEF OnPage
<1>6. SlotsDistinct(rows')
  BY <1>3, <1>4, <1>5, <1>9 DEF HomeInv, Proper, SlotsDistinct
<1>7. Proper(rows')
  <2>1. row.position >= 0
    BY <1>2 DEF row
  <2>2. \A v \in OnPage(rows') : rows'[v].position >= 0
    BY <1>3, <1>5, <1>9, <2>1 DEF HomeInv, Proper
  <2> QED
    BY <1>3, <1>6, <2>2 DEF Proper
<1>8. Abstract!Add(w, rows'[w])
  <2>1. row.position >= 0 /\ rows' = [rows EXCEPT ![w] = row] /\ version' = version
    BY <1>1, <1>2 DEF row, ServeAdd
  <2> QED
    BY <1>2, <1>3, <1>4, <2>1, SameTerms DEF Abstract!Add
<1> QED
  BY <1>2, <1>7, <1>8 DEF HomeInv, ServeAdd

LEMMA ServeRemoveStep ==
    ASSUME HomeInv, ServeRemove
    PROVE  HomeInv' /\ \E w \in WidgetId : Abstract!Remove(w)
<1> DEFINE w == change.w
<1>1. w \in OnPage(rows) /\ rows[w].key # ProfileKey /\ rows' = [rows EXCEPT ![w] = NoRow]
  BY DEF ServeRemove
<1>2. /\ rows' \in Page /\ OnPage(rows') = OnPage(rows) \ {w}
      /\ \A v \in OnPage(rows') : rows'[v] = rows[v]
  BY <1>1 DEF HomeInv, Proper, Page, OnPage
<1>3. Proper(rows')
  BY <1>2 DEF HomeInv, Proper, SlotsDistinct
<1>4. Abstract!Remove(w)
  BY <1>1, SameTerms DEF ServeRemove, Abstract!Remove
<1> QED
  BY <1>1, <1>3, <1>4 DEF HomeInv, ServeRemove, OnPage

-----------------------------------------------------------------------------
(* The lock, the sessions and the modes.                                    *)

LockInv ==
    /\ lock \in 0..MaxTokens /\ issued \in 0..MaxTokens /\ token \in 0..MaxTokens
    /\ mode \in {"view", "edit", "away"}
    /\ opened \in 0..MaxLeases /\ leases \in [1..MaxLeases -> Lease]
    /\ closes \in [1..MaxTokens -> [sent : Nat, matched : Nat]]

LEMMA ClosingIsTyped ==
    ASSUME NEW c \in [1..MaxTokens -> [sent : Nat, matched : Nat]], NEW t \in 0..MaxTokens
    PROVE  Closing(c, t) \in [1..MaxTokens -> [sent : Nat, matched : Nat]]
<1>1. CASE t = 0
  BY <1>1 DEF Closing
<1>2. CASE t # 0
  <2>1. t \in 1..MaxTokens /\ c[t] \in [sent : Nat, matched : Nat]
    BY <1>2, EditorAssumption
  <2> QED
    BY <1>2, <2>1 DEF Closing
<1> QED
  BY <1>1, <1>2

LEMMA OpensIsTyped ==
    ASSUME LockInv, NEW needed \in BOOLEAN, OpensIf(needed)
    PROVE  opened' \in 0..MaxLeases /\ leases' \in [1..MaxLeases -> Lease]
<1>1. CASE needed
  <2>1. opened < MaxLeases /\ opened' = opened + 1
    BY <1>1 DEF OpensIf, OpensSession
  <2>2. [NoLease EXCEPT !.stage = "asked", !.wanted = TRUE] \in Lease
    <3>1. 0 \in 0..MaxTokens /\ NoLease \in Lease
      BY EditorAssumption DEF NoLease, Lease
    <3> QED
      BY <3>1 DEF Lease
  <2>3. \A i \in 1..MaxLeases : [leases[i] EXCEPT !.wanted = FALSE] \in Lease
    BY DEF LockInv, Lease
  <2>4. leases' \in [1..MaxLeases -> Lease]
    BY <1>1, <2>2, <2>3 DEF OpensIf, OpensSession
  <2> QED
    BY <2>1, <2>4, EditorAssumption DEF LockInv
<1>2. CASE ~needed
  BY <1>2 DEF OpensIf, LockInv
<1> QED
  BY <1>1, <1>2

LEMMA UnwantedIsTyped ==
    ASSUME LockInv, Unwanted PROVE leases' \in [1..MaxLeases -> Lease]
<1>1. \A i \in 1..MaxLeases : [leases[i] EXCEPT !.wanted = FALSE] \in Lease
  BY DEF LockInv, Lease
<1> QED
  BY <1>1 DEF Unwanted

\* The steps of the page that concern the lock.
LEMMA ModeStep ==
    ASSUME LockInv, NEW m \in {"view", "edit"},
           LayoutArrives \/ Edit \/ Cancel \/ Back \/ Leave \/ Return(m)
    PROVE  LockInv'
<1>1. CASE LayoutArrives \/ Edit \/ Return(m)
  <2>1. PICK needed \in BOOLEAN : OpensIf(needed)
    <3>1. CASE LayoutArrives
      BY <3>1 DEF LayoutArrives
    <3>2. CASE Edit
      BY <3>2 DEF Edit, OpensIf
    <3>3. CASE Return(m)
      BY <3>3 DEF Return
    <3> QED
      BY <1>1, <3>1, <3>2, <3>3
  <2>2. /\ UNCHANGED <<lock, issued, token, closes>>
        /\ mode' \in {"view", "edit", "away"}
    BY <1>1 DEF LayoutArrives, Edit, Return, LockInv, redis, page
  <2> QED
    BY <2>1, <2>2, OpensIsTyped DEF LockInv
<1>2. CASE Cancel \/ Back \/ Leave
  <2>1. /\ UNCHANGED <<lock, issued, opened>> /\ mode' \in {"view", "away"}
        /\ token' \in {0, token} /\ Unwanted
        /\ closes' \in {closes, Closing(closes, token), Closing(Closing(closes, token), token)}
    BY <1>2 DEF Cancel, Back, Leave, redis
  <2>2. /\ Closing(closes, token) \in [1..MaxTokens -> [sent : Nat, matched : Nat]]
        /\ Closing(Closing(closes, token), token)
              \in [1..MaxTokens -> [sent : Nat, matched : Nat]]
    BY ClosingIsTyped DEF LockInv
  <2>3. token' \in 0..MaxTokens
    BY <2>1, EditorAssumption DEF LockInv
  <2> QED
    BY <2>1, <2>2, <2>3, UnwantedIsTyped DEF LockInv
<1> QED
  BY <1>1, <1>2

LEMMA LockStep ==
    ASSUME LockInv, LockSteps
    PROVE  LockInv'
<1>0. 0 \in 0..MaxTokens /\ MaxTokens \in Nat
  BY EditorAssumption
<1>1. ASSUME NEW i \in 1..MaxLeases, TakeLock(i) PROVE LockInv'
  <2>1. /\ UNCHANGED <<token, mode, opened, closes>>
        /\ lock' \in 0..MaxTokens /\ issued' \in 0..MaxTokens
        /\ \E stage \in {"granted", "taken"}, t \in 0..MaxTokens :
              leases' = [leases EXCEPT ![i] = [@ EXCEPT !.stage = stage, !.token = t]]
    <3>1. CASE lock = 0
      <4>1. issued + 1 \in 0..MaxTokens /\ lock' = issued + 1 /\ issued' = issued + 1
        BY <1>0, <1>1, <3>1 DEF TakeLock, Makes, LockInv
      <4> QED
        BY <1>1, <3>1, <4>1 DEF TakeLock, page
    <3>2. CASE lock # 0
      <4>1. leases[i] = [leases[i] EXCEPT !.token = leases[i].token]
            /\ leases[i].token \in 0..MaxTokens
        BY DEF LockInv, Lease
      <4>2. leases' = [leases EXCEPT ![i] = [@ EXCEPT !.stage = "taken",
                                                      !.token = leases[i].token]]
        BY <1>1, <3>2, <4>1 DEF TakeLock, LockInv, Lease
      <4> QED
        BY <1>1, <3>2, <4>1, <4>2 DEF TakeLock, LockInv, redis, page
    <3> QED
      BY <3>1, <3>2
  <2> QED
    BY <2>1 DEF LockInv, Lease
<1>2. ASSUME NEW i \in 1..MaxLeases, ReadHolder(i) PROVE LockInv'
  <2>1. UNCHANGED <<redis, page, opened, closes>>
    BY <1>2 DEF ReadHolder
  <2>2. PICK stage \in {"refused", "granted"} :
           leases' = [leases EXCEPT ![i].stage = stage, ![i].token = lock]
    BY <1>2 DEF ReadHolder
  <2>3. [leases[i] EXCEPT !.stage = stage, !.token = lock] \in Lease
    BY DEF LockInv, Lease
  <2>4. leases' \in [1..MaxLeases -> Lease]
    <3>1. leases' = [leases EXCEPT ![i] = [leases[i] EXCEPT !.stage = stage, !.token = lock]]
      BY <2>2 DEF LockInv
    <3> QED
      BY <2>3, <3>1 DEF LockInv
  <2> QED
    BY <2>1, <2>4 DEF LockInv, redis, page
<1>3. ASSUME NEW i \in 1..MaxLeases, LeaseGranted(i) \/ LeaseFails(i) PROVE LockInv'
  <2>1. NoLease \in Lease
    BY <1>0 DEF NoLease, Lease
  <2>2. leases' \in [1..MaxLeases -> Lease] /\ UNCHANGED <<redis, mode, opened>>
    BY <1>3, <2>1 DEF LeaseGranted, LeaseFails, Ends, LockInv, page
  <2>3. leases[i].token \in 0..MaxTokens
    BY DEF LockInv, Lease
  <2>4. token' \in 0..MaxTokens /\ closes' \in {closes, Closing(closes, token)}
    BY <1>3, <2>3 DEF LeaseGranted, LeaseFails, LockInv, page
  <2> QED
    BY <2>2, <2>4, ClosingIsTyped DEF LockInv, redis
<1>4. ASSUME NEW t \in 1..MaxTokens, CompareToken(t) \/ DeleteKey(t) PROVE LockInv'
  <2>1. closes[t].sent \in Nat /\ closes[t].matched \in Nat
    BY DEF LockInv
  <2>2. closes' \in [1..MaxTokens -> [sent : Nat, matched : Nat]]
    <3>1. CASE CompareToken(t)
      <4>1. closes[t].sent - 1 \in Nat
        BY <2>1, <3>1 DEF CompareToken
      <4> QED
        BY <2>1, <3>1, <4>1 DEF CompareToken, LockInv
    <3>2. CASE DeleteKey(t)
      <4>1. closes[t].matched - 1 \in Nat
        BY <2>1, <3>2 DEF DeleteKey
      <4> QED
        BY <2>1, <3>2, <4>1 DEF DeleteKey, LockInv
    <3> QED
      BY <1>4, <3>1, <3>2
  <2>3. lock' \in {0, lock} /\ UNCHANGED <<issued, page, opened, leases>>
    BY <1>4 DEF CompareToken, DeleteKey, redis
  <2> QED
    BY <1>0, <2>2, <2>3 DEF LockInv, page
<1>5. CASE LockGone
  BY <1>0, <1>5 DEF LockGone, LockInv, page, leasing
<1> QED
  BY <1>1, <1>2, <1>3, <1>4, <1>5 DEF LockSteps

-----------------------------------------------------------------------------
(* The cache and the saves.                                                 *)

GoodLayout(layout) ==
    layout \in LayoutOrNone /\ (layout # NoLayout => layout \in Layout /\ Proper(layout.rows))

CacheInv ==
    /\ cache \in Cache
    /\ GoodLayout(cache.data) /\ GoodLayout(cache.got)

LEMMA CurrentIsGood == HomeInv => GoodLayout(Current) /\ Current \in Layout
BY DEF HomeInv, Proper, GoodLayout, Current, Layout, LayoutOrNone

LEMMA NoneIsGood == GoodLayout(NoLayout)
BY DEF GoodLayout, LayoutOrNone

\* A save in order.  The last drag alone may speak; the server has applied it or not
\* according to where it is.
SaveInv(i) ==
    /\ saves[i] \in Save
    /\ GoodLayout(saves[i].previous) /\ GoodLayout(saves[i].got)
    /\ saves[i].loud => i = drags
    /\ i > drags => saves[i].stage = "none"
    /\ saves[i].lost => saves[i].stage \in {"sent", "admitted"}
    /\ saves[i].stage \in {"applied", "ok"} => saves[i].applied
    /\ saves[i].stage \in {"sent", "admitted", "stale", "conflict"} => ~saves[i].applied

SavesInv ==
    /\ drags \in 0..MaxDrags /\ DOMAIN saves = 1..MaxDrags
    /\ saves = [i \in 1..MaxDrags |-> saves[i]]
    /\ \A i \in 1..MaxDrags : SaveInv(i)

\* What was said is said of the last drag, which is over.
SaidInv ==
    /\ said \in Message
    /\ said # "nothing" => drags > 0 /\ saves[drags].stage = "done"
    /\ said = "saved" => saves[drags].applied
    /\ said = "conflict" => ~saves[drags].applied

IInv == HomeInv /\ LockInv /\ CacheInv /\ SavesInv /\ SaidInv /\ WorkInv

LEMMA NoSaveIsTyped == NoSave \in Save
BY EditorAssumption DEF NoSave, Save, LayoutOrNone

\* One save is replaced by another in order.
Becomes(i, save) ==
    /\ saves' = [saves EXCEPT ![i] = save] /\ drags' = drags
    /\ save \in Save /\ saves[i].stage # "none"
    /\ GoodLayout(save.previous) /\ GoodLayout(save.got)
    /\ save.loud => saves[i].loud
    /\ save.lost => save.stage \in {"sent", "admitted"}
    /\ save.stage \in {"applied", "ok"} => save.applied
    /\ save.stage \in {"sent", "admitted", "stale", "conflict"} => ~save.applied

LEMMA OneSave ==
    ASSUME SavesInv, NEW i \in 1..MaxDrags, NEW save, Becomes(i, save)
    PROVE  SavesInv'
<1> USE DEF Becomes
<1>1. saves'[i] = save /\ \A j \in 1..MaxDrags : j # i => saves'[j] = saves[j]
  BY DEF SavesInv
<1>2. DOMAIN saves' = 1..MaxDrags /\ saves' = [j \in 1..MaxDrags |-> saves'[j]]
  BY DEF SavesInv
<1>3. ASSUME NEW j \in 1..MaxDrags PROVE SaveInv(j)'
  <2>1. CASE j = i
    BY <1>1, <2>1 DEF SavesInv, SaveInv, GoodLayout
  <2>2. CASE j # i
    BY <1>1, <2>2 DEF SavesInv, SaveInv, GoodLayout
  <2> QED
    BY <2>1, <2>2
<1> QED
  BY <1>2, <1>3 DEF SavesInv

\* What the server makes of a save.
LEMMA ReachesSave ==
    ASSUME NEW before \in Save, NEW stage \in {"admitted", "locked", "invalid", "stale", "applied"},
           NEW save, save = Reaches(before, stage)
    PROVE  /\ save \in Save /\ save.applied = before.applied
           /\ before.lost /\ stage # "admitted" =>
                 /\ save.stage = "done" /\ ~save.lost /\ ~save.loud
                 /\ save.previous = NoLayout /\ save.got = NoLayout
           /\ ~(before.lost /\ stage # "admitted") =>
                 /\ save.stage = stage /\ save.lost = before.lost /\ save.loud = before.loud
                 /\ save.at = before.at /\ save.move = before.move
                 /\ save.previous = before.previous /\ save.got = before.got
<1>1. CASE before.lost /\ stage # "admitted"
  <2>1. save = [NoSave EXCEPT !.stage = "done", !.applied = before.applied]
    BY <1>1 DEF Reaches, Over
  <2> QED
    BY <1>1, <2>1, NoSaveIsTyped DEF Save, NoSave
<1>2. CASE ~(before.lost /\ stage # "admitted")
  <2>1. save = [before EXCEPT !.stage = stage]
    BY <1>2 DEF Reaches
  <2> QED
    BY <1>2, <2>1 DEF Save
<1> QED
  BY <1>1, <1>2

\* A message stays true while saves that are over stay so.
LEMMA SaidStays ==
    ASSUME SavesInv, SaidInv, drags' = drags, said' \in {said, "nothing"},
           \A i \in 1..MaxDrags : saves[i].stage = "done"
               => saves'[i].stage = "done" /\ saves'[i].applied = saves[i].applied
    PROVE  SaidInv'
<1>1. said # "nothing" => drags \in 1..MaxDrags
  BY DEF SaidInv, SavesInv
<1> QED
  BY <1>1 DEF SaidInv, Message

\* The server's steps of a save.
LEMMA ServerStep ==
    ASSUME IInv, NEW i \in 1..MaxDrags,
           VerifyLock(i) \/ Apply(i) \/ Refuse(i) \/ ReadBack(i)
    PROVE  SavesInv' /\ SaidInv'
<1>1. saves[i] \in Save /\ SaveInv(i) /\ UNCHANGED <<drags, said>>
  BY DEF IInv, SavesInv, SaveInv, VerifyLock, Apply, Refuse, ReadBack, page
<1>2. saves[i].stage \notin {"none", "done"} /\ saves[i].stage # "ok"
  BY DEF VerifyLock, Apply, Refuse, ReadBack
<1>3. ASSUME NEW stage \in {"admitted", "locked", "invalid", "stale"}, ToStage(i, stage),
             saves[i].stage \in {"sent", "admitted"}
      PROVE  SavesInv'
  <2>1. PICK save : save = Reaches(saves[i], stage)
    OBVIOUS
  <2>2. saves' = [saves EXCEPT ![i] = save]
    BY <1>3, <2>1 DEF ToStage
  <2>3. Becomes(i, save)
    BY <1>1, <1>2, <1>3, <2>1, <2>2, ReachesSave, NoneIsGood DEF SaveInv, Becomes
  <2> QED
    BY <2>3, OneSave DEF IInv
<1>4. ASSUME VerifyLock(i) PROVE SavesInv'
  <2>1. ToStage(i, "admitted") \/ ToStage(i, "locked")
    BY <1>4 DEF VerifyLock
  <2> QED
    BY <1>3, <1>4, <2>1 DEF VerifyLock
<1>5. ASSUME Apply(i) PROVE SavesInv'
  <2>1. CASE ToStage(i, "invalid")
    BY <1>3, <1>5, <2>1 DEF Apply
  <2>2. CASE saves' = [saves EXCEPT
                   ![i] = Reaches([saves[i] EXCEPT !.applied = TRUE], "applied")]
    <3>1. PICK before : before = [saves[i] EXCEPT !.applied = TRUE]
      OBVIOUS
    <3>2. /\ before \in Save /\ before.applied /\ before.loud = saves[i].loud
          /\ before.lost = saves[i].lost /\ before.previous = saves[i].previous
          /\ before.got = saves[i].got
      BY <1>1, <3>1 DEF Save
    <3>4. PICK save : save = Reaches(before, "applied")
      OBVIOUS
    <3>5. saves' = [saves EXCEPT ![i] = save]
      BY <2>2, <3>1, <3>4
    <3>3. Becomes(i, save)
      BY <1>1, <1>2, <3>2, <3>4, <3>5, ReachesSave, NoneIsGood DEF SaveInv, Becomes
    <3> QED
      BY <3>3, OneSave DEF IInv
  <2> QED
    BY <1>5, <2>1, <2>2 DEF Apply
<1>6. ASSUME Refuse(i) PROVE SavesInv'
  BY <1>3, <1>6 DEF Refuse
<1>7. ASSUME ReadBack(i) PROVE SavesInv'
  <2>1. PICK stage \in {"ok", "conflict"}, got \in {Current, NoLayout} :
           /\ saves[i].stage = IF stage = "ok" THEN "applied" ELSE "stale"
           /\ saves' = [saves EXCEPT ![i].stage = stage, ![i].got = got]
    BY <1>7 DEF ReadBack
  <2>2. GoodLayout(got) /\ got \in LayoutOrNone
    BY CurrentIsGood, NoneIsGood DEF GoodLayout, IInv
  <2> DEFINE save == [saves[i] EXCEPT !.stage = stage, !.got = got]
  <2>3. /\ save \in Save /\ save.stage = stage /\ save.applied = saves[i].applied
        /\ save.loud = saves[i].loud /\ save.lost = saves[i].lost
        /\ save.previous = saves[i].previous /\ save.got = got
    BY <1>1, <2>2 DEF Save
  <2>4. saves' = [saves EXCEPT ![i] = save]
    BY <2>1 DEF IInv, SavesInv
  <2> HIDE DEF save
  <2>5. Becomes(i, save)
    BY <1>1, <1>2, <2>1, <2>2, <2>3, <2>4 DEF SaveInv, Becomes
  <2> QED
    BY <2>5, OneSave DEF IInv
<1>8. SavesInv'
  BY <1>4, <1>5, <1>6, <1>7
<1>9. \A j \in 1..MaxDrags : j # i => saves'[j] = saves[j]
  BY DEF VerifyLock, Apply, Refuse, ReadBack, ToStage, IInv, SavesInv
<1> QED
  BY <1>1, <1>2, <1>8, <1>9, SaidStays DEF IInv

\* The answers of a save, also the missing one.
LEMMA SettlesStep ==
    ASSUME IInv, NEW i \in 1..MaxDrags, NEW layout, GoodLayout(layout),
           NEW over \in {Over(saves[i]), Lost(saves[i])},
           NEW message \in Message, SettlesAs(i, over, layout, message),
           saves[i].stage \notin {"none", "done"},
           over = Lost(saves[i]) =>
               saves[i].stage \in {"sent", "admitted"} /\ message = "nothing",
           message = "saved" => saves[i].applied,
           message = "conflict" => ~saves[i].applied
    PROVE  SavesInv' /\ SaidInv' /\ CacheInv'
<1>1. saves[i] \in Save /\ SaveInv(i) /\ drags' = drags
  BY DEF IInv, SavesInv, SaveInv, SettlesAs
<1>2. /\ over \in Save /\ over.applied = saves[i].applied
      /\ ~over.loud /\ over.previous = NoLayout /\ over.got = NoLayout
      /\ over.stage # "done" => over.stage \in {"sent", "admitted"} /\ message = "nothing"
      /\ over.lost => over.stage \in {"sent", "admitted"}
      /\ over.stage \in {"sent", "admitted"} => over.stage = saves[i].stage
  <2>1. CASE over = Over(saves[i])
    BY <1>1, <2>1, NoSaveIsTyped DEF Save, NoSave, Over
  <2>2. CASE over = Lost(saves[i])
    BY <1>1, <2>2, NoSaveIsTyped DEF Save, NoSave, Lost
  <2> QED
    BY <2>1, <2>2
<1>3. saves' = [saves EXCEPT ![i] = over]
  BY DEF SettlesAs
<1>4. SavesInv'
  <2>1. Becomes(i, over)
    BY <1>1, <1>2, <1>3, NoneIsGood DEF Becomes, SaveInv
  <2> QED
    BY <2>1, OneSave DEF IInv
<1>5. saves'[i] = over /\ \A j \in 1..MaxDrags : j # i => saves'[j] = saves[j]
  BY <1>3 DEF IInv, SavesInv
<1>6. SaidInv'
  <2>1. CASE saves[i].loud
    <3>1. i = drags /\ drags > 0 /\ said' = message
      BY <1>1, <2>1, EditorAssumption DEF SaveInv, SettlesAs
    <3> QED
      BY <1>1, <1>2, <1>5, <3>1 DEF SaidInv
  <2>2. CASE ~saves[i].loud
    <3>1. said' = said
      BY <2>2 DEF SettlesAs
    <3> QED
      BY <1>1, <1>5, <3>1, SaidStays DEF IInv
  <2> QED
    BY <2>1, <2>2
<1>7. CacheInv'
  BY DEF SettlesAs, IInv, CacheInv, Cache, GoodLayout
<1> QED
  BY <1>4, <1>6, <1>7

LEMMA AnswerStep ==
    ASSUME IInv, NEW i \in 1..MaxDrags,
           SaveAnswered(i) \/ SaveConflicts(i) \/ SaveLocked(i) \/ SaveFails(i)
    PROVE  SavesInv' /\ SaidInv' /\ CacheInv'
<1>1. SaveInv(i) /\ GoodLayout(RolledBack(i)) /\ GoodLayout(saves[i].got)
  BY DEF IInv, SavesInv, SaveInv, RolledBack
<1>2. {"saved", "conflict", "nothing"} = Message
  BY DEF Message
<1>0. ASSUME NEW layout, GoodLayout(layout), NEW message \in Message,
             Settles(i, layout, message), saves[i].stage \notin {"none", "done"},
             message = "saved" => saves[i].applied,
             message = "conflict" => ~saves[i].applied
      PROVE  SavesInv' /\ SaidInv' /\ CacheInv'
  <2>1. Over(saves[i]) # Lost(saves[i])
    BY DEF Over, Lost, NoSave
  <2>2. SettlesAs(i, Over(saves[i]), layout, message)
    BY <1>0 DEF Settles
  <2> QED
    BY <1>0, <2>1, <2>2, SettlesStep
<1>3. CASE SaveAnswered(i)
  BY <1>0, <1>1, <1>2, <1>3 DEF SaveAnswered, SaveInv
<1>4. CASE SaveConflicts(i)
  BY <1>0, <1>1, <1>2, <1>4 DEF SaveConflicts, SaveInv
<1>5. CASE SaveLocked(i)
  BY <1>0, <1>1, <1>2, <1>5 DEF SaveLocked
<1>6. CASE SaveFails(i)
  <2>1. PICK over \in {Over(saves[i]), Lost(saves[i])} :
           /\ SettlesAs(i, over, RolledBack(i), "nothing")
           /\ over = Lost(saves[i]) => saves[i].stage \in {"sent", "admitted"}
    <3>1. CASE saves[i].stage \in {"sent", "admitted"}
      BY <1>6, <3>1 DEF SaveFails
    <3>2. CASE saves[i].stage \notin {"sent", "admitted"}
      <4>1. SettlesAs(i, Over(saves[i]), RolledBack(i), "nothing")
        BY <1>6, <3>2 DEF SaveFails
      <4>2. Over(saves[i]) # Lost(saves[i])
        BY DEF Over, Lost, NoSave
      <4> QED
        BY <4>1, <4>2
    <3> QED
      BY <3>1, <3>2
  <2> QED
    BY <1>1, <1>2, <1>6, <2>1, SettlesStep DEF SaveFails, UnderWay
<1> QED
  BY <1>3, <1>4, <1>5, <1>6

LEMMA DragStep ==
    ASSUME IInv, NEW w \in WidgetId, NEW column \in Column, NEW position \in Position,
           DragEnd(w, column, position)
    PROVE  SavesInv' /\ SaidInv' /\ CacheInv' /\ WorkInv'
<1> DEFINE move == MoveOn(Shown, w, column, position)
           save == [NoSave EXCEPT !.stage = "sent", !.at = Shown.version, !.with = token,
                                  !.move = move, !.previous = Shown, !.loud = TRUE]
<1>1. /\ Shown \in Layout /\ Proper(Shown.rows) /\ GoodLayout(Shown) /\ Shown # NoLayout
      /\ move # <<>> /\ drags < MaxDrags /\ drags' = drags + 1 /\ said' = "nothing"
  BY DEF DragEnd, Editor, IInv, CacheInv, GoodLayout, Shown
<1>2. move \in Seq(Placement) /\ FinalPage(move, Shown.rows) \in Page
      /\ Proper(FinalPage(move, Shown.rows))
  BY <1>1, MovedPage DEF MoveOn, Position
<1>3. save \in Save
  <2>1. Shown.version \in Nat /\ token \in 0..MaxTokens /\ Shown \in LayoutOrNone
    BY <1>1 DEF Layout, IInv, LockInv, GoodLayout
  <2> HIDE DEF move
  <2> QED
    BY <1>2, <2>1, NoSaveIsTyped DEF Save, NoSave
<1>4. /\ save.stage = "sent" /\ save.previous = Shown /\ save.got = NoLayout
      /\ save.loud /\ ~save.lost /\ ~save.applied
  BY DEF NoSave
<1>5. \A i \in 1..MaxDrags :
         saves'[i] = IF i = drags + 1 THEN save ELSE Silenced(saves[i])
  BY DEF DragEnd
<1>6. DOMAIN saves' = 1..MaxDrags /\ saves' = [i \in 1..MaxDrags |-> saves'[i]]
  BY DEF DragEnd
<1>7. drags \in Nat /\ drags' \in 0..MaxDrags
  BY <1>1, EditorAssumption DEF IInv, SavesInv
<1>8. ASSUME NEW i \in 1..MaxDrags PROVE SaveInv(i)'
  <2> HIDE DEF save
  <2>1. CASE i = drags + 1
    BY <1>1, <1>3, <1>4, <1>5, <1>7, <2>1, NoneIsGood DEF SaveInv, GoodLayout
  <2>2. CASE i # drags + 1
    <3>1. SaveInv(i) /\ saves'[i] = [saves[i] EXCEPT !.loud = FALSE]
      BY <1>5, <2>2 DEF IInv, SavesInv, Silenced
    <3>2. /\ saves'[i] \in Save /\ ~saves'[i].loud /\ saves'[i].stage = saves[i].stage
          /\ saves'[i].applied = saves[i].applied /\ saves'[i].got = saves[i].got
          /\ saves'[i].previous = saves[i].previous /\ saves'[i].lost = saves[i].lost
      BY <3>1 DEF SaveInv, Save
    <3> QED
      BY <1>1, <1>7, <2>2, <3>1, <3>2 DEF SaveInv, GoodLayout
  <2> QED
    BY <2>1, <2>2
<1>9. CacheInv'
  <2>1. [Shown EXCEPT !.rows = FinalPage(move, Shown.rows)] \in Layout
    BY <1>1, <1>2 DEF Layout
  <2>2. /\ cache'.data = [Shown EXCEPT !.rows = FinalPage(move, Shown.rows)]
        /\ cache'.fetch = "idle" /\ cache'.got = NoLayout
        /\ cache' = [data |-> cache'.data, error |-> cache.error, fetch |-> "idle",
                     got |-> NoLayout]
    BY DEF DragEnd, IInv, CacheInv, Cache, Shown
  <2>3. Proper(cache'.data.rows) /\ cache'.data \in Layout
    BY <1>1, <1>2, <2>1, <2>2 DEF Layout
  <2>4. cache.error \in BOOLEAN
    BY DEF IInv, CacheInv, Cache
  <2> HIDE DEF move
  <2> QED
    BY <2>2, <2>3, <2>4, NoneIsGood DEF CacheInv, Cache, GoodLayout, LayoutOrNone
<1>10. hurried' \in BOOLEAN /\ change' = change
  BY DEF DragEnd, IInv, WorkInv, Busy
<1> QED
  BY <1>1, <1>6, <1>7, <1>8, <1>9, <1>10 DEF SavesInv, SaidInv, Message, WorkInv, ToServe, IInv

LEMMA LeaveStep ==
    ASSUME IInv, Leave
    PROVE  SavesInv' /\ SaidInv' /\ CacheInv'
<1>1. \A i \in 1..MaxDrags : saves'[i] = [saves[i] EXCEPT !.loud = FALSE]
  BY DEF Leave, Silenced
<1>2. DOMAIN saves' = 1..MaxDrags /\ saves' = [i \in 1..MaxDrags |-> saves'[i]]
  BY DEF Leave
<1>3. ASSUME NEW i \in 1..MaxDrags PROVE SaveInv(i)'
  <2>1. SaveInv(i) /\ drags' = drags
    BY DEF Leave, IInv, SavesInv
  <2>2. /\ saves'[i] \in Save /\ ~saves'[i].loud /\ saves'[i].stage = saves[i].stage
        /\ saves'[i].applied = saves[i].applied /\ saves'[i].got = saves[i].got
        /\ saves'[i].previous = saves[i].previous /\ saves'[i].lost = saves[i].lost
    BY <1>1, <2>1 DEF SaveInv, Save
  <2> QED
    BY <2>1, <2>2 DEF SaveInv, GoodLayout
<1>4. CacheInv'
  BY NoneIsGood DEF Leave, IInv, CacheInv, Cache, GoodLayout, LayoutOrNone
<1> QED
  BY <1>2, <1>3, <1>4 DEF Leave, SavesInv, SaidInv, Message, IInv

-----------------------------------------------------------------------------
(* The fetches.                                                             *)

\* What is asked again, and what is not.
LEMMA AskedCache ==
    ASSUME CacheInv, NEW new \in {cache, Asked(cache), Invalidated(cache)}
    PROVE  new \in Cache /\ GoodLayout(new.data) /\ GoodLayout(new.got)
<1>1. /\ Asked(cache) \in Cache /\ Asked(cache).data = cache.data
      /\ Asked(cache).got = NoLayout /\ Asked(cache).fetch = "asked"
  BY NoneIsGood DEF CacheInv, Asked, Cache, GoodLayout
<1>2. new \in {cache, Asked(cache)}
  BY DEF Invalidated
<1> QED
  BY <1>1, <1>2, NoneIsGood DEF CacheInv

LEMMA FetchStep ==
    ASSUME IInv,
           \/ ServeLayout \/ LayoutArrives \/ LayoutFails \/ ChangeSettles
           \/ \E m \in {"view", "edit"} : Return(m)
           \/ \E i \in 1..MaxLeases : LeaseGranted(i)
    PROVE  CacheInv'
<1>0. CacheInv /\ HomeInv
  BY DEF IInv
<1>1. ASSUME ServeLayout PROVE CacheInv'
  <2>1. GoodLayout(Current)
    BY <1>0, CurrentIsGood
  <2> QED
    BY <1>0, <1>1, <2>1 DEF ServeLayout, CacheInv, Cache, GoodLayout
<1>2. ASSUME LayoutArrives PROVE CacheInv'
  BY <1>0, <1>2, NoneIsGood DEF LayoutArrives, CacheInv, Cache, GoodLayout
<1>3. ASSUME LayoutFails PROVE CacheInv'
  BY <1>0, <1>3, NoneIsGood DEF LayoutFails, CacheInv, Cache, GoodLayout
<1>4. ASSUME ChangeSettles \/ \E i \in 1..MaxLeases : LeaseGranted(i) PROVE CacheInv'
  <2>1. cache' = Invalidated(cache)
    BY <1>4 DEF ChangeSettles, LeaseGranted
  <2> QED
    BY <1>0, <2>1, AskedCache DEF CacheInv, GoodLayout
<1>5. ASSUME NEW m \in {"view", "edit"}, Return(m) PROVE CacheInv'
  <2>1. PICK error \in BOOLEAN : cache' = [Asked(cache) EXCEPT !.error = error]
    BY <1>0, <1>5 DEF Return, CacheInv, Cache, Asked
  <2>2. /\ Asked(cache) \in Cache /\ GoodLayout(Asked(cache).data)
        /\ GoodLayout(Asked(cache).got)
    BY <1>0, AskedCache
  <2> QED
    BY <2>1, <2>2 DEF CacheInv, Cache, GoodLayout
<1> QED
  BY <1>1, <1>2, <1>3, <1>4, <1>5

-----------------------------------------------------------------------------
(* All the steps.  Each leaves most parties alone.                           *)

Stutters == UNCHANGED Abstract!vars

LEMMA HomeKept == ASSUME HomeInv, UNCHANGED home PROVE HomeInv' /\ Stutters
BY DEF HomeInv, home, Stutters, Abstract!vars, Proper, SlotsDistinct, OnPage

LEMMA LockKept ==
    ASSUME LockInv, UNCHANGED <<redis, mode, token, leasing>> PROVE LockInv'
BY DEF LockInv, redis, leasing

LEMMA CacheKept == ASSUME CacheInv, UNCHANGED cache PROVE CacheInv'
BY DEF CacheInv, GoodLayout

LEMMA SavesKept == ASSUME SavesInv, UNCHANGED <<drags, saves>> PROVE SavesInv'
BY DEF SavesInv, SaveInv, GoodLayout

LEMMA SaidKept == ASSUME SaidInv, UNCHANGED <<drags, saves, said>> PROVE SaidInv'
BY DEF SaidInv

LEMMA WorkKept == ASSUME WorkInv, UNCHANGED <<change, hurried>> PROVE WorkInv'
BY DEF WorkInv, ToServe

LEMMA Kept ==
    ASSUME IInv
    PROVE  /\ UNCHANGED home => HomeInv' /\ Stutters
           /\ UNCHANGED <<redis, mode, token, leasing>> => LockInv'
           /\ UNCHANGED cache => CacheInv'
           /\ UNCHANGED <<drags, saves>> => SavesInv'
           /\ UNCHANGED <<drags, saves, said>> => SaidInv'
           /\ UNCHANGED <<change, hurried>> => WorkInv'
BY HomeKept, LockKept, CacheKept, SavesKept, SaidKept, WorkKept DEF IInv

Promised == Stutters \/ Abstract!Next

LEMMA PageSteps ==
    ASSUME IInv, NEW m \in {"view", "edit"},
           \/ ServeLayout \/ LayoutArrives \/ LayoutFails
           \/ Edit \/ Cancel \/ Back \/ Leave \/ Return(m)
    PROVE  IInv' /\ Promised
<1> USE DEF IInv, Promised
<1>1. CASE ServeLayout \/ LayoutFails
  <2>1. CacheInv'
    BY <1>1, FetchStep
  <2>2. /\ UNCHANGED home /\ UNCHANGED <<redis, mode, token, leasing>>
        /\ UNCHANGED <<drags, saves>> /\ UNCHANGED <<drags, saves, said>>
        /\ UNCHANGED <<change, hurried>>
    BY <1>1 DEF ServeLayout, LayoutFails, page
  <2> QED
    BY <2>1, <2>2, Kept
<1>2. CASE LayoutArrives \/ Return(m)
  <2>1. CacheInv' /\ LockInv'
    BY <1>2, FetchStep, ModeStep
  <2>2. /\ UNCHANGED home /\ UNCHANGED <<drags, saves>>
        /\ UNCHANGED <<drags, saves, said>> /\ UNCHANGED <<change, hurried>>
    BY <1>2 DEF LayoutArrives, Return, page
  <2> QED
    BY <2>1, <2>2, Kept
<1>3. CASE Edit \/ Cancel \/ Back
  <2>1. LockInv'
    BY <1>3, ModeStep
  <2>2. /\ UNCHANGED home /\ UNCHANGED cache /\ UNCHANGED <<drags, saves>>
        /\ UNCHANGED <<drags, saves, said>> /\ UNCHANGED <<change, hurried>>
    BY <1>3 DEF Edit, Cancel, Back
  <2> QED
    BY <2>1, <2>2, Kept
<1>4. CASE Leave
  <2>1. LockInv' /\ CacheInv' /\ SavesInv' /\ SaidInv'
    BY <1>4, ModeStep, LeaveStep
  <2>2. UNCHANGED home /\ UNCHANGED <<change, hurried>>
    BY <1>4 DEF Leave
  <2> QED
    BY <2>1, <2>2, Kept
<1> QED
  BY <1>1, <1>2, <1>3, <1>4

LEMMA MoveSteps ==
    ASSUME IInv, NEW w \in WidgetId, NEW column \in Column, NEW position \in Position,
           DragEnd(w, column, position) \/ OtherSaves(w, column, position)
    PROVE  IInv' /\ Promised
<1> USE DEF IInv, Promised
<1>1. CASE DragEnd(w, column, position)
  <2>1. SavesInv' /\ SaidInv' /\ CacheInv' /\ WorkInv'
    BY <1>1, DragStep
  <2>2. UNCHANGED home /\ UNCHANGED <<redis, mode, token, leasing>>
    BY <1>1 DEF DragEnd
  <2> QED
    BY <2>1, <2>2, Kept
<1>2. CASE OtherSaves(w, column, position)
  <2>1. HomeInv' /\ Abstract!Save
    BY <1>2, OtherSavesStep
  <2>2. /\ UNCHANGED <<redis, mode, token, leasing>> /\ UNCHANGED cache
        /\ UNCHANGED <<drags, saves>> /\ UNCHANGED <<drags, saves, said>>
        /\ UNCHANGED <<change, hurried>>
    BY <1>2 DEF OtherSaves, page
  <2> QED
    BY <2>1, <2>2, Kept DEF Abstract!Next
<1> QED
  BY <1>1, <1>2

LEMMA AllSaveSteps ==
    ASSUME IInv, SaveSteps
    PROVE  IInv' /\ Promised
<1> USE DEF IInv, Promised
<1>1. ASSUME NEW i \in 1..MaxDrags, VerifyLock(i) \/ Refuse(i) \/ ReadBack(i)
      PROVE  IInv' /\ Promised
  <2>1. SavesInv' /\ SaidInv'
    BY <1>1, ServerStep
  <2>2. /\ UNCHANGED home /\ UNCHANGED <<redis, mode, token, leasing>> /\ UNCHANGED cache
        /\ UNCHANGED <<change, hurried>>
    BY <1>1 DEF VerifyLock, Refuse, ReadBack, page
  <2> QED
    BY <2>1, <2>2, Kept
<1>2. ASSUME NEW i \in 1..MaxDrags, Apply(i) PROVE IInv' /\ Promised
  <2>1. SavesInv' /\ SaidInv'
    BY <1>2, ServerStep
  <2>2. /\ UNCHANGED <<redis, mode, token, leasing>> /\ UNCHANGED cache
        /\ UNCHANGED <<change, hurried>> /\ others' = others
    BY <1>2 DEF Apply, page
  <2>3. saves[i].move \in Seq(Placement)
    <3>1. saves[i] \in Save
      BY DEF SavesInv, SaveInv
    <3> QED
      BY <3>1 DEF Save
  <2>4. CASE ValidatePlacements(saves[i].move, rows) = "none"
    <3>1. rows' = FinalPage(saves[i].move, rows) /\ version' = version + 1
      BY <1>2, <2>4 DEF Apply
    <3>2. Proper(rows') /\ Abstract!Save
      BY <2>3, <2>4, <3>1, AcceptedSave
    <3>3. HomeInv'
      BY <2>2, <3>1, <3>2 DEF HomeInv
    <3> QED
      BY <2>1, <2>2, <3>2, <3>3, Kept DEF Abstract!Next
  <2>5. CASE ValidatePlacements(saves[i].move, rows) # "none"
    <3>1. UNCHANGED home
      BY <1>2, <2>5 DEF Apply, home
    <3> QED
      BY <2>1, <2>2, <3>1, Kept
  <2> QED
    BY <2>4, <2>5
<1>3. ASSUME NEW i \in 1..MaxDrags,
             SaveAnswered(i) \/ SaveConflicts(i) \/ SaveLocked(i) \/ SaveFails(i)
      PROVE  IInv' /\ Promised
  <2>1. SavesInv' /\ SaidInv' /\ CacheInv'
    BY <1>3, AnswerStep
  <2>2. /\ UNCHANGED home /\ UNCHANGED <<redis, mode, token, leasing>>
        /\ UNCHANGED <<change, hurried>>
    BY <1>3 DEF SaveAnswered, SaveConflicts, SaveLocked, SaveFails, Settles, SettlesAs
  <2> QED
    BY <2>1, <2>2, Kept
<1> QED
  BY <1>1, <1>2, <1>3 DEF SaveSteps

LEMMA AllLockSteps ==
    ASSUME IInv, LockSteps
    PROVE  IInv' /\ Promised
<1> USE DEF IInv, Promised
<1>1. LockInv'
  BY LockStep
<1>2. /\ UNCHANGED home /\ UNCHANGED <<drags, saves>> /\ UNCHANGED <<drags, saves, said>>
      /\ UNCHANGED <<change, hurried>>
  BY DEF LockSteps, TakeLock, ReadHolder, LeaseGranted, LeaseFails, CompareToken, DeleteKey,
         LockGone, page
<1>3. CacheInv'
  <2>1. CASE \E i \in 1..MaxLeases : LeaseGranted(i)
    BY <2>1, FetchStep
  <2>2. CASE ~\E i \in 1..MaxLeases : LeaseGranted(i)
    <3>1. UNCHANGED cache
      BY <2>2 DEF LockSteps, TakeLock, ReadHolder, LeaseFails, CompareToken, DeleteKey, LockGone
    <3> QED
      BY <3>1, Kept
  <2> QED
    BY <2>1, <2>2
<1> QED
  BY <1>1, <1>2, <1>3, Kept

LEMMA WidgetSteps ==
    ASSUME IInv,
           \/ \E w \in WidgetId, key \in WidgetKey : StartAdd(w, key)
           \/ \E w \in WidgetId : StartRemove(w)
           \/ ServeAdd \/ ServeRemove \/ ChangeSettles
    PROVE  IInv' /\ Promised
<1> USE DEF IInv, Promised
<1>1. ASSUME NEW op \in {"add", "remove"}, NEW w \in WidgetId, NEW key \in WidgetKey,
             Starts(op, w, key)
      PROVE  IInv' /\ Promised
  <2>1. change' \in Change /\ hurried' \in BOOLEAN /\ change'.w \in WidgetId
    BY <1>1 DEF Starts, Change, WorkInv, Busy
  <2>2. /\ UNCHANGED home /\ UNCHANGED <<redis, mode, token, leasing>> /\ UNCHANGED cache
        /\ UNCHANGED <<drags, saves>> /\ UNCHANGED <<drags, saves, said>>
    BY <1>1 DEF Starts, page
  <2> QED
    BY <2>1, <2>2, Kept DEF WorkInv
<1>2. ASSUME NEW w \in WidgetId, NEW key \in WidgetKey, StartAdd(w, key)
      PROVE  IInv' /\ Promised
  BY <1>1, <1>2 DEF StartAdd
<1>3. ASSUME NEW w \in WidgetId, StartRemove(w) PROVE IInv' /\ Promised
  <2>1. Shown # NoLayout /\ w \in OnPage(Shown.rows) /\ Shown \in Layout
    BY <1>3 DEF StartRemove, Editor, CacheInv, GoodLayout, Shown
  <2>2. Shown.rows[w].key \in WidgetKey
    BY <2>1 DEF OnPage, Layout, Page, Row
  <2> QED
    BY <1>1, <1>3, <2>2 DEF StartRemove
<1>4. CASE ServeAdd \/ ServeRemove
  <2>1. HomeInv' /\ Abstract!Next
    BY <1>4, ServeAddStep, ServeRemoveStep DEF Abstract!Next
  <2>2. /\ UNCHANGED <<redis, mode, token, leasing>> /\ UNCHANGED cache
        /\ UNCHANGED <<drags, saves>> /\ UNCHANGED <<drags, saves, said>>
    BY <1>4 DEF ServeAdd, ServeRemove, page
  <2>3. WorkInv'
    BY <1>4 DEF ServeAdd, ServeRemove, Served, WorkInv, Change
  <2> QED
    BY <2>1, <2>2, <2>3, Kept
<1>5. CASE ChangeSettles
  <2>1. CacheInv'
    BY <1>5, FetchStep
  <2>2. /\ UNCHANGED home /\ UNCHANGED <<redis, mode, token, leasing>>
        /\ UNCHANGED <<drags, saves>> /\ drags' = drags /\ saves' = saves
    BY <1>5 DEF ChangeSettles
  <2>3. SaidInv'
    <3>1. said' \in {said, "nothing"}
      BY <1>5 DEF ChangeSettles
    <3> QED
      BY <2>2, <3>1, SaidStays
  <2>4. WorkInv'
    <3>1. NoChange \in Change
      BY LayoutAssumption DEF NoChange, Change
    <3>2. change' = GivenUp(change) /\ hurried' = hurried
      BY <1>5 DEF ChangeSettles
    <3>3. CASE change.stage = "sent"
      <4>1. change' = [change EXCEPT !.stage = "lost"] /\ change.w \in WidgetId
        BY <3>2, <3>3 DEF GivenUp, WorkInv, ToServe
      <4> QED
        BY <3>2, <4>1 DEF WorkInv, Change
    <3>4. CASE change.stage # "sent"
      <4>1. change' = [NoChange EXCEPT !.stage = "done"]
        BY <3>2, <3>4 DEF GivenUp, Recalled
      <4> QED
        BY <3>1, <3>2, <4>1 DEF WorkInv, Change, ToServe
    <3> QED
      BY <3>3, <3>4
  <2> QED
    BY <2>1, <2>2, <2>3, <2>4, Kept
<1> QED
  BY <1>2, <1>3, <1>4, <1>5

LEMMA Inductive ==
    ASSUME IInv, [Next]_vars
    PROVE  IInv' /\ [Abstract!Next]_(Abstract!vars)
<1>1. CASE UNCHANGED vars
  <2>1. /\ UNCHANGED home /\ UNCHANGED <<redis, mode, token, leasing>> /\ UNCHANGED cache
        /\ UNCHANGED <<drags, saves>> /\ UNCHANGED <<drags, saves, said>>
        /\ UNCHANGED <<change, hurried>>
    BY <1>1 DEF vars, page
  <2> QED
    BY <2>1, Kept DEF IInv, Stutters
<1>2. CASE Next
  <2>1. IInv' /\ Promised
    BY <1>2, PageSteps, MoveSteps, AllSaveSteps, AllLockSteps, WidgetSteps DEF Next
  <2> QED
    BY <2>1 DEF Promised, Stutters
<1> QED
  BY <1>1, <1>2

LEMMA Initially == ASSUME Init PROVE IInv /\ Abstract!Init
<1> USE DEF Init
<1>1. HomeInv /\ Abstract!Init
  <2>1. /\ rows \in Page /\ SlotsDistinct(rows)
        /\ \A w \in OnPage(rows) : rows[w].position >= 0
    BY EditorAssumption
  <2> QED
    BY <2>1, SameTerms, EditorAssumption DEF HomeInv, Proper, Abstract!Init
<1>2. LockInv
  <2>1. NoLease \in Lease
    BY EditorAssumption DEF NoLease, Lease
  <2>2. NoClose \in [sent : Nat, matched : Nat]
    BY DEF NoClose
  <2>3. lock \in 0..MaxTokens
    BY EditorAssumption
  <2> QED
    BY <2>1, <2>2, <2>3, EditorAssumption DEF LockInv
<1>3. CacheInv
  BY NoneIsGood DEF CacheInv, Cache, GoodLayout
<1>4. SavesInv /\ SaidInv
  <2>1. \A i \in 1..MaxDrags : SaveInv(i)
    BY NoneIsGood, NoSaveIsTyped DEF SaveInv, NoSave
  <2> QED
    BY <2>1, EditorAssumption DEF SavesInv, SaidInv, Message
<1>5. WorkInv
  BY LayoutAssumption DEF WorkInv, ToServe, NoChange, Change
<1> QED
  BY <1>1, <1>2, <1>3, <1>4, <1>5 DEF IInv

LEMMA InvariantHolds == Spec => []IInv
<1>1. IInv /\ [Next]_vars => IInv'
  BY Inductive
<1> QED
  BY Initially, <1>1, PTL DEF Spec

-----------------------------------------------------------------------------
(* One thing at a time.  A layout the browser has is of an older version or has *)
(* the rows of its own, but for a widget that was added or removed late; the    *)
(* only thing under way is the last drag's save, or the added or removed widget,*)
(* whose end asks for the layout again.                                        *)

Past(layout) == layout # NoLayout => layout.version <= version

\* The rows of a layout are those of the home, with change c the way it went.
UnseenIn(old, new, c) ==
    c.stage = "late" /\ (c.w \in OnPage(old) <=> c.w \notin OnPage(new))
AgreesIn(old, new, c) ==
    \A w \in WidgetId : old[w] = new[w] \/ (w = c.w /\ UnseenIn(old, new, c))
FreshFor(layout, new, v, c) ==
    layout # NoLayout /\ layout.version = v => AgreesIn(layout.rows, new, c)
Fresh(layout) == FreshFor(layout, rows, version, change)

\* No change has become late, or stopped being so.
LateStays == change' = change \/ (change.stage # "late" /\ change'.stage # "late")

LEMMA FreshStays ==
    ASSUME LateStays
    PROVE  /\ \A layout, new, v :
                 FreshFor(layout, new, v, change') <=> FreshFor(layout, new, v, change)
           /\ \A old, new : UnseenIn(old, new, change') <=> UnseenIn(old, new, change)
BY DEF LateStays, FreshFor, AgreesIn, UnseenIn

Changing == change.stage \in {"sent", "settled"}

\* The move of a save was made on the layout it will be rolled back to.
Moved(save) ==
    /\ save.move # <<>> /\ save.at = save.previous.version
    /\ \E w \in WidgetId, column \in Column, position \in Position :
          save.move = PlacementsForMove(save.previous.rows, w, column, position)

BelowGrid(old) == \E w \in OnPage(old) : OffGrid(old[w])

\* A move on these rows may be invalid.
Excused(old) == hurried \/ BelowGrid(old) \/ UnseenIn(old, rows, change)

SeenSave(i) ==
    /\ Past(saves[i].previous) /\ Past(saves[i].got)
    /\ UnderWay(i) => saves[i].previous # NoLayout
    /\ saves[i].stage = "ok" => saves[i].got # NoLayout
    /\ saves[i].stage \in {"sent", "admitted"} /\ ~saves[i].lost => Moved(saves[i])
    /\ saves[i].stage = "invalid" => Excused(saves[i].previous.rows)
    /\ UnderWay(i) /\ ~hurried =>
          /\ i = drags /\ ~Changing
          /\ Fresh(saves[i].previous) /\ Fresh(saves[i].got)

SeenCache ==
    /\ Past(cache.data) /\ Past(cache.got)
    /\ cache.fetch = "served" => cache.got # NoLayout
    /\ mode = "away" => cache.fetch = "idle"
    /\ change.stage # "none" => Shown # NoLayout
    /\ cache.fetch = "served" /\ ~Changing /\ ~hurried => Fresh(cache.got)
    /\ ~Busy /\ ~cache.error /\ mode # "away" /\ ~hurried => Fresh(Shown)

SeenInv == SeenCache /\ \A i \in 1..MaxDrags : SeenSave(i)

\* What a save is known by; its callbacks may be silenced.
SameSave(i) ==
    /\ saves'[i].stage = saves[i].stage /\ saves'[i].at = saves[i].at
    /\ saves'[i].move = saves[i].move /\ saves'[i].previous = saves[i].previous
    /\ saves'[i].got = saves[i].got /\ saves'[i].lost = saves[i].lost

LEMMA SaveStaysSeen ==
    ASSUME UNCHANGED <<rows, version, drags, hurried>>, Changing' => Changing, LateStays,
           NEW i \in 1..MaxDrags, SeenSave(i), SameSave(i)
    PROVE  SeenSave(i)'
<1>1. Past(saves[i].previous)' /\ Past(saves[i].got)'
  BY DEF SeenSave, SameSave, Past
<1>2. UnderWay(i)' <=> UnderWay(i)
  BY DEF UnderWay, SameSave
<1>3. Moved(saves[i])' <=> Moved(saves[i])
  BY DEF Moved, SameSave
<1>4. Excused(saves[i].previous.rows)' <=> Excused(saves[i].previous.rows)
  BY FreshStays DEF Excused, BelowGrid, SameSave
<1>5. (Fresh(saves[i].previous)' <=> Fresh(saves[i].previous))
      /\ (Fresh(saves[i].got)' <=> Fresh(saves[i].got))
  BY FreshStays DEF Fresh, SameSave
<1> QED
  BY <1>1, <1>2, <1>3, <1>4, <1>5 DEF SeenSave, SameSave

\* A new version leaves nothing to be true to: every layout the browser has is older.
LEMMA NewVersion ==
    ASSUME HomeInv, version' = version + 1, NEW layout, GoodLayout(layout), Past(layout)
    PROVE  layout # NoLayout => layout.version <= version' /\ layout.version # version'
BY DEF HomeInv, GoodLayout, Layout, Past

LEMMA CacheAfterNewVersion ==
    ASSUME IInv, SeenInv, version' = version + 1,
           UNCHANGED <<cache, mode, change, hurried>>
    PROVE  SeenCache'
<1>1. \A layout \in {cache.data, cache.got} :
         layout # NoLayout => layout.version <= version' /\ layout.version # version'
  BY NewVersion DEF IInv, CacheInv, SeenInv, SeenCache
<1>2. Past(cache.data)' /\ Past(cache.got)' /\ Fresh(cache.data)' /\ Fresh(cache.got)'
  BY <1>1 DEF Past, Fresh, FreshFor
<1> QED
  BY <1>2 DEF SeenInv, SeenCache, Changing, Shown

LEMMA SaveAfterNewVersion ==
    ASSUME IInv, SeenInv, version' = version + 1, UNCHANGED <<change, hurried, drags>>,
           OnPage(rows') = OnPage(rows), NEW i \in 1..MaxDrags, saves'[i].stage \in {saves[i].stage, "applied"},
           UnderWay(i)' => UnderWay(i),
           saves'[i].at = saves[i].at, saves'[i].move = saves[i].move,
           saves'[i].lost = saves[i].lost,
           saves'[i].previous = saves[i].previous, saves'[i].got = saves[i].got
    PROVE  SeenSave(i)'
<1>0. SeenSave(i) /\ SaveInv(i)
  BY DEF IInv, SavesInv, SeenInv
<1>1. \A layout \in {saves[i].previous, saves[i].got} :
         layout # NoLayout => layout.version <= version' /\ layout.version # version'
  BY <1>0, NewVersion DEF IInv, SaveInv, SeenSave
<1>2. /\ Past(saves[i].previous)' /\ Past(saves[i].got)'
      /\ Fresh(saves[i].previous)' /\ Fresh(saves[i].got)'
  BY <1>1 DEF Past, Fresh, FreshFor
<1>3. Moved(saves[i])' <=> Moved(saves[i])
  BY DEF Moved
<1>4. Excused(saves[i].previous.rows)' <=> Excused(saves[i].previous.rows)
  BY DEF Excused, BelowGrid, UnseenIn
<1> QED
  BY <1>0, <1>2, <1>3, <1>4 DEF SeenSave, Changing

\* The end of a save, or of the wait for it: nothing is left to roll back to.
LEMMA SaveIsOver ==
    ASSUME NEW i \in 1..MaxDrags,
           saves'[i].previous = NoLayout, saves'[i].got = NoLayout,
           \/ saves'[i].stage = "done"
           \/ saves'[i].lost /\ saves'[i].stage \in {"sent", "admitted"}
    PROVE  SeenSave(i)' /\ ~UnderWay(i)'
<1>1. ~UnderWay(i)'
  BY DEF UnderWay
<1> QED
  BY <1>1 DEF SeenSave, Past

\* The row of the added or removed widget is the one that changes, there or not.
LEMMA WidgetRow ==
    ASSUME IInv, ServeAdd \/ ServeRemove
    PROVE  /\ ToServe /\ change.w \in WidgetId
           /\ change' = [change EXCEPT !.stage = IF change.stage = "lost" THEN "late" ELSE "settled"]
           /\ change'.w = change.w
           /\ change'.stage = (IF change.stage = "lost" THEN "late" ELSE "settled")
           /\ \A w \in WidgetId : w # change.w => rows'[w] = rows[w]
           /\ rows'[change.w] = NoRow <=> rows[change.w] # NoRow
           /\ UNCHANGED <<version, cache, mode, saves, drags, hurried>>
<1>1. ToServe /\ change.w \in WidgetId /\ change \in Change
  BY DEF ServeAdd, ServeRemove, IInv, WorkInv
<1>2. change' = [change EXCEPT !.stage = IF change.stage = "lost" THEN "late" ELSE "settled"]
  BY DEF ServeAdd, ServeRemove, Served
<1>3. PICK row \in Row \cup {NoRow} :
         rows' = [rows EXCEPT ![change.w] = row] /\ (row = NoRow <=> rows[change.w] # NoRow)
  <2>1. CASE ServeAdd
    <3>1. PICK position \in 0..(MaxPosition + 1) :
             rows' = [rows EXCEPT
               ![change.w] = [key |-> change.key, column |-> 1, position |-> position]]
      BY <2>1 DEF ServeAdd
    <3> DEFINE row == [key |-> change.key, column |-> 1, position |-> position]
    <3>2. row \in Row
      BY <1>1, LayoutAssumption DEF Row, Column, Change
    <3>3. row # NoRow /\ rows[change.w] = NoRow
      BY <2>1, <3>2, NoRowAssumption DEF ServeAdd
    <3> HIDE DEF row
    <3>4. rows' = [rows EXCEPT ![change.w] = row]
      BY <3>1 DEF row
    <3> QED
      BY <3>2, <3>3, <3>4
  <2>2. CASE ServeRemove
    BY <2>2 DEF ServeRemove, OnPage
  <2> QED
    BY <2>1, <2>2
<1>4. rows \in Page
  BY DEF IInv, HomeInv, Proper
<1>5. UNCHANGED <<version, cache, mode, saves, drags, hurried>>
  BY DEF ServeAdd, ServeRemove, page
<1>6. /\ \A w \in WidgetId : w # change.w => rows'[w] = rows[w]
      /\ rows'[change.w] = row
  BY <1>1, <1>3, <1>4 DEF Page
<1>7. /\ change'.w = change.w
      /\ change'.stage = (IF change.stage = "lost" THEN "late" ELSE "settled")
  BY <1>1, <1>2 DEF Change
<1> QED
  BY <1>1, <1>2, <1>3, <1>5, <1>6, <1>7

\* A widget is added or removed while nothing else is under way, or in a hurry, and the
\* layout is asked again when that is over; or it is late, and the layouts of this
\* version are all wrong about it.
LEMMA WidgetServed ==
    ASSUME IInv, SeenInv, ServeAdd \/ ServeRemove
    PROVE  SeenInv'
<1>1. UNCHANGED <<version, cache, mode, saves, drags, hurried>>
  BY WidgetRow
<1>2. ASSUME NEW i \in 1..MaxDrags
      PROVE  /\ SeenSave(i) /\ (UnderWay(i)' <=> UnderWay(i))
             /\ Moved(saves[i])' <=> Moved(saves[i])
             /\ saves[i].stage = "invalid" => Excused(saves[i].previous.rows)'
  <2>1. SeenSave(i) /\ change.stage # "late"
    BY WidgetRow DEF SeenInv, ToServe
  <2>2. saves[i].stage = "invalid" => hurried \/ BelowGrid(saves[i].previous.rows)
    BY <2>1 DEF SeenSave, Excused, UnseenIn
  <2>3. BelowGrid(saves[i].previous.rows)' <=> BelowGrid(saves[i].previous.rows)
    BY <1>1 DEF BelowGrid
  <2> QED
    BY <1>1, <2>1, <2>2, <2>3 DEF Moved, UnderWay, Excused
<1>3. CASE change.stage = "sent"
  <2>1. Changing /\ Changing'
    BY <1>3, WidgetRow DEF Changing
  <2>2. SeenCache'
    BY <1>1, <1>3, <2>1 DEF SeenInv, SeenCache, Past, Busy, Changing, Shown
  <2>3. ASSUME NEW i \in 1..MaxDrags PROVE SeenSave(i)'
    BY <1>1, <1>2, <2>1 DEF SeenSave, Past
  <2> QED
    BY <2>2, <2>3 DEF SeenInv
<1>4. CASE change.stage = "lost"
  <2>1. /\ ~Changing /\ ~Changing' /\ change.stage # "none" /\ change'.stage = "late"
        /\ Busy' <=> Busy
    BY <1>1, <1>2, <1>4, WidgetRow DEF Changing, Busy
  <2>2. ASSUME NEW layout, FreshFor(layout, rows, version, change)
        PROVE  FreshFor(layout, rows', version', change')
    <3> SUFFICES ASSUME layout # NoLayout, layout.version = version
                 PROVE  AgreesIn(layout.rows, rows', change')
      BY <1>1 DEF FreshFor
    <3>1. \A w \in WidgetId : layout.rows[w] = rows[w]
      BY <1>4, <2>2 DEF FreshFor, AgreesIn, UnseenIn
    <3>2. UnseenIn(layout.rows, rows', change')
      BY <2>1, <3>1, WidgetRow DEF UnseenIn, OnPage
    <3> QED
      BY <3>1, <3>2, WidgetRow DEF AgreesIn
  <2>3. SeenCache'
    BY <1>1, <2>1, <2>2 DEF SeenInv, SeenCache, Past, Fresh, Shown
  <2>4. ASSUME NEW i \in 1..MaxDrags PROVE SeenSave(i)'
    BY <1>1, <1>2, <2>1, <2>2 DEF SeenSave, Past, Fresh
  <2> QED
    BY <2>3, <2>4 DEF SeenInv
<1> QED
  BY <1>3, <1>4, WidgetRow DEF ToServe

\* The fetches and the modes: the saves are left alone, or silenced.
LEMMA SavesStaySeen ==
    ASSUME SeenInv, UNCHANGED <<rows, version, drags, hurried>>, Changing' => Changing,
           LateStays, \A i \in 1..MaxDrags : SameSave(i)
    PROVE  \A i \in 1..MaxDrags : SeenSave(i)'
BY SaveStaysSeen DEF SeenInv

LEMMA CacheAsked ==
    ASSUME SeenInv, UNCHANGED <<version, hurried>>, Changing' => Changing,
           cache'.data = cache.data, cache'.fetch = "asked", cache'.got = NoLayout,
           mode' # "away", change'.stage # "none" => change.stage # "none"
    PROVE  SeenCache'
BY DEF SeenInv, SeenCache, Past, Shown, Busy

LEMMA FetchSeen ==
    ASSUME IInv, SeenInv, ServeLayout \/ LayoutArrives \/ LayoutFails
    PROVE  SeenInv'
<1>1. /\ UNCHANGED <<rows, version, drags, saves, mode, change, hurried>>
      /\ cache \in Cache /\ version \in Nat
  BY DEF ServeLayout, LayoutArrives, LayoutFails, home, page, IInv, CacheInv, HomeInv
<1>2. \A i \in 1..MaxDrags : SameSave(i)
  BY <1>1 DEF SameSave
<1>3. \A i \in 1..MaxDrags : SeenSave(i)'
  BY <1>1, <1>2, SavesStaySeen DEF Changing, LateStays
<1>4. ASSUME ServeLayout PROVE SeenCache'
  <2>1. /\ cache'.data = cache.data /\ cache'.fetch = "served" /\ cache'.got = Current
        /\ cache.fetch = "asked"
    BY <1>1, <1>4 DEF ServeLayout, Cache
  <2>2. Current \in Layout /\ Current.version = version /\ Current.rows = rows
    BY CurrentIsGood DEF Current, IInv
  <2>3. Current # NoLayout /\ Past(cache.got)' /\ Fresh(cache.got)'
    BY <1>1, <2>1, <2>2, NoLayoutAssumption DEF Past, Fresh, FreshFor, AgreesIn
  <2>4. mode # "away"
    BY <2>1 DEF SeenInv, SeenCache
  <2> QED
    BY <1>1, <2>1, <2>2, <2>3, <2>4 DEF SeenInv, SeenCache, Past, Fresh, Shown, Busy, Changing
<1>5. ASSUME LayoutArrives PROVE SeenCache'
  <2>1. /\ cache'.data = cache.got /\ cache'.fetch = "idle" /\ cache'.got = NoLayout
        /\ cache.fetch = "served"
    BY <1>5 DEF LayoutArrives
  <2> QED
    BY <1>1, <2>1 DEF SeenInv, SeenCache, Past, Fresh, Shown, Busy, Changing
<1>6. ASSUME LayoutFails PROVE SeenCache'
  <2>1. /\ cache'.data = cache.data /\ cache'.fetch = "idle" /\ cache'.got = NoLayout
        /\ cache'.error
    BY <1>1, <1>6 DEF LayoutFails, Cache
  <2> QED
    BY <1>1, <2>1 DEF SeenInv, SeenCache, Past, Fresh, Shown, Changing
<1> QED
  BY <1>3, <1>4, <1>5, <1>6 DEF SeenInv

LEMMA ModeSeen ==
    ASSUME IInv, SeenInv, NEW m \in {"view", "edit"},
           Edit \/ Cancel \/ Back \/ Leave \/ Return(m)
    PROVE  SeenInv'
<1>1. /\ UNCHANGED <<rows, version, drags, change, hurried>>
      /\ cache \in Cache
  BY DEF Edit, Cancel, Back, Leave, Return, home, IInv, CacheInv
<1>2. \A i \in 1..MaxDrags : SameSave(i)
  <2>1. CASE Leave
    <3>1. \A i \in 1..MaxDrags : saves[i] \in Save /\ saves'[i] = [saves[i] EXCEPT !.loud = FALSE]
      BY <2>1 DEF Leave, Silenced, IInv, SavesInv, SaveInv
    <3> QED
      BY <3>1 DEF SameSave, Save
  <2>2. CASE ~Leave
    BY <2>2 DEF Edit, Cancel, Back, Return, SameSave
  <2> QED
    BY <2>1, <2>2
<1>3. \A i \in 1..MaxDrags : SeenSave(i)'
  BY <1>1, <1>2, SavesStaySeen DEF Changing, LateStays
<1>4. CASE Edit \/ Cancel \/ Back
  <2>1. mode # "away" /\ mode' # "away" /\ UNCHANGED <<cache, saves>>
    BY <1>4 DEF Edit, Cancel, Back, Editor
  <2>2. SeenCache'
    BY <1>1, <2>1 DEF SeenInv, SeenCache, Past, Fresh, Shown, Changing, Busy, UnderWay
  <2> QED
    BY <1>3, <2>2 DEF SeenInv
<1>5. CASE Leave
  <2>1. /\ cache'.data = cache.data /\ cache'.fetch = "idle" /\ cache'.got = NoLayout
        /\ mode' = "away"
    BY <1>1, <1>5 DEF Leave, Cache
  <2>2. SeenCache'
    BY <1>1, <2>1 DEF SeenInv, SeenCache, Past, Shown
  <2> QED
    BY <1>3, <2>2 DEF SeenInv
<1>6. CASE Return(m)
  <2>1. /\ cache'.data = cache.data /\ cache'.fetch = "asked" /\ cache'.got = NoLayout
        /\ mode' # "away"
    BY <1>1, <1>6 DEF Return, Cache, Asked
  <2>2. SeenCache'
    BY <1>1, <2>1, CacheAsked DEF Changing
  <2> QED
    BY <1>3, <2>2 DEF SeenInv
<1> QED
  BY <1>4, <1>5, <1>6

\* What the end of a change and a lease ask again.
LEMMA InvalidatedSeen ==
    ASSUME IInv, SeenInv, UNCHANGED <<rows, version, mode, saves, drags, hurried>>,
           cache' = Invalidated(cache),
           \/ change' = change
           \/ Changing /\ change'.stage \in {"done", "lost"}
    PROVE  SeenInv'
<1>1. (Changing' => Changing) /\ LateStays
  BY DEF Changing, LateStays
<1>2. \A i \in 1..MaxDrags : SeenSave(i)'
  <2>1. \A i \in 1..MaxDrags : SameSave(i)
    BY DEF SameSave
  <2> QED
    BY <1>1, <2>1, SavesStaySeen
<1>3. Changing => Shown # NoLayout
  BY DEF SeenInv, SeenCache, Changing
<1>4. SeenCache'
  <2>1. CASE mode = "away"
    <3>1. cache' = cache
      BY <2>1 DEF Invalidated
    <3> QED
      BY <1>3, <2>1, <3>1 DEF SeenInv, SeenCache, Past, Shown
  <2>2. CASE mode # "away" /\ cache.data = NoLayout /\ cache.fetch # "idle"
    <3>1. cache' = cache /\ change' = change
      BY <1>3, <2>2 DEF Invalidated, Shown
    <3> QED
      BY <2>2, <3>1 DEF SeenInv, SeenCache, Past, Fresh, Shown, Changing, Busy
  <2>3. CASE mode # "away" /\ ~(cache.data = NoLayout /\ cache.fetch # "idle")
    <3>1. cache' = Asked(cache) /\ cache \in Cache
      BY <2>3 DEF Invalidated, IInv, CacheInv
    <3>2. /\ cache'.data = cache.data /\ cache'.fetch = "asked" /\ cache'.got = NoLayout
      BY <3>1 DEF Asked, Cache
    <3>3. change'.stage # "none" => change.stage # "none"
      BY DEF Changing
    <3> QED
      BY <1>1, <2>3, <3>2, <3>3, CacheAsked
  <2> QED
    BY <2>1, <2>2, <2>3
<1> QED
  BY <1>2, <1>4 DEF SeenInv

LEMMA LockSeen ==
    ASSUME IInv, SeenInv, LockSteps
    PROVE  SeenInv'
<1>1. UNCHANGED <<rows, version, mode, saves, drags, change, hurried>>
  BY DEF LockSteps, TakeLock, ReadHolder, LeaseGranted, LeaseFails, CompareToken, DeleteKey,
         LockGone, page, home
<1>2. CASE \E i \in 1..MaxLeases : LeaseGranted(i)
  <2>1. cache' = Invalidated(cache)
    BY <1>2 DEF LeaseGranted
  <2> QED
    BY <1>1, <2>1, InvalidatedSeen
<1>3. CASE ~\E i \in 1..MaxLeases : LeaseGranted(i)
  <2>1. UNCHANGED cache
    BY <1>3 DEF LockSteps, TakeLock, ReadHolder, LeaseFails, CompareToken, DeleteKey, LockGone
  <2>2. \A i \in 1..MaxDrags : SameSave(i)
    BY <1>1 DEF SameSave
  <2>3. \A i \in 1..MaxDrags : SeenSave(i)'
    BY <1>1, <2>2, SavesStaySeen DEF Changing, LateStays
  <2>4. SeenCache'
    BY <1>1, <2>1 DEF SeenInv, SeenCache, Past, Fresh, Shown, Changing, Busy, UnderWay
  <2> QED
    BY <2>3, <2>4 DEF SeenInv
<1> QED
  BY <1>2, <1>3

\* The steps of one save leave the others as they are.
LEMMA OthersStaySeen ==
    ASSUME SeenInv, NEW i \in 1..MaxDrags, SeenSave(i)',
           UNCHANGED <<rows, version, drags, hurried, change>>,
           \A j \in 1..MaxDrags : j # i => saves'[j] = saves[j]
    PROVE  \A j \in 1..MaxDrags : SeenSave(j)'
<1> SUFFICES ASSUME NEW j \in 1..MaxDrags, j # i PROVE SeenSave(j)'
  OBVIOUS
<1>1. SameSave(j)
  BY DEF SameSave
<1> QED
  BY <1>1, SaveStaysSeen DEF SeenInv, Changing, LateStays

LEMMA CacheWaits ==
    ASSUME SeenInv, NEW i \in 1..MaxDrags, UnderWay(i)' <=> UnderWay(i),
           \A j \in 1..MaxDrags : j # i => saves'[j] = saves[j],
           UNCHANGED <<rows, version, cache, mode, change, hurried>>
    PROVE  SeenCache'
<1>1. \A j \in 1..MaxDrags : UnderWay(j)' <=> UnderWay(j)
  BY DEF UnderWay
<1>2. Busy' <=> Busy
  BY <1>1 DEF Busy
<1> QED
  BY <1>2 DEF SeenInv, SeenCache, Past, Fresh, Shown, Changing

\* The server's steps: what a move asks for is refused as invalid in a hurry, when a
\* box is below the grid, or when the page does not show the widgets there are.
LEMMA ToStageSeen ==
    ASSUME IInv, SeenInv, NEW i \in 1..MaxDrags,
           saves[i].stage \in {"sent", "admitted"},
           NEW stage \in {"admitted", "locked", "stale", "invalid"}, ToStage(i, stage),
           stage = "admitted" => saves[i].stage = "sent",
           stage = "invalid" /\ ~saves[i].lost => Excused(saves[i].previous.rows),
           UNCHANGED <<rows, version, cache, mode, drags, change, hurried>>
    PROVE  SeenInv'
<1>1. /\ saves[i] \in Save /\ SeenSave(i) /\ SaveInv(i)
      /\ \A j \in 1..MaxDrags : j # i => saves'[j] = saves[j]
      /\ saves'[i] = Reaches(saves[i], stage)
  BY DEF IInv, SavesInv, SaveInv, SeenInv, ToStage
<1>2. SeenSave(i)' /\ (UnderWay(i)' <=> UnderWay(i))
  <2>1. CASE saves[i].lost /\ stage # "admitted"
    BY <1>1, <2>1, ReachesSave, SaveIsOver DEF UnderWay
  <2>2. CASE ~(saves[i].lost /\ stage # "admitted")
    <3>1. /\ saves'[i].stage = stage /\ saves'[i].at = saves[i].at
          /\ saves'[i].move = saves[i].move /\ saves'[i].previous = saves[i].previous
          /\ saves'[i].got = saves[i].got /\ saves'[i].lost = saves[i].lost
      BY <1>1, <2>2, ReachesSave
    <3>2. /\ Moved(saves[i])' <=> Moved(saves[i])
          /\ UnderWay(i)' <=> UnderWay(i)
          /\ Excused(saves[i].previous.rows)' <=> Excused(saves[i].previous.rows)
      BY <3>1 DEF Moved, UnderWay, Excused, BelowGrid, UnseenIn
    <3> QED
      BY <1>1, <2>2, <3>1, <3>2 DEF SeenSave, Past, Fresh, Changing
  <2> QED
    BY <2>1, <2>2
<1> QED
  BY <1>1, <1>2, OthersStaySeen, CacheWaits DEF SeenInv

LEMMA ServerSeen ==
    ASSUME IInv, SeenInv, NEW i \in 1..MaxDrags,
           VerifyLock(i) \/ Refuse(i) \/ ReadBack(i)
    PROVE  SeenInv'
<1>1. /\ saves[i] \in Save /\ SeenSave(i) /\ SaveInv(i)
      /\ UNCHANGED <<rows, version, cache, mode, drags, change, hurried>>
      /\ \A j \in 1..MaxDrags : j # i => saves'[j] = saves[j]
  BY DEF IInv, SavesInv, SaveInv, SeenInv, VerifyLock, Refuse, ReadBack, ToStage, page, home
<1>3. CASE VerifyLock(i) \/ Refuse(i)
  <2>1. PICK stage \in {"admitted", "locked", "stale"} :
           ToStage(i, stage) /\ (stage = "admitted" => saves[i].stage = "sent")
    BY <1>3 DEF VerifyLock, Refuse
  <2>2. saves[i].stage \in {"sent", "admitted"}
    BY <1>3 DEF VerifyLock, Refuse
  <2> QED
    BY <1>1, <2>1, <2>2, ToStageSeen
<1>4. CASE ReadBack(i)
  <2>1. PICK stage \in {"ok", "conflict"}, got \in {Current, NoLayout} :
           /\ stage = "ok" => got = Current
           /\ saves' = [saves EXCEPT ![i].stage = stage, ![i].got = got]
    BY <1>4 DEF ReadBack
  <2>2. /\ saves'[i].stage = stage /\ saves'[i].previous = saves[i].previous
        /\ saves'[i].got = got /\ saves'[i].lost = saves[i].lost
    BY <1>1, <2>1 DEF Save, IInv, SavesInv
  <2>3. Current # NoLayout /\ Current.version = version /\ Current.rows = rows
    BY CurrentIsGood, NoLayoutAssumption DEF Current, IInv
  <2>4. Past(saves[i].got)' /\ Fresh(saves[i].got)'
    <3>1. /\ got # NoLayout => got.version = version /\ got.rows = rows
          /\ version \in Nat
      BY <2>1, <2>3 DEF IInv, HomeInv
    <3>2. Past(saves[i].got)'
      BY <1>1, <2>2, <3>1 DEF Past
    <3>3. FreshFor(got, rows, version, change)
      BY <3>1 DEF FreshFor, AgreesIn
    <3> QED
      BY <1>1, <2>2, <3>2, <3>3 DEF Fresh
  <2>5. UnderWay(i) /\ UnderWay(i)'
    BY <1>1, <1>4, <2>2 DEF UnderWay, ReadBack, SaveInv
  <2>6. SeenSave(i)'
    BY <1>1, <2>1, <2>2, <2>3, <2>4, <2>5 DEF SeenSave, Past, Fresh, Changing
  <2> QED
    BY <1>1, <2>5, <2>6, OthersStaySeen, CacheWaits DEF SeenInv
<1> QED
  BY <1>3, <1>4

LEMMA ApplySeen ==
    ASSUME IInv, SeenInv, NEW i \in 1..MaxDrags, Apply(i)
    PROVE  SeenInv'
<1>1. /\ saves[i] \in Save /\ SeenSave(i) /\ saves[i].at = version
      /\ saves[i].stage = "admitted"
      /\ UNCHANGED <<cache, mode, drags, change, hurried>>
      /\ \A j \in 1..MaxDrags : j # i => saves'[j] = saves[j]
  BY DEF IInv, SavesInv, SaveInv, SeenInv, Apply, VersionMatches, ToStage, page
<1>2. CASE ValidatePlacements(saves[i].move, rows) = "none"
  <2>1. /\ version' = version + 1 /\ rows' = FinalPage(saves[i].move, rows)
        /\ saves' = [saves EXCEPT
               ![i] = Reaches([saves[i] EXCEPT !.applied = TRUE], "applied")]
    BY <1>2 DEF Apply
  <2>2. OnPage(rows') = OnPage(rows)
    <3>1. saves[i].move \in Seq(Placement)
      BY <1>1 DEF Save
    <3> QED
      BY <1>2, <2>1, <3>1, AcceptedSave DEF IInv
  <2>3. SeenSave(i)'
    <3>1. PICK before : before = [saves[i] EXCEPT !.applied = TRUE]
      OBVIOUS
    <3>2. /\ before \in Save /\ before.lost = saves[i].lost
          /\ before.at = saves[i].at /\ before.move = saves[i].move
          /\ before.previous = saves[i].previous /\ before.got = saves[i].got
      BY <1>1, <3>1 DEF Save
    <3>3. saves'[i] = Reaches(before, "applied")
      BY <2>1, <3>1 DEF IInv, SavesInv
    <3>4. CASE saves[i].lost
      <4>1. /\ saves'[i].stage = "done" /\ saves'[i].previous = NoLayout
            /\ saves'[i].got = NoLayout
        BY <3>2, <3>3, <3>4 DEF Reaches, Over, NoSave
      <4> QED
        BY <4>1, SaveIsOver
    <3>5. CASE ~saves[i].lost
      <4>1. /\ saves'[i].stage = "applied" /\ saves'[i].at = saves[i].at
            /\ saves'[i].move = saves[i].move /\ saves'[i].previous = saves[i].previous
            /\ saves'[i].got = saves[i].got /\ saves'[i].lost = saves[i].lost
        BY <3>2, <3>3, <3>5, ReachesSave
      <4>2. UnderWay(i)
        BY <1>1, <3>5 DEF UnderWay
      <4> QED
        BY <1>1, <2>1, <2>2, <4>1, <4>2, SaveAfterNewVersion
    <3> QED
      BY <3>4, <3>5
  <2>4. ASSUME NEW j \in 1..MaxDrags, j # i PROVE SeenSave(j)'
    BY <1>1, <2>1, <2>2, <2>4, SaveAfterNewVersion DEF UnderWay
  <2> QED
    BY <1>1, <2>1, <2>3, <2>4, CacheAfterNewVersion DEF SeenInv
<1>3. CASE ValidatePlacements(saves[i].move, rows) # "none"
  <2>1. ToStage(i, "invalid") /\ UNCHANGED <<rows, version>>
    BY <1>3 DEF Apply
  <2>2. ~saves[i].lost => Excused(saves[i].previous.rows)
    <3> SUFFICES ASSUME ~saves[i].lost, ~Excused(saves[i].previous.rows) PROVE FALSE
      OBVIOUS
    <3> DEFINE old == saves[i].previous.rows
    <3>1. /\ Moved(saves[i]) /\ saves[i].previous # NoLayout /\ Fresh(saves[i].previous)
          /\ ~BelowGrid(old) /\ ~UnseenIn(old, rows, change)
      BY <1>1 DEF SeenSave, UnderWay, Excused
    <3>2. \A w \in WidgetId : old[w] = rows[w]
      BY <1>1, <3>1 DEF Fresh, FreshFor, AgreesIn, Moved
    <3>3. old = rows
      <4>1. old \in Page /\ rows \in Page
        BY <3>1 DEF IInv, HomeInv, SavesInv, SaveInv, GoodLayout, Proper
      <4> HIDE DEF old
      <4> QED
        BY <3>2, <4>1 DEF Page
    <3>4. PICK w \in WidgetId, column \in Column, position \in Position :
             saves[i].move = PlacementsForMove(rows, w, column, position)
      BY <3>1, <3>3 DEF Moved
    <3>5. w \in OnPage(rows) /\ saves[i].move # <<>>
      BY <3>1, <3>4 DEF Moved, PlacementsForMove
    <3>6. ~OffGrid(rows[w])
      BY <3>1, <3>3, <3>5 DEF BelowGrid
    <3> QED
      BY <1>3, <3>4, <3>5, <3>6, MoveIsValid DEF Position, IInv, HomeInv
  <2> QED
    BY <1>1, <2>1, <2>2, ToStageSeen
<1> QED
  BY <1>2, <1>3

\* The end of a save: the layout it leaves in the cache is fresh, unless in a hurry.
LEMMA SettlesSeen ==
    ASSUME IInv, SeenInv, NEW i \in 1..MaxDrags, UnderWay(i),
           NEW layout \in {saves[i].previous, saves[i].got}, layout # NoLayout,
           NEW over \in {Over(saves[i]), Lost(saves[i])}, NEW message,
           SettlesAs(i, over, layout, message),
           over = Lost(saves[i]) => saves[i].stage \in {"sent", "admitted"}
    PROVE  SeenInv'
<1>1. /\ saves[i] \in Save /\ SeenSave(i) /\ cache \in Cache
      /\ UNCHANGED <<rows, version, mode, drags, change, hurried>>
      /\ saves'[i] = over
      /\ \A j \in 1..MaxDrags : j # i => saves'[j] = saves[j]
  BY DEF IInv, SavesInv, SaveInv, CacheInv, SeenInv, SettlesAs, home
<1>2. /\ cache'.data = layout /\ cache'.fetch = cache.fetch /\ cache'.got = cache.got
  BY <1>1 DEF SettlesAs, Cache
<1>3. /\ over.previous = NoLayout /\ over.got = NoLayout
      /\ \/ over.stage = "done"
         \/ over.lost /\ over.stage \in {"sent", "admitted"}
  <2>1. CASE over = Over(saves[i])
    BY <2>1 DEF Over, NoSave
  <2>2. CASE over = Lost(saves[i])
    BY <2>2 DEF Lost, NoSave
  <2> QED
    BY <2>1, <2>2
<1>4. SeenSave(i)'
  BY <1>1, <1>3, SaveIsOver
<1>5. Past(layout) /\ (~hurried => Fresh(layout))
  BY <1>1 DEF SeenSave
<1>6. Past(cache.data)' /\ Past(cache.got)' /\ (~hurried => Fresh(cache.data)')
  BY <1>1, <1>2, <1>5 DEF SeenInv, SeenCache, Past, Fresh
<1>7. SeenCache'
  BY <1>1, <1>2, <1>6 DEF SeenInv, SeenCache, Fresh, Shown, Changing
<1> QED
  BY <1>1, <1>4, <1>7, OthersStaySeen DEF SeenInv

LEMMA AnswersSeen ==
    ASSUME IInv, SeenInv, NEW i \in 1..MaxDrags,
           SaveAnswered(i) \/ SaveConflicts(i) \/ SaveLocked(i) \/ SaveFails(i)
    PROVE  SeenInv'
<1>1. SeenSave(i) /\ SaveInv(i)
  BY DEF SeenInv, IInv, SavesInv
<1>2. UnderWay(i) /\ saves[i].previous # NoLayout
      /\ (saves[i].stage = "ok" => saves[i].got # NoLayout)
  BY <1>1 DEF SeenSave, SaveInv, SaveAnswered, SaveConflicts, SaveLocked, SaveFails, UnderWay
<1>3. Over(saves[i]) # Lost(saves[i])
  BY DEF Over, Lost, NoSave
<1>4. ASSUME NEW layout \in {saves[i].previous, saves[i].got}, layout # NoLayout,
             NEW message, Settles(i, layout, message)
      PROVE  SeenInv'
  <2>1. SettlesAs(i, Over(saves[i]), layout, message)
    BY <1>4 DEF Settles
  <2> QED
    BY <1>2, <1>3, <1>4, <2>1, SettlesSeen
<1>5. CASE SaveAnswered(i)
  BY <1>2, <1>4, <1>5 DEF SaveAnswered
<1>6. CASE SaveConflicts(i)
  BY <1>2, <1>4, <1>6 DEF SaveConflicts, RolledBack
<1>7. CASE SaveLocked(i)
  BY <1>2, <1>4, <1>7 DEF SaveLocked, RolledBack
<1>8. CASE SaveFails(i)
  <2>1. CASE saves[i].stage \in {"sent", "admitted"}
    <3>1. SettlesAs(i, Lost(saves[i]), saves[i].previous, "nothing")
      BY <1>8, <2>1 DEF SaveFails, RolledBack
    <3> QED
      BY <1>2, <2>1, <3>1, SettlesSeen
  <2>2. CASE saves[i].stage \notin {"sent", "admitted"}
    <3>1. SettlesAs(i, Over(saves[i]), saves[i].previous, "nothing")
      BY <1>8, <2>2 DEF SaveFails, RolledBack
    <3> QED
      BY <1>2, <1>3, <3>1, SettlesSeen
  <2> QED
    BY <2>1, <2>2
<1> QED
  BY <1>5, <1>6, <1>7, <1>8

\* A drag remembers what was shown; if nothing else was under way that was fresh.
LEMMA DragSeen ==
    ASSUME IInv, SeenInv, NEW w \in WidgetId, NEW column \in Column, NEW position \in Position,
           DragEnd(w, column, position)
    PROVE  SeenInv'
<1>0. PICK i \in 1..MaxDrags : i = drags + 1
  BY EditorAssumption DEF DragEnd, IInv, SavesInv
<1> DEFINE move == PlacementsForMove(Shown.rows, w, column, position)
<1>1. /\ Editor /\ Shown # NoLayout /\ cache \in Cache /\ Shown \in Layout
      /\ UNCHANGED <<rows, version, mode, change>>
      /\ hurried' = (hurried \/ Busy) /\ drags' = drags + 1 /\ drags' = i
      /\ move # <<>>
  BY <1>0
  DEF DragEnd, Editor, IInv, CacheInv, SavesInv, GoodLayout, Shown, home, MoveOn
<1>2. saves'[i] = [NoSave EXCEPT !.stage = "sent", !.at = Shown.version, !.with = token,
                                 !.move = move, !.previous = Shown, !.loud = TRUE]
  BY <1>0, <1>1 DEF DragEnd, MoveOn
<1>3. /\ saves'[i].stage = "sent" /\ saves'[i].at = Shown.version /\ saves'[i].move = move
      /\ saves'[i].previous = Shown /\ saves'[i].got = NoLayout /\ ~saves'[i].lost
  BY <1>2 DEF NoSave
<1>4. /\ cache'.data = [Shown EXCEPT !.rows = FinalPage(move, Shown.rows)]
      /\ cache'.fetch = "idle" /\ cache'.got = NoLayout
  BY <1>1 DEF DragEnd, MoveOn, Cache, Shown
<1>5. cache'.data.version = Shown.version /\ cache'.data # NoLayout
  <2> DEFINE final == FinalPage(move, Shown.rows)
  <2>1. final \in Page
    BY <1>1, MovedPage DEF IInv, CacheInv, GoodLayout, Shown, Position
  <2> HIDE DEF final
  <2>2. [Shown EXCEPT !.rows = final] \in Layout
        /\ [Shown EXCEPT !.rows = final].version = Shown.version
    BY <1>1, <2>1 DEF Layout
  <2> QED
    BY <1>4, <2>2, NoLayoutAssumption DEF final
<1>6. UnderWay(i)'
  BY <1>3 DEF UnderWay
<1>7. SeenCache'
  <2>1. Busy'
    BY <1>1, <1>6 DEF Busy
  <2> QED
    BY <1>1, <1>4, <1>5, <2>1 DEF SeenInv, SeenCache, Past, Shown
<1>8. ASSUME ~hurried' PROVE ~hurried /\ ~Busy
  BY <1>1, <1>8
<1>9. SeenSave(i)'
  <2>1. Moved(saves[i])'
    BY <1>1, <1>3 DEF Moved
  <2>2. Past(saves[i].previous)'
    BY <1>1, <1>3 DEF SeenInv, SeenCache, Past, Shown
  <2>3. ~hurried' => Fresh(saves[i].previous)' /\ ~Changing'
    BY <1>1, <1>3, <1>8 DEF SeenInv, SeenCache, Fresh, Editor, Busy, Changing
  <2>4. Past(NoLayout)' /\ Fresh(NoLayout)'
    BY DEF Past, Fresh, FreshFor
  <2> HIDE DEF move
  <2> QED
    BY <1>1, <1>3, <2>1, <2>2, <2>3, <2>4 DEF SeenSave
<1>10. ASSUME NEW j \in 1..MaxDrags, j # i PROVE SeenSave(j)'
  <2>1. saves'[j] = [saves[j] EXCEPT !.loud = FALSE] /\ saves[j] \in Save /\ SeenSave(j)
    BY <1>0, <1>10 DEF DragEnd, Silenced, IInv, SavesInv, SaveInv, SeenInv
  <2>2. SameSave(j)
    BY <2>1 DEF SameSave, Save
  <2>3. Moved(saves[j])' <=> Moved(saves[j])
    BY <2>2 DEF Moved, SameSave
  <2>4. Excused(saves[j].previous.rows) => Excused(saves[j].previous.rows)'
    BY <1>1, <2>2 DEF Excused, BelowGrid, UnseenIn, SameSave
  <2>5. ~hurried' => ~UnderWay(j)'
    BY <1>8, <2>2 DEF Busy, UnderWay, SameSave
  <2> QED
    BY <1>1, <2>1, <2>2, <2>3, <2>4, <2>5 DEF SeenSave, SameSave, Past, UnderWay
<1> QED
  BY <1>7, <1>9, <1>10 DEF SeenInv

LEMMA StartsSeen ==
    ASSUME IInv, SeenInv, Editor, NEW op, NEW w, NEW key, Starts(op, w, key)
    PROVE  SeenInv'
<1>1. /\ UNCHANGED <<rows, version, mode, cache, saves, drags>>
      /\ hurried' = (hurried \/ Busy) /\ change'.stage = "sent" /\ Shown # NoLayout
      /\ LateStays
  BY DEF Starts, Editor, LateStays, home, page
<1>2. SeenCache'
  BY <1>1 DEF SeenInv, SeenCache, Past, Shown, Busy, Changing
<1>3. ASSUME NEW i \in 1..MaxDrags PROVE SeenSave(i)'
  <2>1. SeenSave(i) /\ (~hurried' => ~UnderWay(i)) /\ (hurried => hurried')
    BY <1>1 DEF SeenInv, Busy
  <2>2. Moved(saves[i])' <=> Moved(saves[i])
    BY <1>1 DEF Moved
  <2>3. Excused(saves[i].previous.rows) => Excused(saves[i].previous.rows)'
    BY <1>1, FreshStays DEF Excused, BelowGrid
  <2> QED
    BY <1>1, <2>1, <2>2, <2>3 DEF SeenSave, Past, UnderWay
<1> QED
  BY <1>2, <1>3 DEF SeenInv

LEMMA SeenInductive ==
    ASSUME IInv, SeenInv, [Next]_vars
    PROVE  SeenInv'
<1>1. CASE UNCHANGED vars
  <2>1. UNCHANGED <<rows, version, cache, mode, saves, drags, change, hurried>>
    BY <1>1 DEF vars, home, page
  <2>2. \A i \in 1..MaxDrags : SameSave(i)
    BY <2>1 DEF SameSave
  <2>3. SeenCache'
    BY <2>1 DEF SeenInv, SeenCache, Past, Fresh, Shown, Changing, Busy, UnderWay
  <2> QED
    BY <2>1, <2>2, <2>3, SavesStaySeen DEF SeenInv, Changing, LateStays
<1>2. ASSUME NEW w \in WidgetId, NEW column \in Column, NEW position \in Position,
             OtherSaves(w, column, position)
      PROVE  SeenInv'
  <2>1. version' = version + 1 /\ UNCHANGED <<cache, mode, saves, drags, change, hurried>>
    BY <1>2 DEF OtherSaves, page
  <2>3. OnPage(rows') = OnPage(rows)
    BY <1>2, OtherSavesStep DEF IInv
  <2>2. \A i \in 1..MaxDrags : SeenSave(i)'
    BY <2>1, <2>3, SaveAfterNewVersion DEF UnderWay
  <2> QED
    BY <2>1, <2>2, CacheAfterNewVersion DEF SeenInv
<1>3. CASE SaveSteps
  BY <1>3, ServerSeen, ApplySeen, AnswersSeen DEF SaveSteps
<1>4. ASSUME NEW w \in WidgetId, StartRemove(w) \/ \E key \in WidgetKey : StartAdd(w, key)
      PROVE  SeenInv'
  BY <1>4, StartsSeen DEF StartRemove, StartAdd
<1>5. CASE ChangeSettles
  <2>1. /\ UNCHANGED <<rows, version, mode, saves, drags, hurried>>
        /\ cache' = Invalidated(cache) /\ Changing /\ change' = GivenUp(change)
    BY <1>5 DEF ChangeSettles, Changing, home
  <2>2. change'.stage \in {"done", "lost"}
    BY <2>1 DEF GivenUp, Recalled, NoChange, IInv, WorkInv, Change
  <2> QED
    BY <2>1, <2>2, InvalidatedSeen
<1> QED
  BY <1>1, <1>2, <1>3, <1>4, <1>5, FetchSeen, ModeSeen, DragSeen, LockSeen, WidgetServed
  DEF Next

LEMMA SeenInitially == ASSUME Init PROVE SeenInv
BY DEF Init, SeenInv, SeenCache, SeenSave, NoSave, NoChange, UnderWay, Past, Shown, Changing,
       Busy

LEMMA SeenHolds == Spec => []SeenInv
<1>1. IInv /\ SeenInv /\ [Next]_vars => SeenInv'
  BY SeenInductive
<1> QED
  BY SeenInitially, InvariantHolds, <1>1, PTL DEF Spec

-----------------------------------------------------------------------------
(* The theorems.                                                            *)

\* Every variable keeps its type; whatever drags, answers and fetches meet in the
\* cache, each widget that is shown has a slot of its own.
THEOREM TypeCorrect == Spec => []TypeOK
<1>1. IInv => TypeOK
  <2> SUFFICES ASSUME IInv PROVE TypeOK
    OBVIOUS
  <2>1. saves \in [1..MaxDrags -> Save]
    BY DEF IInv, SavesInv, SaveInv
  <2>2. Shown # NoLayout => SlotsDistinct(Shown.rows)
    BY DEF IInv, CacheInv, GoodLayout, Shown, Proper
  <2> QED
    BY <2>1, <2>2
    DEF IInv, HomeInv, LockInv, CacheInv, SavesInv, SaidInv, WorkInv, Proper, TypeOK
<1> QED
  BY <1>1, InvariantHolds, PTL

\* With any number of saves under way together, answered in any order, lost or left
\* behind: "Saved." stands by a last drag that is saved, and the notice of a conflict by
\* one that is not (useSaveHomeLayout's callbacks in HomePage).
THEOREM MessagesAreTruthful == Spec => []MessagesTruthful
<1>1. IInv => MessagesTruthful
  BY DEF IInv, SaidInv, MessagesTruthful
<1> QED
  BY <1>1, InvariantHolds, PTL

\* The server, as the editor's tab, its other tab and their added and removed widgets see
\* it, changes the home only as HomePage promises: a save is one step that raises the
\* version and leaves every widget in a slot of its own.
THEOREM EditorRefinesHomePage == Spec => ImplementsHomePage
<1>1. Init => Abstract!Init
  BY Initially
<1>2. IInv /\ [Next]_vars => [Abstract!Next]_(Abstract!vars)
  BY Inductive
<1> QED
  BY <1>1, <1>2, InvariantHolds, PTL DEF Spec, ImplementsHomePage, Abstract!Spec

\* Who does one thing at a time sees the home as it is: whatever is refused, fetched or
\* rolled back (useSaveHomeLayout's onError and onSuccess, the invalidations of useHomes.ts),
\* a layout of the present version shows the present rows, but for one widget whose adding or
\* removal was given up by the page and done by the server afterwards.
THEOREM ShownRowsAreTrue == Spec => []ShownIsTrue
<1>1. SeenInv => ShownIsTrue
  BY DEF SeenInv, SeenCache, ShownIsTrue, Fresh, FreshFor, AgreesIn, UnseenIn, Unseen, Editor
<1> QED
  BY <1>1, SeenHolds, PTL

\* "The server never has to refuse a move the user made on screen" (placementsForMove of
\* useHomes.ts), with the three exceptions the claim does not make: on any page, a drag is a
\* valid one for who does one thing at a time, if no widget is below the grid and none was
\* added or removed late that the page does not show.
THEOREM MovesAreAccepted == Spec => []MovesAreValid
<1>1. SeenInv => MovesAreValid
  BY DEF SeenInv, SeenSave, MovesAreValid, Excused, BelowGrid, UnseenIn, Unseen
<1> QED
  BY <1>1, SeenHolds, PTL
=============================================================================
