--------------------------- MODULE HomeLayoutProofs ---------------------------
(***************************************************************************)
(* What the functions of HomeLayout return, for every page and every list    *)
(* of placements: each statement of a validated save is accepted by the       *)
(* UNIQUE index, and together they turn the page into FinalPage.             *)
(***************************************************************************)
EXTENDS HomeLayout, TLAPS

\* A page as it is between saves: no two rows in one slot, none mirrored.
Proper(page) ==
    /\ page \in Page
    /\ SlotsDistinct(page)
    /\ \A w \in OnPage(page) : page[w].position >= 0

\* A list that passed ValidatePlacements on the page.
Accepted(requested, page) ==
    /\ requested \in Seq(Placement)
    /\ \A i \in 1..Len(requested) :
          /\ requested[i].id \in OnPage(page)
          /\ requested[i].column \in Column
          /\ requested[i].position \in 0..MaxPosition
          /\ \A j \in 1..Len(requested) : requested[i].id = requested[j].id => i = j
    /\ SlotsDistinct(FinalPage(requested, page))

\* The page inside a save, once it is mirrored and n placements are written.
Written(requested, page, n) ==
    [w \in WidgetId |->
        IF \E i \in 1..n : requested[i].id = w
        THEN FinalPage(requested, page)[w] ELSE Mirror(page)[w]]

-----------------------------------------------------------------------------
\* A validation that finds no fault has looked at everything Accepted says.
LEMMA ValidationAccepts ==
    ASSUME NEW page \in Page, NEW requested \in Seq(Placement),
           ValidatePlacements(requested, page) = "none"
    PROVE  Accepted(requested, page)
<1>1. Faults(requested, page) = {} /\ SlotsDistinct(FinalPage(requested, page))
  BY DEF ValidatePlacements
<1>2. \A i \in 1..Len(requested) : PlacementFault(requested, page, i) = "none"
  BY <1>1 DEF Faults
<1>3. ASSUME NEW i \in 1..Len(requested)
      PROVE  /\ requested[i].id \in OnPage(page)
             /\ requested[i].column \in Column
             /\ requested[i].position \in 0..MaxPosition
             /\ ~\E j \in 1..(i - 1) : requested[j].id = requested[i].id
  <2>1. PlacementFault(requested, page, i) = "none"
    BY <1>2
  <2>2. requested[i].position \in Nat
    <3>1. requested[i] \in Placement
      OBVIOUS
    <3> QED
      BY <3>1 DEF Placement
  <2>3. /\ ~\E j \in 1..(i - 1) : requested[j].id = requested[i].id
        /\ requested[i].id \in OnPage(page)
        /\ ~OffGrid(requested[i])
    BY <2>1 DEF PlacementFault
  <2> QED
    BY <2>2, <2>3, LayoutAssumption DEF OffGrid
<1>4. ASSUME NEW i \in 1..Len(requested), NEW j \in 1..Len(requested),
             requested[i].id = requested[j].id
      PROVE  i = j
  <2>1. CASE i < j
    BY <2>1, <1>3, <1>4, i \in 1..(j - 1)
  <2>2. CASE j < i
    BY <2>2, <1>3, <1>4, j \in 1..(i - 1)
  <2> QED
    BY <2>1, <2>2
<1> QED
  BY <1>1, <1>3, <1>4 DEF Accepted

\* ValidatePlacements answers one of three things.
LEMMA ValidationAnswers ==
    ASSUME NEW page, NEW requested
    PROVE  ValidatePlacements(requested, page) \in {"none", "invalid", "denied"}
  BY DEF ValidatePlacements

-----------------------------------------------------------------------------
\* The final page holds the same widgets, each in its old slot or its new one.
LEMMA FinalPageRows ==
    ASSUME NEW page, Proper(page), NEW requested, Accepted(requested, page)
    PROVE  /\ FinalPage(requested, page) \in Page
           /\ Proper(FinalPage(requested, page))
           /\ \A w \in WidgetId :
                 /\ FinalPage(requested, page)[w] = NoRow <=> page[w] = NoRow
                 /\ ~(\E i \in 1..Len(requested) : requested[i].id = w)
                       => FinalPage(requested, page)[w] = page[w]
           /\ \A i \in 1..Len(requested) :
                 LET w == requested[i].id IN
                 /\ FinalPage(requested, page)[w].key = page[w].key
                 /\ FinalPage(requested, page)[w].column = requested[i].column
                 /\ FinalPage(requested, page)[w].position = requested[i].position
<1> DEFINE final == FinalPage(requested, page)
<1>0. DOMAIN requested = 1..Len(requested)
  BY DEF Accepted
<1>1. ASSUME NEW i \in 1..Len(requested)
      PROVE  /\ requested[i].id \in WidgetId /\ page[requested[i].id] \in Row
             /\ PlacementOf(requested, requested[i].id) = requested[i]
             /\ requested[i].id \in Mentioned(requested)
  <2>1. requested[i].id \in OnPage(page)
    BY DEF Accepted
  <2>2. (CHOOSE j \in DOMAIN requested : requested[j].id = requested[i].id) = i
    BY <1>0 DEF Accepted
  <2> QED
    BY <2>1, <2>2, <1>0 DEF OnPage, PlacementOf, Mentioned, Proper, Page
<1>2. ASSUME NEW i \in 1..Len(requested)
      PROVE  final[requested[i].id] =
                [page[requested[i].id] EXCEPT !.column = requested[i].column,
                                              !.position = requested[i].position]
  BY <1>1, NoRowAssumption DEF FinalPage
<1>3. ASSUME NEW w \in WidgetId, ~(\E i \in 1..Len(requested) : requested[i].id = w)
      PROVE  final[w] = page[w]
  BY <1>0, <1>3 DEF FinalPage, Mentioned
<1>4. ASSUME NEW i \in 1..Len(requested)
      PROVE  /\ final[requested[i].id] \in Row
             /\ final[requested[i].id].position >= 0
  <2>1. /\ requested[i].column \in Column
        /\ requested[i].position \in Nat
    BY DEF Accepted
  <2>2. requested[i].position \in Int
    BY <2>1
  <2>3. /\ page[requested[i].id] \in Row
        /\ final[requested[i].id] =
              [page[requested[i].id] EXCEPT !.column = requested[i].column,
                                            !.position = requested[i].position]
    BY <1>1, <1>2
  <2> HIDE DEF final
  <2>4. /\ final[requested[i].id] \in Row
        /\ final[requested[i].id].position = requested[i].position
    BY <2>1, <2>2, <2>3 DEF Row
  <2> QED
    BY <2>1, <2>4
<1>5. ASSUME NEW w \in WidgetId
      PROVE  /\ final[w] \in Row \cup {NoRow}
             /\ final[w] = NoRow <=> page[w] = NoRow
             /\ final[w] # NoRow => final[w].position >= 0
  <2>1. CASE \E i \in 1..Len(requested) : requested[i].id = w
    <3>1. PICK i \in 1..Len(requested) : requested[i].id = w
      BY <2>1
    <3> QED
      BY <3>1, <1>1, <1>4, NoRowAssumption
  <2>2. CASE ~\E i \in 1..Len(requested) : requested[i].id = w
    BY <2>2, <1>3 DEF Proper, Page, OnPage
  <2> QED
    BY <2>1, <2>2
<1>6. final \in Page
  <2>1. final = [w \in WidgetId |-> final[w]]
    BY DEF FinalPage
  <2> QED
    BY <2>1, <1>5 DEF Page
<1>7. Proper(final)
  BY <1>5, <1>6 DEF Proper, Accepted, OnPage
<1>8. ASSUME NEW i \in 1..Len(requested)
      PROVE  /\ final[requested[i].id].key = page[requested[i].id].key
             /\ final[requested[i].id].column = requested[i].column
             /\ final[requested[i].id].position = requested[i].position
  BY <1>1, <1>2 DEF Row
<1> QED
  BY <1>3, <1>5, <1>6, <1>7, <1>8

\* A mirrored row is a row of its own column, off the page.
LEMMA MirroredRow ==
    ASSUME NEW page, Proper(page), NEW w \in OnPage(page)
    PROVE  /\ page[w] \in Row /\ page[w].position \in Nat
           /\ Mirror(page)[w] \in Row
           /\ Mirror(page)[w].key = page[w].key
           /\ Mirror(page)[w].column = page[w].column
           /\ Mirror(page)[w].position = -(page[w].position + 1)
           /\ Mirror(page)[w].position < 0
<1>1. w \in WidgetId /\ page[w] \in Row /\ page[w].position >= 0
  BY DEF Proper, Page, OnPage
<1>2. Mirror(page)[w] = [page[w] EXCEPT !.position = -(page[w].position + 1)]
  BY <1>1, NoRowAssumption DEF Mirror
<1> QED
  BY <1>1, <1>2 DEF Row

\* The page inside a save: placed widgets are in their final slots, the others
\* are mirrored, and no two share a slot.
LEMMA WrittenRows ==
    ASSUME NEW page, Proper(page), NEW requested, Accepted(requested, page),
           NEW n \in 0..Len(requested)
    PROVE  /\ Written(requested, page, n) \in Page
           /\ OnPage(Written(requested, page, n)) = OnPage(page)
           /\ SlotsDistinct(Written(requested, page, n))
<1> DEFINE final == FinalPage(requested, page)
           written == Written(requested, page, n)
           Placed(w) == \E i \in 1..n : requested[i].id = w
<1>1. ASSUME NEW w \in WidgetId, Placed(w)
      PROVE  /\ w \in OnPage(page) /\ w \in OnPage(final)
             /\ written[w] = final[w]
             /\ written[w] \in Row /\ written[w].position \in Nat
  <2>1. PICK i \in 1..n : requested[i].id = w
    BY <1>1
  <2>2. w \in OnPage(page)
    BY <2>1 DEF Accepted
  <2>3. written[w] = final[w]
    BY <1>1 DEF Written
  <2>4. Proper(final) /\ final \in Page /\ (final[w] = NoRow <=> page[w] = NoRow)
    BY FinalPageRows
  <2>5. w \in OnPage(final)
    BY <2>2, <2>4 DEF OnPage
  <2>6. final[w] \in Row /\ final[w].position \in Nat
    BY <2>4, <2>5 DEF OnPage, Page, Proper, Row
  <2> QED
    BY <2>2, <2>3, <2>5, <2>6
<1>2. ASSUME NEW w \in OnPage(page), ~Placed(w)
      PROVE  /\ written[w] = Mirror(page)[w]
             /\ written[w] \in Row
             /\ written[w].position \in Int /\ written[w].position < 0
  <2>1. written[w] = Mirror(page)[w]
    BY <1>2 DEF Written, OnPage
  <2> QED
    BY <2>1, MirroredRow DEF Row
<1>3. ASSUME NEW w \in WidgetId \ OnPage(page)
      PROVE  written[w] = NoRow
  BY <1>1, <1>3 DEF Written, Mirror, OnPage
<1>4. written \in Page
  <2>1. written = [w \in WidgetId |-> written[w]]
    BY DEF Written
  <2>2. ASSUME NEW w \in WidgetId PROVE written[w] \in Row \cup {NoRow}
    BY <1>1, <1>2, <1>3
  <2> QED
    BY <2>1, <2>2 DEF Page
<1>5. OnPage(written) = OnPage(page)
  BY <1>1, <1>2, <1>3, NoRowAssumption DEF OnPage
<1>6. ASSUME NEW v \in OnPage(page), NEW w \in OnPage(page),
             Slot(written[v]) = Slot(written[w])
      PROVE  v = w
  <2>0. /\ written[v].column = written[w].column
        /\ written[v].position = written[w].position
        /\ v \in WidgetId /\ w \in WidgetId
    BY <1>6 DEF Slot, OnPage
  <2>1. CASE Placed(v) /\ Placed(w)
    <3>1. Slot(final[v]) = Slot(final[w]) /\ v \in OnPage(final) /\ w \in OnPage(final)
      BY <1>1, <1>6, <2>0, <2>1
    <3> QED
      BY <3>1 DEF Accepted, SlotsDistinct
  <2>2. CASE ~Placed(v) /\ ~Placed(w)
    <3>1. /\ page[v].column = page[w].column
          /\ -(page[v].position + 1) = -(page[w].position + 1)
          /\ page[v].position \in Nat /\ page[w].position \in Nat
      BY <1>2, <2>0, <2>2, MirroredRow
    <3>2. Slot(page[v]) = Slot(page[w])
      BY <3>1 DEF Slot
    <3> QED
      BY <3>2 DEF Proper, SlotsDistinct
  <2>3. CASE Placed(v) /\ ~Placed(w)
    BY <1>1, <1>2, <2>0, <2>3
  <2>4. CASE ~Placed(v) /\ Placed(w)
    BY <1>1, <1>2, <2>0, <2>4
  <2> QED
    BY <2>1, <2>2, <2>3, <2>4
<1>7. SlotsDistinct(written)
  BY <1>5, <1>6 DEF SlotsDistinct
<1> QED
  BY <1>4, <1>5, <1>7

-----------------------------------------------------------------------------
\* An update clashes with nothing when the slots after it are distinct and no
\* row it moves goes to the position another row it moves comes from.
LEMMA CleanUpdate ==
    ASSUME NEW before, NEW after,
           OnPage(after) = OnPage(before), SlotsDistinct(after),
           \A v, w \in OnPage(before) :
              after[v] # before[v] /\ after[w] # before[w]
                 => after[v].position # before[w].position
    PROVE  ~Clash(before, after)
<1> SUFFICES ASSUME NEW v \in OnPage(before), NEW w \in OnPage(before),
                    v # w, after[v] # before[v],
                    Slot(after[v]) \in {Slot(before[w]), Slot(after[w])}
             PROVE  FALSE
  BY DEF Clash
<1>1. Slot(after[v]) # Slot(after[w])
  BY DEF SlotsDistinct
<1>2. Slot(after[v]) = Slot(before[w]) /\ after[w] # before[w]
  BY <1>1
<1>3. after[v].position = before[w].position
  BY <1>2 DEF Slot
<1> QED
  BY <1>2, <1>3

\* MirrorRows of a proper page is accepted by the index.
LEMMA MirrorIsClean ==
    ASSUME NEW page, Proper(page), NEW requested, Accepted(requested, page)
    PROVE  /\ Mirror(page) = Written(requested, page, 0)
           /\ ~Clash(page, Mirror(page))
<1>1. Mirror(page) = Written(requested, page, 0)
  BY DEF Mirror, Written
<1>2. /\ OnPage(Mirror(page)) = OnPage(page)
      /\ SlotsDistinct(Mirror(page))
  <2>1. 0 \in 0..Len(requested)
    BY DEF Accepted
  <2> QED
    BY <1>1, <2>1, WrittenRows
<1>3. ASSUME NEW v \in OnPage(page), NEW w \in OnPage(page)
      PROVE  Mirror(page)[v].position # page[w].position
  <2>1. /\ Mirror(page)[v].position = -(page[v].position + 1)
        /\ page[v].position \in Nat /\ page[w].position \in Nat
    BY MirroredRow
  <2> QED
    BY <2>1
<1> QED
  BY <1>1, <1>2, <1>3, CleanUpdate

\* PlaceWidget writes the next placement of an accepted list, whatever the
\* order of the list: the index has nothing against it.
LEMMA PlaceIsClean ==
    ASSUME NEW page, Proper(page), NEW requested, Accepted(requested, page),
           NEW n \in 0..Len(requested), n < Len(requested)
    PROVE  /\ Place(Written(requested, page, n), requested[n + 1])
                 = Written(requested, page, n + 1)
           /\ ~Clash(Written(requested, page, n), Written(requested, page, n + 1))
<1> DEFINE before == Written(requested, page, n)
           after == Written(requested, page, n + 1)
           final == FinalPage(requested, page)
           p == requested[n + 1]
<1>1. /\ n + 1 \in 1..Len(requested) /\ n + 1 \in 0..Len(requested)
      /\ n \in Nat
  BY DEF Accepted
<1>2. /\ p.id \in OnPage(page) /\ p.id \in WidgetId
      /\ \A i \in 1..n : requested[i].id # p.id
  <2>1. p.id \in OnPage(page)
    BY <1>1 DEF Accepted
  <2>2. ASSUME NEW i \in 1..n PROVE requested[i].id # p.id
    BY <1>1 DEF Accepted
  <2> QED
    BY <2>1, <2>2 DEF OnPage
<1>3. /\ before \in Page /\ OnPage(before) = OnPage(page)
      /\ after \in Page /\ OnPage(after) = OnPage(page) /\ SlotsDistinct(after)
  BY <1>1, WrittenRows
<1>4. before[p.id] = Mirror(page)[p.id] /\ after[p.id] = final[p.id]
  <2>1. \E i \in 1..(n + 1) : requested[i].id = p.id
    BY <1>1
  <2> QED
    BY <1>2, <2>1 DEF Written
<1>5. ASSUME NEW w \in WidgetId, w # p.id
      PROVE  after[w] = before[w]
  <2>1. (\E i \in 1..(n + 1) : requested[i].id = w)
           <=> (\E i \in 1..n : requested[i].id = w)
    <3>1. 1..(n + 1) = 1..n \cup {n + 1}
      BY <1>1
    <3> QED
      BY <3>1, <1>5
  <2> QED
    BY <2>1 DEF Written
<1>6. /\ after[p.id].key = before[p.id].key
      /\ after[p.id].column = p.column
      /\ after[p.id].position = p.position
      /\ after[p.id] \in Row /\ before[p.id] \in Row
      /\ p.column \in Column /\ p.position \in Nat
      /\ before[p.id].position < 0 /\ before[p.id].position \in Int
  <2>1. /\ final[p.id].key = page[p.id].key
        /\ final[p.id].column = p.column
        /\ final[p.id].position = p.position
    BY <1>1, FinalPageRows
  <2>2. /\ Mirror(page)[p.id].key = page[p.id].key
        /\ Mirror(page)[p.id].position < 0
    BY <1>2, MirroredRow
  <2>3. after[p.id] \in Row /\ before[p.id] \in Row
    BY <1>2, <1>3 DEF Page, OnPage
  <2>4. p.column \in Column /\ p.position \in Nat
    BY <1>1 DEF Accepted
  <2> QED
    BY <1>4, <2>1, <2>2, <2>3, <2>4 DEF Row
<1>7. Place(before, p) = after
  <2>1. after = [w \in WidgetId |-> after[w]]
    BY DEF Written
  <2>2. before[p.id] # NoRow
    BY <1>6, NoRowAssumption
  <2>3. [before[p.id] EXCEPT !.column = p.column, !.position = p.position] = after[p.id]
    BY <1>6 DEF Row
  <2>4. ASSUME NEW w \in WidgetId
        PROVE  Place(before, p)[w] = after[w]
    <3>1. CASE w = p.id
      BY <3>1, <2>2, <2>3 DEF Place
    <3>2. CASE w # p.id
      BY <3>2, <1>5 DEF Place
    <3> QED
      BY <3>1, <3>2
  <2>5. Place(before, p) = [w \in WidgetId |-> Place(before, p)[w]]
    BY DEF Place
  <2> QED
    BY <2>1, <2>4, <2>5
<1>8. ~Clash(before, after)
  <2>1. ASSUME NEW v \in OnPage(before), NEW w \in OnPage(before),
               after[v] # before[v], after[w] # before[w]
        PROVE  after[v].position # before[w].position
    <3>1. v = p.id /\ w = p.id
      BY <2>1, <1>5 DEF OnPage
    <3> QED
      BY <3>1, <1>6
  <2> QED
    BY <1>3, <2>1, CleanUpdate
<1> QED
  BY <1>7, <1>8

\* UnmirrorRows ends a save: the rows no placement wrote are back in the slots
\* they had, which nothing has taken, and the page is the final page.
LEMMA UnmirrorIsClean ==
    ASSUME NEW page, Proper(page), NEW requested, Accepted(requested, page)
    PROVE  LET before == Written(requested, page, Len(requested)) IN
           /\ Unmirror(before) = FinalPage(requested, page)
           /\ ~Clash(before, Unmirror(before))
<1> DEFINE before == Written(requested, page, Len(requested))
           final == FinalPage(requested, page)
           Placed(w) == \E i \in 1..Len(requested) : requested[i].id = w
<1>1. Len(requested) \in 0..Len(requested)
  BY DEF Accepted
<1>2. /\ before \in Page /\ OnPage(before) = OnPage(page)
      /\ Proper(final) /\ OnPage(final) = OnPage(page)
  BY <1>1, WrittenRows, FinalPageRows DEF OnPage
<1>3. ASSUME NEW w \in WidgetId, Placed(w)
      PROVE  /\ before[w] = final[w]
             /\ Unmirror(before)[w] = final[w]
  <2>1. before[w] = final[w]
    BY <1>3 DEF Written
  <2>2. PICK i \in 1..Len(requested) : requested[i].id = w
    BY <1>3
  <2>3. final[w].position = requested[i].position
    BY <2>2, FinalPageRows
  <2>4. requested[i].position \in Nat
    BY DEF Accepted
  <2> QED
    BY <2>1, <2>3, <2>4 DEF Unmirror
<1>4. ASSUME NEW w \in OnPage(page), ~Placed(w)
      PROVE  /\ before[w] = Mirror(page)[w]
             /\ final[w] = page[w]
             /\ before[w].position \in Int /\ before[w].position < 0
             /\ final[w].position \in Nat
             /\ Unmirror(before)[w] = final[w]
  <2>0. w \in WidgetId
    BY DEF OnPage
  <2>1. before[w] = Mirror(page)[w]
    BY <1>4, <2>0 DEF Written
  <2>2. final[w] = page[w]
    BY <1>4, <2>0, FinalPageRows
  <2>3. /\ page[w] \in Row /\ page[w].position \in Nat
        /\ Mirror(page)[w] \in Row
        /\ Mirror(page)[w].key = page[w].key
        /\ Mirror(page)[w].column = page[w].column
        /\ Mirror(page)[w].position = -(page[w].position + 1)
    BY MirroredRow
  <2>4. Unmirror(before)[w] = [Mirror(page)[w] EXCEPT
                                  !.position = -(Mirror(page)[w].position + 1)]
    BY <2>0, <2>1, <2>3, NoRowAssumption DEF Unmirror
  <2>5. -(Mirror(page)[w].position + 1) = page[w].position
    BY <2>3
  <2>6. [Mirror(page)[w] EXCEPT !.position = page[w].position] = page[w]
    BY <2>3 DEF Row
  <2> QED
    BY <2>1, <2>2, <2>3, <2>4, <2>5, <2>6
<1>5. ASSUME NEW w \in WidgetId \ OnPage(page)
      PROVE  before[w] = NoRow /\ final[w] = NoRow /\ Unmirror(before)[w] = NoRow
  BY <1>2 DEF OnPage, Unmirror
<1>6. Unmirror(before) = final
  <2>1. Unmirror(before) = [w \in WidgetId |-> Unmirror(before)[w]]
    BY DEF Unmirror
  <2>2. final = [w \in WidgetId |-> final[w]]
    BY DEF FinalPage
  <2>3. ASSUME NEW w \in WidgetId PROVE Unmirror(before)[w] = final[w]
    BY <1>3, <1>4, <1>5
  <2> QED
    BY <2>1, <2>2, <2>3
<1>7. ASSUME NEW v \in OnPage(before), NEW w \in OnPage(before),
             final[v] # before[v], final[w] # before[w]
      PROVE  final[v].position # before[w].position
  <2>1. v \in OnPage(page) /\ w \in OnPage(page) /\ ~Placed(v) /\ ~Placed(w)
    BY <1>2, <1>3, <1>7 DEF OnPage
  <2> QED
    BY <2>1, <1>4
<1>8. ~Clash(before, final)
  BY <1>2, <1>7, CleanUpdate DEF Proper
<1> QED
  BY <1>6, <1>8

-----------------------------------------------------------------------------
\* A drag in the editor makes a list of placements, whatever page it shows.
LEMMA MoveIsAList ==
    ASSUME NEW page, Proper(page), NEW w \in OnPage(page),
           NEW column \in Column, NEW position \in 0..MaxPosition
    PROVE  PlacementsForMove(page, w, column, position) \in Seq(Placement)
<1> DEFINE occupants == {v \in OnPage(page) \ {w} : Slot(page[v]) = <<column, position>>}
           moved == [id |-> w, column |-> column, position |-> position]
           other == [id |-> CHOOSE v \in occupants : TRUE,
                     column |-> page[w].column, position |-> page[w].position]
<1>1. ASSUME NEW v \in OnPage(page)
      PROVE  v \in Nat /\ page[v].column \in Column /\ page[v].position \in Nat
  BY LayoutAssumption DEF OnPage, Proper, Page, Row
<1>2. moved \in Placement
  BY <1>1, LayoutAssumption DEF Placement, Column
<1>3. CASE occupants = {}
  BY <1>2, <1>3 DEF PlacementsForMove
<1>4. CASE occupants # {}
  <2>1. (CHOOSE v \in occupants : TRUE) \in OnPage(page)
    BY <1>4
  <2>2. other \in Placement
    BY <1>1, <2>1 DEF Placement, Column
  <2> HIDE DEF moved, other
  <2>3. <<moved, other>> \in Seq(Placement) /\ <<>> \in Seq(Placement)
    BY <1>2, <2>2
  <2>4. PlacementsForMove(page, w, column, position) \in {<<>>, <<moved, other>>}
    BY <1>4 DEF PlacementsForMove, moved, other
  <2> QED
    BY <2>3, <2>4
<1> QED
  BY <1>3, <1>4
=============================================================================
