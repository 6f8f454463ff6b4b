---------------------------- MODULE SsoTicketProofs ----------------------------
(***************************************************************************)
(* Proofs about SsoTicket for every set of requests, timer runs and tickets. *)
(* The invariant follows the record, on which every chain relies from its      *)
(* first statement to its last.  For the refinement of Credential: the tickets *)
(* in the two tables, and those being issued, are all different.              *)
(***************************************************************************)
EXTENDS SsoTicket, TLAPS

Named ==
    /\ record.open => record.ticket \in Ticket
    /\ \A p \in Process :
          pc[p] \in {"record", "write", "tombstone", "mark"} => mine[p] \in Ticket

\* No issue half way: what can be presented is what the record schedules.
Scheduled == Settled => HasDeadline

\* What each process relies on when nothing disturbs it: an issue on its own
\* deadline, a void on the record it read, and on having nothing left to void.
Relies(p) ==
    /\ pc[p] = "write" => record = [ticket |-> mine[p], open |-> TRUE]
    /\ pc[p] = "tombstone" /\ record.open => record.ticket = mine[p]
    /\ pc[p] = "mark" => Presentable \notin Ticket

IInv ==
    /\ TypeOK
    /\ Named
    /\ ~disturbed => Scheduled /\ \A p \in Process : Relies(p)

-----------------------------------------------------------------------------
(* Types.                                                                    *)

\* Initially nothing is issued and every process is idle.
LEMMA InitHolds == Init => IInv
<1> SUFFICES ASSUME Init PROVE IInv
  OBVIOUS
<1>1. TypeOK
  <2>1. record \in Record
    BY DEF Init, Record
  <2>2. mishaps \in 0..MaxMishaps
    BY TicketAssumption DEF Init
  <2>3. /\ pc \in [Process -> Statement]
        /\ mine \in [Process -> Ticket \cup {NoTicket}]
    BY DEF Init, Statement
  <2> QED
    BY <2>1, <2>2, <2>3 DEF Init, TypeOK
<1>2. Named
  BY DEF Init, Named
<1>3. Scheduled /\ \A p \in Process : Relies(p)
  BY TicketAssumption DEF Init, Scheduled, HasDeadline, Presentable, Relies
<1> QED
  BY <1>1, <1>2, <1>3 DEF IInv

\* Moving a chain on keeps the types of pc and mine, and what mine is needed for.
LEMMA GotoTypes ==
    ASSUME TypeOK, NEW p \in Process, NEW where \in Statement, Goto(p, where)
    PROVE  /\ pc' \in [Process -> Statement]
           /\ mine' \in [Process -> Ticket \cup {NoTicket}]
BY DEF TypeOK, Goto

\* Every step keeps the types, and a process that needs a ticket has one.
LEMMA TypeStep == TypeOK /\ Named /\ [Next]_vars => TypeOK' /\ Named'
<1> SUFFICES ASSUME TypeOK, Named, [Next]_vars PROVE TypeOK' /\ Named'
  OBVIOUS
<1> USE DEF TypeOK, Named, Statement, Record, tables, outside
<1>1. ASSUME NEW r \in Process, StartIssue(r) PROVE TypeOK' /\ Named'
  BY <1>1 DEF StartIssue
<1>2. ASSUME NEW r \in Process, RecordDeadline(r) PROVE TypeOK' /\ Named'
  BY <1>2, TicketAssumption DEF RecordDeadline, Recorded, Goto, Watched
<1>3. ASSUME NEW r \in Process, WriteTicket(r) PROVE TypeOK' /\ Named'
  BY <1>3 DEF WriteTicket, Written, Goto, Watched
<1>4. ASSUME NEW r \in Process, StartLogout(r) PROVE TypeOK' /\ Named'
  BY <1>4 DEF StartLogout, Goto
<1>5. ASSUME NEW s \in Process, FindExpired(s) PROVE TypeOK' /\ Named'
  BY <1>5 DEF FindExpired, Goto
<1>6. ASSUME NEW p \in Process, ReadRecord(p) PROVE TypeOK' /\ Named'
  BY <1>6 DEF ReadRecord, Goto, Watched
<1>7. ASSUME NEW p \in Process, WriteTombstone(p) PROVE TypeOK' /\ Named'
  BY <1>7 DEF WriteTombstone, Goto, Watched
<1>8. ASSUME NEW p \in Process, MarkVoided(p) PROVE TypeOK' /\ Named'
  BY <1>8 DEF MarkVoided, Goto, Watched
<1>9. ASSUME NEW p \in Process, StatementFails(p) PROVE TypeOK' /\ Named'
  BY <1>9, TicketAssumption DEF StatementFails, Goto
<1>10. CASE Restart
  BY <1>10, TicketAssumption DEF Restart
<1>11. CASE (\E ticket \in Ticket : Expire(ticket)) \/ GameLogin \/ GameRestore
            \/ OtherSiteWrites
  <2>1. ASSUME NEW ticket \in Ticket, Expire(ticket) PROVE TypeOK' /\ Named'
    BY <2>1 DEF Expire
  <2>2. CASE GameLogin
    BY <2>2 DEF GameLogin
  <2>3. CASE GameRestore
    BY <2>3 DEF GameRestore
  <2>4. CASE OtherSiteWrites
    BY <2>4 DEF OtherSiteWrites
  <2> QED
    BY <1>11, <2>1, <2>2, <2>3, <2>4
<1>12. CASE UNCHANGED vars
  BY <1>12 DEF vars
<1> QED
  BY <1>1, <1>2, <1>3, <1>4, <1>5, <1>6, <1>7, <1>8, <1>9, <1>10, <1>11, <1>12
  DEF Next, Issue, Void, Process

-----------------------------------------------------------------------------
(* What a step does to what the others rely on.                              *)

\* An issue that nothing overlaps: no other process is inside a void, nor
\* between the two statements of its own issue.
LEMMA AloneIssuing ==
    ASSUME NEW p \in Process, Issuing(p), Watched(p), ~disturbed'
    PROVE  ~disturbed /\ \A q \in Process \ {p} : ~Issuing(q) /\ ~Voiding(q)
BY DEF Watched, Overlaps

\* A void that no issue overlaps.
LEMMA AloneVoiding ==
    ASSUME NEW p \in Process, Watched(p), ~disturbed'
    PROVE  ~disturbed /\ \A q \in Process \ {p} : ~Issuing(q)
BY DEF Watched, Overlaps

\* The two statements of an issue.
LEMMA IssueKeeps ==
    ASSUME IInv, NEW p \in Process, Issue(p), ~disturbed'
    PROVE  Scheduled' /\ \A q \in Process : Relies(q)'
<1> USE DEF Issuing, Voiding, Relies, Scheduled, HasDeadline, Settled, Goto
<1>0. TypeOK /\ Named
  BY DEF IInv
<1>1. CASE RecordDeadline(p)
  <2>1. ~disturbed /\ \A q \in Process \ {p} : ~Issuing(q) /\ ~Voiding(q)
    BY <1>1, AloneIssuing DEF RecordDeadline
  <2>2. pc' = [pc EXCEPT ![p] = "write"] /\ mine' = mine
    BY <1>1 DEF RecordDeadline
  <2>3. record' = [ticket |-> mine'[p], open |-> TRUE]
    BY <1>1, <2>2 DEF RecordDeadline, Recorded
  <2>4. pc'[p] = "write" /\ \A q \in Process \ {p} : pc'[q] = pc[q]
    BY <1>0, <2>2 DEF TypeOK
  <2> QED
    BY <2>1, <2>3, <2>4
<1>2. CASE WriteTicket(p)
  <2>1. ~disturbed /\ \A q \in Process \ {p} : ~Issuing(q) /\ ~Voiding(q)
    BY <1>2, AloneIssuing DEF WriteTicket
  <2>2. pc'[p] = "idle" /\ \A q \in Process \ {p} : pc'[q] = pc[q]
    BY <1>0, <1>2 DEF TypeOK, WriteTicket
  <2>3. record' = [ticket |-> mine[p], open |-> TRUE] /\ column' = mine[p]
    BY <1>2, <2>1 DEF WriteTicket, Written, IInv, tables
  <2>4. mine[p] \in Ticket
    BY <1>0, <1>2 DEF WriteTicket, Named
  <2>5. Presentable' = mine[p]
    BY <2>3, <2>4, TicketAssumption DEF Presentable
  <2> QED
    BY <2>1, <2>2, <2>3, <2>5
<1> QED
  BY <1>1, <1>2 DEF Issue

\* The three statements of a void.
LEMMA VoidKeeps ==
    ASSUME IInv, NEW p \in Process, Void(p), ~disturbed'
    PROVE  Scheduled' /\ \A q \in Process : Relies(q)'
<1> USE DEF Issuing, Voiding, Relies
<1>0. TypeOK /\ Named
  BY DEF IInv
<1>1. Watched(p)
  BY DEF Void, ReadRecord, WriteTombstone, MarkVoided
<1>2. ~disturbed /\ \A q \in Process \ {p} : ~Issuing(q)
  BY <1>1, AloneVoiding
<1>3. Scheduled /\ \A q \in Process : Relies(q)
  BY <1>2 DEF IInv
<1>4. Settled
  BY <1>2 DEF Settled, Void, ReadRecord, WriteTombstone, MarkVoided
<1>5. \A q \in Process \ {p} : pc'[q] = pc[q] /\ mine'[q] = mine[q]
  BY <1>0 DEF TypeOK, Void, ReadRecord, WriteTombstone, MarkVoided, Goto
<1>6. CASE ReadRecord(p)
  <2>1. Presentable' = Presentable /\ record' = record
    BY <1>6 DEF ReadRecord, Presentable, tables, outside
  <2>2. \/ pc'[p] = "tombstone" /\ mine'[p] = record.ticket
        \/ pc'[p] = "idle"
    BY <1>0, <1>6 DEF ReadRecord, Goto, TypeOK
  <2> QED
    BY <1>3, <1>4, <1>5, <2>1, <2>2 DEF Scheduled, HasDeadline
<1>7. CASE WriteTombstone(p)
  <2>1. pc[p] = "tombstone" /\ pc'[p] = "mark" /\ record' = record
    BY <1>0, <1>7 DEF WriteTombstone, Goto, TypeOK
  <2>2. Presentable' \notin Ticket
    <3>1. CASE OursToVoid(p)
      BY <1>7, <3>1, TicketAssumption DEF WriteTombstone, Presentable
    <3>2. CASE ~OursToVoid(p)
      <4>1. column' = column /\ column # Empty /\ column # mine[p]
        BY <1>7, <3>2 DEF WriteTombstone, OursToVoid
      <4>2. Presentable = column /\ Presentable' = column
        BY <4>1 DEF Presentable
      <4>3. column \notin Ticket
        BY <1>3, <1>4, <2>1, <4>1, <4>2 DEF Scheduled, HasDeadline
      <4> QED
        BY <4>2, <4>3
    <3> QED
      BY <3>1, <3>2
  <2> QED
    BY <1>3, <1>5, <2>1, <2>2 DEF Scheduled, HasDeadline
<1>8. CASE MarkVoided(p)
  <2>1. pc[p] = "mark" /\ pc'[p] = "idle"
    BY <1>0, <1>8 DEF MarkVoided, Goto, TypeOK
  <2>2. record'.open = FALSE
    BY <1>0, <1>8 DEF MarkVoided, TypeOK, Record
  <2>3. Presentable' = Presentable /\ Presentable \notin Ticket
    BY <1>3, <1>8, <2>1 DEF MarkVoided, Presentable, outside
  <2> QED
    BY <1>2, <1>3, <1>5, <2>1, <2>2, <2>3 DEF Scheduled, HasDeadline
<1> QED
  BY <1>6, <1>7, <1>8 DEF Void

\* A step that leaves the record and what can be presented alone, and sends no
\* process on, except to its start.
LEMMA QuietKeeps ==
    ASSUME Scheduled, \A q \in Process : Relies(q),
           record' = record,
           \/ Presentable' = Presentable
           \/ Presentable' \notin Ticket,
           \A q \in Process : \/ pc'[q] = pc[q] /\ mine'[q] = mine[q]
                              \/ pc'[q] \in {"idle", "record", "read"},
           Settled' => Settled
    PROVE  Scheduled' /\ \A q \in Process : Relies(q)'
BY DEF Scheduled, HasDeadline, Relies

\* The rest: the start of a chain, mishaps, and what happens outside.
LEMMA OtherStepsKeep ==
    ASSUME IInv, [Next]_vars, ~disturbed',
           \A p \in Process : ~Issue(p) /\ ~Void(p)
    PROVE  Scheduled' /\ \A q \in Process : Relies(q)'
<1>0. TypeOK /\ Named
  BY DEF IInv
<1> DEFINE Moves(p) ==
             \/ pc'[p] = pc[p] /\ mine'[p] = mine[p]
             \/ pc'[p] \in {"idle", "record", "read"}
<1> DEFINE Quiet ==
             /\ ~disturbed
             /\ record' = record
             /\ Presentable' = Presentable \/ Presentable' \notin Ticket
             /\ \A q \in Process : Moves(q)
             /\ Settled' => Settled
<1> SUFFICES Quiet
  BY QuietKeeps DEF IInv
<1>1. ASSUME NEW p \in Process, StartIssue(p) PROVE Quiet
  BY <1>0, <1>1 DEF StartIssue, tables, outside, Presentable, TypeOK, Settled
<1>2. ASSUME NEW p \in Process, StartLogout(p) PROVE Quiet
  BY <1>0, <1>2 DEF StartLogout, Goto, tables, outside, Presentable, TypeOK, Settled
<1>3. ASSUME NEW p \in Process, FindExpired(p) PROVE Quiet
  BY <1>0, <1>3 DEF FindExpired, Goto, tables, outside, Presentable, TypeOK, Settled
<1>4. ASSUME NEW p \in Process, StatementFails(p) PROVE Quiet
  <2>1. ~disturbed /\ pc[p] \notin {"write", "tombstone"}
    BY <1>4 DEF StatementFails
  <2>2. Goto(p, "idle")
    BY <1>4, <2>1 DEF StatementFails
  <2> QED
    BY <1>0, <1>4, <2>1, <2>2
    DEF StatementFails, Goto, tables, outside, Presentable, TypeOK, Settled
<1>5. CASE Restart
  BY <1>5 DEF Restart, tables, outside, Presentable, Settled
<1>6. ASSUME NEW ticket \in Ticket, Expire(ticket) PROVE Quiet
  BY <1>6 DEF Expire, tables, Presentable, Settled
<1>7. CASE GameLogin
  BY <1>7, TicketAssumption DEF GameLogin, Presentable, Settled
<1>8. CASE GameRestore
  <2>1. Presentable' = session /\ Presentable = session
    BY <1>8 DEF GameRestore, Presentable, outside
  <2> QED
    BY <1>8, <2>1 DEF GameRestore, Settled
<1>9. CASE OtherSiteWrites
  BY <1>9, TicketAssumption DEF OtherSiteWrites, Presentable, Settled
<1>10. CASE UNCHANGED vars
  BY <1>10 DEF vars, Presentable, Settled
<1> QED
  BY <1>1, <1>2, <1>3, <1>4, <1>5, <1>6, <1>7, <1>8, <1>9, <1>10 DEF Next, Process

-----------------------------------------------------------------------------
(* The invariant, and the theorems it gives.                                 *)

\* The inductive invariant: until something disturbs it, whatever a client can
\* present, now or after a restore, is what the record schedules.
THEOREM Invariance == Spec => []IInv
<1>1. IInv /\ [Next]_vars => IInv'
  <2> SUFFICES ASSUME IInv, [Next]_vars PROVE IInv'
    OBVIOUS
  <2>1. TypeOK' /\ Named'
    BY TypeStep DEF IInv
  <2>2. ASSUME ~disturbed' PROVE Scheduled' /\ \A q \in Process : Relies(q)'
    BY <2>2, IssueKeeps, VoidKeeps, OtherStepsKeep
  <2> QED
    BY <2>1, <2>2 DEF IInv
<1> QED
  BY <1>1, InitHolds, PTL DEF Spec

\* Every variable keeps its type: TypeOK of SsoTicket, for every instance.
THEOREM TypeCorrect == Spec => []TypeOK
<1>1. IInv => TypeOK
  BY DEF IInv
<1> QED
  BY <1>1, Invariance, PTL

\* Voids of the timer and of logout may overlap one another, statements may fail
\* and the process may restart: as long as no issue overlaps another chain or
\* stops half way, a ticket a client can present has an open record.
THEOREM TicketsAreBounded == Spec => []BoundedUnlessDisturbed
<1>1. IInv => BoundedUnlessDisturbed
  BY DEF IInv, BoundedUnlessDisturbed, Scheduled
<1> QED
  BY <1>1, Invariance, PTL

\* A logout whose statements are answered leaves no ticket of ours that a client
\* can present: SignOutLeavesNothing, for any number of logouts and timer runs.
THEOREM LogoutsLeaveNothing == Spec => SignOutLeavesNothing
<1> DEFINE Left(r) ==
             Voiding(r) /\ pc'[r] = "idle" /\ mishaps' = mishaps /\ ~disturbed'
                 => Presentable' \notin Ticket
<1>1. IInv /\ [Next]_vars => [\A r \in Request : Left(r)]_vars
  <2> SUFFICES ASSUME IInv, Next, NEW r \in Request,
                      Voiding(r), pc'[r] = "idle", mishaps' = mishaps, ~disturbed'
               PROVE  Presentable' \notin Ticket
    BY DEF vars
  <2>0. TypeOK /\ r \in Process
    BY DEF IInv, Process
  <2>1. ReadRecord(r) \/ MarkVoided(r)
    <3>1. pc' # pc
      BY <2>0 DEF TypeOK, Voiding
    <3>2. ~Restart /\ \A p \in Process : ~StatementFails(p)
      BY <2>0 DEF TypeOK, Restart, StatementFails
    <3>3. \A p \in Process :
             Goto(p, "idle") \/ Goto(p, "read") \/ Goto(p, "write") \/ Goto(p, "mark")
             \/ StartIssue(p) => p = r \/ pc'[r] = pc[r]
      BY <2>0 DEF TypeOK, Goto, StartIssue
    <3> QED
      BY <3>1, <3>2, <3>3, <2>0
      DEF Next, Issue, Void, StartIssue, StartLogout, FindExpired, RecordDeadline,
          WriteTicket, ReadRecord, WriteTombstone, MarkVoided, Expire, GameLogin,
          GameRestore, OtherSiteWrites, Goto, Voiding, TypeOK, Process
  <2>2. ~disturbed /\ \A q \in Process \ {r} : ~Issuing(q)
    BY <2>0, <2>1, AloneVoiding DEF ReadRecord, MarkVoided
  <2>3. Settled /\ Scheduled /\ Relies(r)
    BY <2>0, <2>2 DEF IInv, Settled, Issuing, Voiding
  <2>4. Presentable' = Presentable
    BY <2>1 DEF ReadRecord, MarkVoided, Presentable, tables, outside
  <2>5. CASE ReadRecord(r)
    <3>1. ~record.open
      BY <2>0, <2>5 DEF ReadRecord, TypeOK
    <3> QED
      BY <2>3, <2>4, <3>1 DEF Scheduled, HasDeadline
  <2>6. CASE MarkVoided(r)
    BY <2>3, <2>4, <2>6 DEF MarkVoided, Relies
  <2> QED
    BY <2>1, <2>5, <2>6
<1> QED
  BY <1>1, Invariance, PTL DEF Spec, SignOutLeavesNothing

-----------------------------------------------------------------------------
(* Refinement: a ticket is presented by the issue that generated it, once.     *)

\* The tickets that are generated and not written yet, and the ticket of a client.
Pending == {mine[p] : p \in {q \in Process : Issuing(q)}}
Unused == fresh \cup Pending
Held == IF Presentable \in Ticket THEN Presentable ELSE NoTicket

\* No two issues have the same ticket, nor one that could be generated again.
Distinct ==
    /\ \A p \in Process : Issuing(p) => mine[p] \notin fresh
    /\ \A p, q \in Process : Issuing(p) /\ Issuing(q) /\ mine[p] = mine[q] => p = q

\* No chain begins an issue; those that go on keep their tickets.
NoneBegins ==
    /\ fresh' = fresh
    /\ \A p \in Process : Issuing(p)' => Issuing(p) /\ mine'[p] = mine[p]

LEMMA NoneBeginsKeeps ==
    ASSUME Distinct, NoneBegins
    PROVE  /\ Distinct'
           /\ Unused' \subseteq Unused
<1>1. Distinct'
  BY DEF Distinct, NoneBegins
<1>2. Pending' \subseteq Pending
  BY DEF NoneBegins, Pending
<1> QED
  BY <1>1, <1>2 DEF NoneBegins, Unused

\* A step in which no issue ends, either: only what is presented may change.
LEMMA GoingOnKeeps ==
    ASSUME NoneBegins, \A p \in Process : Issuing(p) => Issuing(p)'
    PROVE  Unused' = Unused
<1>1. Pending' = Pending
  BY DEF NoneBegins, Pending
<1> QED
  BY <1>1 DEF NoneBegins, Unused

\* The abstract steps, over the mapped variables.
Gives == \E ticket \in Unused : Held' = ticket /\ Unused' = Unused \ {ticket}
Withdraws == Held \in Ticket /\ Held' = NoTicket /\ Unused' = Unused
Loses == (\E lost \in SUBSET Unused : Unused' = Unused \ lost) /\ Held' = Held
Refines == Gives \/ Withdraws \/ Loses

\* What is presented stays, or is none of ours any more.
LEMMA SameOrGone ==
    ASSUME Distinct, NoneBegins, Presentable' = Presentable \/ Presentable' \notin Ticket,
           Presentable' = Presentable \/ Unused' = Unused
    PROVE  Distinct' /\ Refines
<1>1. Distinct' /\ Unused' \subseteq Unused
  BY NoneBeginsKeeps
<1>2. CASE Held' = Held
  <2>1. Unused' = Unused \ (Unused \ Unused')
    BY <1>1
  <2> QED
    BY <1>1, <1>2, <2>1 DEF Refines, Loses
<1>3. CASE Held' # Held
  <2>1. Presentable' # Presentable
    BY <1>3 DEF Held
  <2> QED
    BY <1>1, <1>3, <2>1 DEF Refines, Withdraws, Held
<1> QED
  BY <1>2, <1>3

\* Each step is one of Credential's, or leaves what it speaks of alone.
LEMMA StepRefines ==
    ASSUME IInv, IInv', Distinct, [Next]_vars
    PROVE  Distinct' /\ Refines
<1> USE DEF Issuing
<1>0. TypeOK /\ Named
  BY DEF IInv
<1>1. ASSUME NEW r \in Process, StartIssue(r) PROVE Distinct' /\ Refines
  <2>1. PICK ticket \in fresh : fresh' = fresh \ {ticket} /\ mine' = [mine EXCEPT ![r] = ticket]
    BY <1>1 DEF StartIssue
  <2>2. /\ pc[r] = "idle" /\ pc'[r] = "record" /\ mine'[r] = ticket
        /\ \A q \in Process \ {r} : pc'[q] = pc[q] /\ mine'[q] = mine[q]
    BY <1>0, <1>1, <2>1 DEF StartIssue, TypeOK
  <2>3. Distinct'
    BY <2>1, <2>2 DEF Distinct
  <2>4. Pending' = Pending \cup {ticket}
    BY <2>2 DEF Pending
  <2>5. Unused' = Unused
    BY <2>1, <2>4 DEF Unused
  <2>6. Held' = Held
    BY <1>1 DEF StartIssue, tables, outside, Held, Presentable
  <2>7. Unused' = Unused \ {}
    BY <2>5
  <2> QED
    BY <2>3, <2>6, <2>7 DEF Refines, Loses
<1>2. ASSUME NEW r \in Process, WriteTicket(r) PROVE Distinct' /\ Refines
  <2>1. /\ pc[r] = "write" /\ pc'[r] = "idle"
        /\ \A q \in Process \ {r} : pc'[q] = pc[q] /\ mine'[q] = mine[q]
        /\ fresh' = fresh /\ column' = mine[r]
    BY <1>0, <1>2 DEF WriteTicket, Goto, Written, TypeOK
  <2>2. mine[r] \in Ticket
    BY <1>0, <2>1 DEF Named
  <2>3. Held' = mine[r]
    BY <2>1, <2>2, TicketAssumption DEF Held, Presentable
  <2>4. NoneBegins
    BY <2>1 DEF NoneBegins
  <2>5. Distinct'
    BY <2>4, NoneBeginsKeeps
  <2>6. Pending' = Pending \ {mine[r]} /\ mine[r] \in Pending
    BY <2>1 DEF Pending, Distinct
  <2>7. Unused' = Unused \ {mine[r]} /\ mine[r] \in Unused
    BY <2>1, <2>6 DEF Unused, Distinct
  <2> QED
    BY <2>3, <2>5, <2>7 DEF Refines, Gives
<1>3. ASSUME NEW r \in Process, RecordDeadline(r) PROVE Distinct' /\ Refines
  <2>1. NoneBegins
    BY <1>0, <1>3 DEF RecordDeadline, Goto, TypeOK, NoneBegins
  <2>2. Presentable' = Presentable
    BY <1>3 DEF RecordDeadline, outside, Presentable
  <2> QED
    BY <2>1, <2>2, SameOrGone
<1>4. ASSUME NEW p \in Process, StartLogout(p) \/ FindExpired(p)
      PROVE  Distinct' /\ Refines
  <2>1. NoneBegins
    BY <1>0, <1>4 DEF StartLogout, FindExpired, Goto, TypeOK, NoneBegins
  <2>2. Presentable' = Presentable
    BY <1>4 DEF StartLogout, FindExpired, tables, outside, Presentable
  <2> QED
    BY <2>1, <2>2, SameOrGone
<1>5. ASSUME NEW p \in Process, ReadRecord(p) \/ MarkVoided(p)
      PROVE  Distinct' /\ Refines
  <2>1. NoneBegins
    BY <1>0, <1>5 DEF ReadRecord, MarkVoided, Goto, TypeOK, NoneBegins
  <2>2. Presentable' = Presentable
    BY <1>5 DEF ReadRecord, MarkVoided, tables, outside, Presentable
  <2> QED
    BY <2>1, <2>2, SameOrGone
<1>6. ASSUME NEW p \in Process, WriteTombstone(p) PROVE Distinct' /\ Refines
  <2>1. NoneBegins /\ \A q \in Process : Issuing(q) => Issuing(q)'
    BY <1>0, <1>6 DEF WriteTombstone, Goto, TypeOK, NoneBegins
  <2>2. Presentable' = Presentable \/ Presentable' \notin Ticket
    BY <1>6, TicketAssumption DEF WriteTombstone, outside, Presentable
  <2> QED
    BY <2>1, <2>2, GoingOnKeeps, SameOrGone
<1>7. ASSUME NEW p \in Process, StatementFails(p) PROVE Distinct' /\ Refines
  <2>1. NoneBegins
    BY <1>0, <1>7 DEF StatementFails, Goto, TypeOK, NoneBegins
  <2>2. Presentable' = Presentable
    BY <1>7 DEF StatementFails, tables, outside, Presentable
  <2> QED
    BY <2>1, <2>2, SameOrGone
<1>8. CASE Restart
  <2>1. NoneBegins
    BY <1>8 DEF Restart, NoneBegins
  <2>2. Presentable' = Presentable
    BY <1>8 DEF Restart, tables, outside, Presentable
  <2> QED
    BY <2>1, <2>2, SameOrGone
<1>9. CASE (\E ticket \in Ticket : Expire(ticket)) \/ GameLogin \/ GameRestore
           \/ OtherSiteWrites
  <2>1. NoneBegins /\ \A q \in Process : Issuing(q) => Issuing(q)'
    BY <1>9 DEF Expire, GameLogin, GameRestore, OtherSiteWrites, NoneBegins
  <2>2. Presentable' = Presentable \/ Presentable' \notin Ticket
    BY <1>9, TicketAssumption
    DEF Expire, GameLogin, GameRestore, OtherSiteWrites, tables, outside, Presentable
  <2> QED
    BY <2>1, <2>2, GoingOnKeeps, SameOrGone
<1>10. CASE UNCHANGED vars
  <2>1. NoneBegins /\ Presentable' = Presentable
    BY <1>10 DEF vars, NoneBegins, Presentable
  <2> QED
    BY <2>1, SameOrGone
<1> QED
  BY <1>1, <1>2, <1>3, <1>4, <1>5, <1>6, <1>7, <1>8, <1>9, <1>10
  DEF Next, Issue, Void, Process

\* A ticket that was replaced or withdrawn never comes back: whatever fails, restarts,
\* overlaps or is restored, what a client can present changes only as Credential says.
THEOREM TicketsRefineCredential == Spec => ImplementsCredential
<1>1. Init => Distinct /\ Abstract!Init
  <2> SUFFICES ASSUME Init PROVE Distinct /\ Abstract!Init
    OBVIOUS
  <2>1. \A p \in Process : ~Issuing(p)
    BY DEF Init, Issuing
  <2>2. Presentable \notin Ticket
    BY TicketAssumption DEF Init, Presentable
  <2> QED
    BY <2>1, <2>2 DEF Init, Distinct, Abstract!Init
<1>2. IInv /\ IInv' /\ Distinct /\ [Next]_vars => Distinct' /\ [Abstract!Next]_(Abstract!vars)
  <2> SUFFICES ASSUME IInv, IInv', Distinct, [Next]_vars
               PROVE  Distinct' /\ Abstract!Next
    OBVIOUS
  <2>1. Distinct' /\ Refines
    BY StepRefines
  <2> QED
    BY <2>1
    DEF Refines, Gives, Withdraws, Loses, Held, Unused, Pending, Abstract!Next,
        Abstract!Give, Abstract!Withdraw, Abstract!Lose
<1> QED
  BY <1>1, <1>2, Invariance, PTL DEF Spec, ImplementsCredential, Abstract!Spec
=============================================================================
