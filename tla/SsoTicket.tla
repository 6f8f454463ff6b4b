------------------------------- MODULE SsoTicket -------------------------------
(***************************************************************************)
(* The client ticket of one user.  The website writes a ticket to           *)
(* users.auth_ticket and its deadline to phpretro_sso_tickets, which has one *)
(* row per user; a void replaces the ticket by a tombstone no client can     *)
(* present and closes the row.  Client entry issues, logout voids, and a     *)
(* timer voids what is past its deadline: each a chain of statements that     *)
(* interleaves with the others.  The hotel's emulator takes a ticket out of   *)
(* the column at login and may put it back, and other sites write there too.  *)
(*                                                                         *)
(* Some definitions are preceded by a variant of theirs with a mistake such   *)
(* a program could make; the properties below tell the two apart.            *)
(***************************************************************************)
EXTENDS Naturals

CONSTANTS
    Request,        \* requests of the user: client entry or logout
    Sweep,          \* runs of the timer, which do not wait for one another
    Ticket,         \* the tickets this website generates (bound: each once)
    NoTicket,
    Empty,          \* auth_ticket = ''
    Tombstone,      \* "void-" and more than a client can present
    Foreign,        \* a ticket another site wrote
    MaxMishaps      \* bound: failed statements and restarts

ASSUME TicketAssumption ==
    /\ Request \cap Sweep = {}
    /\ NoTicket # Empty /\ NoTicket # Tombstone /\ NoTicket # Foreign
    /\ Empty # Tombstone /\ Empty # Foreign /\ Tombstone # Foreign
    /\ {NoTicket, Empty, Tombstone, Foreign} \cap Ticket = {}
    /\ MaxMishaps \in Nat

Process == Request \cup Sweep

VARIABLES
    column,         \* users.auth_ticket
    record,         \* the user's row of phpretro_sso_tickets
    expired,        \* the tickets whose void_at has passed
    fresh,          \* the tickets not generated yet
    session,        \* the ticket the emulator's session was opened with
    pc,             \* the statement each process runs next
    mine,           \* the ticket it issues, or read from the record
    mishaps,        \* how many things went wrong
    disturbed       \* an issue overlapped another chain, or stopped half way

tables == <<column, record>>
outside == <<expired, session>>
vars == <<column, record, expired, fresh, session, pc, mine, mishaps, disturbed>>

Statement == {"idle", "record", "write", "read", "tombstone", "mark"}
Record == [ticket : Ticket \cup {NoTicket}, open : BOOLEAN]

TypeOK ==
    /\ column \in Ticket \cup {Empty, Tombstone, Foreign}
    /\ record \in Record
    /\ expired \subseteq Ticket /\ fresh \subseteq Ticket
    /\ session \in Ticket \cup {Foreign, NoTicket}
    /\ pc \in [Process -> Statement]
    /\ mine \in [Process -> Ticket \cup {NoTicket}]
    /\ mishaps \in 0..MaxMishaps
    /\ disturbed \in BOOLEAN

Init ==
    /\ column \in {Empty, Foreign}
    /\ record = [ticket |-> NoTicket, open |-> FALSE]
    /\ expired = {} /\ fresh = Ticket
    /\ session = NoTicket
    /\ pc = [p \in Process |-> "idle"]
    /\ mine = [p \in Process |-> NoTicket]
    /\ mishaps = 0
    /\ disturbed = FALSE

-----------------------------------------------------------------------------
Issuing(p) == pc[p] \in {"record", "write"}
Voiding(p) == pc[p] \in {"read", "tombstone", "mark"}

\* A chain reaches its next statement, or ends.
Goto(p, where) ==
    /\ pc' = [pc EXCEPT ![p] = where]
    /\ mine' = IF where = "idle" THEN [mine EXCEPT ![p] = NoTicket] ELSE mine

\* An issue overlaps whatever else runs; a void only overlaps an issue.
Overlaps(p) ==
    \E q \in Process \ {p} : Issuing(q) \/ (Voiding(q) /\ Issuing(p))
Watched(p) == disturbed' = (disturbed \/ Overlaps(p))

-----------------------------------------------------------------------------
(* Client entry.                                                            *)

StartIssue(r) ==
    /\ pc[r] = "idle"
    /\ \E ticket \in fresh :
          /\ fresh' = fresh \ {ticket}
          /\ mine' = [mine EXCEPT ![r] = ticket]
    /\ pc' = [pc EXCEPT ![r] = "record"]
    /\ UNCHANGED <<tables, outside, mishaps, disturbed>>

\* INSERT ... ON DUPLICATE KEY UPDATE ticket, void_at, voided_at = 0.
\* (RecordStaysClosed: the UPDATE leaves voided_at alone.)
RecordStaysClosed(r) == record' = [record EXCEPT !.ticket = mine[r]]
Recorded(r) == record' = [ticket |-> mine[r], open |-> TRUE]

RecordDeadline(r) ==
    /\ pc[r] = "record"
    /\ Recorded(r)
    /\ Goto(r, "write")
    /\ Watched(r)
    /\ UNCHANGED <<column, outside, fresh, mishaps>>

\* UPDATE users SET auth_ticket, whatever the column holds; the caller is given
\* the ticket.  (MovedFrom: an earlier capture took the string.)
MovedFrom(r) == NoTicket
Written(r) == mine[r]

WriteTicket(r) ==
    /\ pc[r] = "write"
    /\ column' = Written(r)
    /\ Goto(r, "idle")
    /\ Watched(r)
    /\ UNCHANGED <<record, outside, fresh, mishaps>>

-----------------------------------------------------------------------------
(* Voiding: by logout, which takes whatever is open, and by the timer, which *)
(* finds the user in a first SELECT and then does the same.                  *)

StartLogout(r) ==
    /\ pc[r] = "idle"
    /\ Goto(r, "read")
    /\ UNCHANGED <<tables, outside, fresh, mishaps, disturbed>>

FindExpired(s) ==
    /\ pc[s] = "idle"
    /\ record.open /\ record.ticket \in expired
    /\ Goto(s, "read")
    /\ UNCHANGED <<tables, outside, fresh, mishaps, disturbed>>

ReadRecord(p) ==
    /\ pc[p] = "read"
    /\ IF record.open
       THEN /\ pc' = [pc EXCEPT ![p] = "tombstone"]
            /\ mine' = [mine EXCEPT ![p] = record.ticket]
       ELSE Goto(p, "idle")
    /\ Watched(p)
    /\ UNCHANGED <<tables, outside, fresh, mishaps>>

\* WHERE auth_ticket = issued OR auth_ticket = '': an empty column would let the
\* emulator put the ticket back.
\* (OnlyIfThere: the second arm is missing.)
OnlyIfThere(p) == column = mine[p]
OursToVoid(p) == column \in {mine[p], Empty}

\* (EmptiesColumn: no tombstone, so that the emulator may restore an older ticket.)
EmptiesColumn(p) ==
    /\ pc[p] = "tombstone"
    /\ column' = IF OursToVoid(p) THEN Empty ELSE column
    /\ Goto(p, "mark")
    /\ Watched(p)
    /\ UNCHANGED <<record, outside, fresh, mishaps>>

WriteTombstone(p) ==
    /\ pc[p] = "tombstone"
    /\ column' = IF OursToVoid(p) THEN Tombstone ELSE column
    /\ Goto(p, "mark")
    /\ Watched(p)
    /\ UNCHANGED <<record, outside, fresh, mishaps>>

\* WHERE user_id = ? AND voided_at = 0: the open row, whatever ticket it names.
MarkVoided(p) ==
    /\ pc[p] = "mark"
    /\ record' = [record EXCEPT !.open = FALSE]
    /\ Goto(p, "idle")
    /\ Watched(p)
    /\ UNCHANGED <<column, outside, fresh, mishaps>>

-----------------------------------------------------------------------------
(* What goes wrong.                                                          *)

\* A failed statement ends its chain, except that a void marks the record even
\* if its tombstone could not be written.
StatementFails(p) ==
    /\ pc[p] # "idle"
    /\ mishaps < MaxMishaps
    /\ mishaps' = mishaps + 1
    /\ Goto(p, IF pc[p] = "tombstone" THEN "mark" ELSE "idle")
    /\ disturbed' = (disturbed \/ pc[p] \in {"write", "tombstone"})
    /\ UNCHANGED <<tables, outside, fresh>>

\* The process stops and is started again.
Restart ==
    /\ mishaps < MaxMishaps
    /\ mishaps' = mishaps + 1
    /\ pc' = [p \in Process |-> "idle"]
    /\ mine' = [p \in Process |-> NoTicket]
    /\ disturbed' = (disturbed \/ \E p \in Process : pc[p] = "write")
    /\ UNCHANGED <<tables, outside, fresh>>

-----------------------------------------------------------------------------
(* Outside the website.                                                      *)

Expire(ticket) ==
    /\ ticket \notin fresh
    /\ expired' = expired \cup {ticket}
    /\ UNCHANGED <<tables, session, fresh, pc, mine, mishaps, disturbed>>

\* The emulator consumes what a client presents, without asking for a deadline.
GameLogin ==
    /\ column \in Ticket \cup {Foreign}
    /\ session' = column
    /\ column' = Empty
    /\ UNCHANGED <<record, expired, fresh, pc, mine, mishaps, disturbed>>

\* Its reconnect grace puts the ticket back, only into an empty column.
GameRestore ==
    /\ session # NoTicket
    /\ column = Empty
    /\ column' = session
    /\ UNCHANGED <<record, outside, fresh, pc, mine, mishaps, disturbed>>

OtherSiteWrites ==
    /\ column' = Foreign
    /\ UNCHANGED <<record, outside, fresh, pc, mine, mishaps, disturbed>>

-----------------------------------------------------------------------------
Issue(r) == RecordDeadline(r) \/ WriteTicket(r)
Void(p) == ReadRecord(p) \/ WriteTombstone(p) \/ MarkVoided(p)

Next ==
    \/ \E r \in Request : StartIssue(r) \/ StartLogout(r) \/ Issue(r) \/ Void(r)
    \/ \E s \in Sweep : FindExpired(s) \/ Void(s)
    \/ \E p \in Process : StatementFails(p)
    \/ Restart
    \/ \E ticket \in Ticket : Expire(ticket)
    \/ GameLogin \/ GameRestore \/ OtherSiteWrites

Spec == Init /\ [][Next]_vars

\* Statements are answered (the SQL timeout) and the timer keeps running.
FairSpec ==
    /\ Spec
    /\ \A r \in Request : WF_vars(Issue(r) \/ Void(r))
    /\ \A s \in Sweep : WF_vars(FindExpired(s) \/ Void(s))

-----------------------------------------------------------------------------
(* Properties.                                                               *)

\* No issue is between its two statements, where the old ticket may still be in
\* the column.
Settled == \A p \in Process : pc[p] # "write"

\* What a client can present: the column, or what the emulator would restore.
Presentable == IF column = Empty THEN session ELSE column

\* A ticket of ours that a client can present has an open record that names it.
HasDeadline ==
    Presentable \in Ticket => record = [ticket |-> Presentable, open |-> TRUE]

\* As long as no issue overlapped another chain nor stopped between its two
\* statements, every ticket a client can present has its deadline: through
\* overlapping voids, restarts, failed reads and marks, logins and reconnects.
BoundedUnlessDisturbed == ~disturbed /\ Settled => HasDeadline

\* UserAccountService.h: sign-out is where "the client credential must end with"
\* the session.  A logout whose statements were answered leaves no ticket of ours
\* that a client can present, though the timer and another logout void the same
\* record beside it and the emulator restores what it remembers.
SignOutLeavesNothing ==
    [][\A r \in Request :
          Voiding(r) /\ pc'[r] = "idle" /\ mishaps' = mishaps /\ ~disturbed'
              => Presentable' \notin Ticket]_vars

\* Disturbed or not, a client holds tickets as Credential says: one that was replaced or
\* voided never comes back, whatever the emulator restores and the timer does late.
Abstract == INSTANCE Credential WITH
    held <- IF Presentable \in Ticket THEN Presentable ELSE NoTicket,
    unused <- fresh \cup {mine[p] : p \in {q \in Process : Issuing(q)}}
ImplementsCredential == Abstract!Spec

\* A ticket past its deadline is, in the end, never presentable again: the timer
\* voids it, and the reconnect grace does not bring it back.
ExpiredIsGone ==
    \A ticket \in Ticket :
        (ticket \in expired) ~> (disturbed \/ [](Presentable # ticket))
=============================================================================
