------------------------------ MODULE Credential ------------------------------
(***************************************************************************)
(* What client tickets promise, without tables, statements or an emulator:  *)
(* a client holds one ticket at most, a new one replaces it, and one that    *)
(* was replaced or withdrawn never comes back.  SsoTicket implements this.    *)
(***************************************************************************)
CONSTANTS
    Ticket,         \* the tickets this website generates
    NoTicket

VARIABLES
    held,           \* the ticket a client can present
    unused          \* the tickets nobody could present yet

vars == <<held, unused>>

Init ==
    /\ held = NoTicket
    /\ unused = Ticket

\* The client is given a ticket that was never in use.
Give ==
    \E ticket \in unused :
        /\ held' = ticket
        /\ unused' = unused \ {ticket}

Withdraw ==
    /\ held \in Ticket
    /\ held' = NoTicket
    /\ UNCHANGED unused

\* Tickets that were generated and whose issue then failed.
Lose ==
    /\ \E lost \in SUBSET unused : unused' = unused \ lost
    /\ UNCHANGED held

Next == Give \/ Withdraw \/ Lose

Spec == Init /\ [][Next]_vars
=============================================================================
