------------------------------ MODULE MCSsoTicket ------------------------------
(***************************************************************************)
(* Small instances of SsoTicket for TLC.                                    *)
(***************************************************************************)
EXTENDS SsoTicket, TLC

\* Requests and tickets are interchangeable where only safety is checked.
MCSymmetry == Permutations(Request) \cup Permutations(Ticket)
=============================================================================
