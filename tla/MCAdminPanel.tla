----------------------------- MODULE MCAdminPanel -----------------------------
(***************************************************************************)
(* A small instance of AdminPanel for TLC.                                  *)
(***************************************************************************)
EXTENDS AdminPanel

CONSTANTS guest, editor, trusted, k1, k2, v0, raw

MCRank == [o \in Operator |->
             IF o = trusted THEN 7 ELSE IF o = editor THEN 5 ELSE 1]
=============================================================================
