----------------------------- MODULE MCHomeEditor -----------------------------
(***************************************************************************)
(* Small instances of HomeEditor for TLC: a profile box and one other widget  *)
(* on the page, two columns of one position.                                 *)
(***************************************************************************)
EXTENDS HomeEditor

\* The profile box alone, and with another box beside it.
MCBox(key, column) == [key |-> key, column |-> column, position |-> 0]
MCPages ==
    LET alone == [w \in WidgetId |-> IF w = 1 THEN MCBox("profile", 1) ELSE NoRow]
    IN  {alone, [alone EXCEPT ![2] = MCBox("guestbook", 2)]}
=============================================================================
