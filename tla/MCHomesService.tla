---------------------------- MODULE MCHomesService ----------------------------
(***************************************************************************)
(* Small instances of HomesService for TLC: two tabs, a profile box and one  *)
(* or two other widgets, two columns of one or two positions.                *)
(***************************************************************************)
EXTENDS HomesService, TLC

\* The widget ids are 1..n; profile box 1 and guestbook 2 are on the page.
MCRow(key, column, position) == [key |-> key, column |-> column, position |-> position]
MCPlace(w, column, position) == [id |-> w, column |-> column, position |-> position]

MCTwoWidgets ==
    {[w \in WidgetId |->
        CASE w = 1 -> MCRow("profile", 1, 0)
          [] w = 2 -> MCRow("guestbook", 1, 1)
          [] OTHER -> NoRow]}

\* A page with nothing but its profile box.
MCProfileOnly ==
    {[w \in WidgetId |-> IF w = 1 THEN MCRow("profile", 1, 0) ELSE NoRow]}

MCKeys == {"profile", "guestbook", "badges"}
MCTwoKeys == {"profile", "guestbook"}

MCSave(placements, item) == [placements |-> placements, background |-> item]

MCNoSave == {}

\* Saves no drag produces, all refused: a column that does not exist, and a
\* background that does not.
MCBadSaves ==
    {MCSave(<<MCPlace(2, 3, 0)>>, NoBackground), MCSave(<<MCPlace(2, 2, 0)>>, MissingItem)}

\* The profile box goes to the other column, with or without a background.
MCMoveProfile == { MCSave(<<MCPlace(1, 2, 0)>>, NoBackground) }
MCMoveOnBackground == {MCSave(<<MCPlace(1, 2, 0)>>, b) : b \in Background}

MCSymmetry == Permutations(Tab)
=============================================================================
