---------------------------- MODULE MCAdminContent ----------------------------
(***************************************************************************)
(* A small instance of AdminContent for TLC.                                *)
(***************************************************************************)
EXTENDS AdminContent, TLC

MCText == {"text"}
MCMarkup == {"", "<b>"}
MCLink == {"%path%"}
\* A month before 1970; an order that, with 2^31 scaled down to 4, is stored as -1.
MCTimes == {-1}
MCOrders == {7}

\* Two writes where a row has few values, else one.
MCMaxWrites == [k \in Kind |-> IF k \in {"faq", "campaigns"} THEN 2 ELSE 1]

\* Ids are interchangeable.
MCSymmetry == Permutations(Id)
=============================================================================
