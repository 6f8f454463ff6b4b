---------------------------- MODULE MCAccountForms ----------------------------
(* A reset link in two tabs, and the forms of the profile page.              *)
EXTENDS AccountForms, TLC

Symmetry == Permutations(Link) \cup Permutations(Tab)
=============================================================================
