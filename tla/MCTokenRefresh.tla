--------------------------- MODULE MCTokenRefresh ---------------------------
(***************************************************************************)
(* Instances of TokenRefresh for TLC.                                       *)
(***************************************************************************)
EXTENDS TokenRefresh, TLC

Symmetry == Permutations(Accounts) \cup Permutations(Workers)

=============================================================================
