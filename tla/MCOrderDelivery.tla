-------------------------- MODULE MCOrderDelivery --------------------------
(***************************************************************************)
(* Instances of OrderDelivery for TLC.                                      *)
(***************************************************************************)
EXTENDS OrderRefinement, TLC

\* The default ladder of orderRetryPolicy.ts: 5, 15 and 60 minutes.
DefaultBackoffMs == <<300000, 900000, 3600000>>

\* Orders are interchangeable, and so are the tasks of one kind.
Symmetry ==
  Permutations(Orders) \cup Permutations(Jobs) \cup Permutations(Ticks)
    \cup Permutations(Admins)

=============================================================================
