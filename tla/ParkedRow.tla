------------------------------ MODULE ParkedRow ------------------------------
(***************************************************************************)
(* What destinationPendingQueue.ts and destinationFlushScheduler.ts promise *)
(* of one parked lead: a flush claims the row before it sends, and whoever  *)
(* else has selected the row skips it; a refusal gives the row back, so     *)
(* that a later flush tries again; what was accepted is never touched       *)
(* again, and only the death of the claimant or the deletion of the         *)
(* destination lets go of a lead nobody has accepted.                       *)
(***************************************************************************)

CONSTANT Flushes   \* those that flush

VARIABLES
  phase,     \* "free", "waiting", "sending", "accepted" or "lost"
  holders,   \* the flushes that have claimed the row
  gone       \* the destination is deleted

vars == <<phase, holders, gone>>

Init == phase = "free" /\ holders = {} /\ gone = FALSE

Becomes(from, to, by) == phase = from /\ phase' = to /\ holders' = by /\ UNCHANGED gone

Park == Becomes("free", "waiting", {})

Claim == holders = {} /\ \E f \in Flushes : Becomes("waiting", "sending", {f})

Refuse == Becomes("sending", "waiting", {})

Accept == Becomes("sending", "accepted", {})

Die == Becomes("sending", "lost", {})

Sweep == gone /\ Becomes("waiting", "lost", {})

Delete == ~gone /\ gone' = TRUE /\ UNCHANGED <<phase, holders>>

Next == Park \/ Claim \/ Refuse \/ Accept \/ Die \/ Sweep \/ Delete

Spec == Init /\ [][Next]_vars

=============================================================================
