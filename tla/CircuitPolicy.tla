--------------------------- MODULE CircuitPolicy ---------------------------
(***************************************************************************)
(* The policy table of server/lib/circuitPolicy.ts and its helpers.         *)
(* Ratios are in percent, windows in steps of five minutes, ladders in      *)
(* minutes.                                                                 *)
(***************************************************************************)
EXTENDS Integers, Sequences

\* CircuitErrorClass.
Class == {"network", "auth", "validation", "rate_limit", "unknown"}

\* Infinity and MAX_SAFE_INTEGER: more than any counter reaches.
Never == 1000000

Policies ==
  [consecutiveTrip : Nat, windowMinSamples : Nat, windowMs : Nat,
   windowFailureRatio : Nat, cooldownLadder : Seq(Nat), probeBudget : Nat,
   probesToClose : Nat, requireManualCloseAtMax : BOOLEAN]

PolicyRow(trip, samples, window, ratio, ladder, budget, manual) ==
  [consecutiveTrip |-> trip, windowMinSamples |-> samples, windowMs |-> window,
   windowFailureRatio |-> ratio, cooldownLadder |-> ladder,
   probeBudget |-> budget, probesToClose |-> 1,
   requireManualCloseAtMax |-> manual]

CIRCUIT_POLICY ==
  [c \in Class |->
     CASE c = "rate_limit" -> PolicyRow(1, 1, 1, 0, <<1, 5, 15, 60>>, 1, FALSE)
       [] c = "network"    -> PolicyRow(5, 10, 1, 50, <<1, 5, 15, 30>>, 2, FALSE)
       [] c = "auth"       -> PolicyRow(3, 3, 2, 80, <<10, 30, 120>>, 1, TRUE)
       [] c = "validation" -> PolicyRow(Never, Never, 1, 101, <<0>>, 0, FALSE)
       [] c = "unknown"    -> PolicyRow(8, 15, 1, 60, <<2, 10, 30>>, 1, FALSE)]

-----------------------------------------------------------------------------

\* The rung of the ladder at a level; levels beyond the ladder stay on top.
CooldownAt(policy, level) ==
  LET top == Len(policy.cooldownLadder) - 1 IN
  policy.cooldownLadder[1 + (IF level > top THEN top ELSE level)]

IsMaxLevel(policy, level) == level >= Len(policy.cooldownLadder) - 1

\* Mutant: one failure late.
ShouldTripLate(policy, streak, failures, successes) ==
  streak > policy.consecutiveTrip

\* The streak, or the share of failures in a window with enough samples.
ShouldTrip(policy, streak, failures, successes) ==
  LET total == failures + successes IN
  \/ streak >= policy.consecutiveTrip
  \/ /\ total >= policy.windowMinSamples
     /\ 100 * failures >= policy.windowFailureRatio * total

=============================================================================
