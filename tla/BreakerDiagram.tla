--------------------------- MODULE BreakerDiagram ---------------------------
(***************************************************************************)
(* What the header of server/services/circuitBreaker.ts promises of one     *)
(* breaker: a trip opens a closed one, only an elapsed cooldown lets a      *)
(* probe through, and the probe alone decides between CLOSED and OPEN one   *)
(* rung up the ladder.                                                      *)
(***************************************************************************)
EXTENDS Naturals

VARIABLES
  state,    \* "CLOSED", "OPEN" or "HALF_OPEN"
  cooling,  \* cooldownUntil is in the future
  level     \* cooldownLevel

vars == <<state, cooling, level>>

Init == state = "CLOSED" /\ cooling = FALSE /\ level = 0

Trip ==
  /\ state = "CLOSED"
  /\ state' = "OPEN"
  /\ cooling' = TRUE
  /\ level' = 0

Cool == cooling /\ cooling' = FALSE /\ UNCHANGED <<state, level>>

Probe ==
  /\ state = "OPEN"
  /\ ~cooling
  /\ state' = "HALF_OPEN"
  /\ UNCHANGED <<cooling, level>>

Close ==
  /\ state = "HALF_OPEN"
  /\ state' = "CLOSED"
  /\ cooling' = FALSE
  /\ level' = 0

\* The ladder ends somewhere; where depends on the error.
Reopen ==
  /\ state = "HALF_OPEN"
  /\ state' = "OPEN"
  /\ cooling' = TRUE
  /\ level' \in {level, level + 1}

Next == Trip \/ Cool \/ Probe \/ Close \/ Reopen

Spec == Init /\ [][Next]_vars

=============================================================================
