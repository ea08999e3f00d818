--------------------------- MODULE MCPendingQueue ---------------------------
(* Instances of PendingQueue for TLC. *)
EXTENDS PendingQueue, TLC

\* Pause at hour 0, start at hour 1, send at hour 1 or never.
DayPlans ==
  {[pause |-> 0, start |-> 1, send |-> 1], [pause |-> 0, start |-> NoHour, send |-> NoHour]}

=============================================================================
