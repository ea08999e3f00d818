-------------------------- MODULE OrderRefinement --------------------------
(***************************************************************************)
(* OrderDelivery under the schedulers alone (one processLead run per order, *)
(* no retryOrder) implements OrderLifecycle.                                *)
(***************************************************************************)
EXTENDS OrderDelivery

\* An unsettled order is being tried while it is scheduled or in the hands
\* of a task; otherwise nothing in the system will touch it again.
InHand(o) ==
  \/ order[o].retryAt # "null"
  \/ \E t \in Task : task[t].order = o /\ task[t].pc # "insert"

Phase(o) ==
  CASE order[o].status = "none" -> "new"
    [] order[o].status = "SENT" -> "delivered"
    [] OTHER -> IF InHand(o) THEN "trying" ELSE "stopped"

Lifecycle == INSTANCE OrderLifecycle WITH
               phase <- [o \in Orders |-> Phase(o)],
               accepted <- [o \in Orders |-> acked[o] - unheard[o]]

\* Every step of the tasks, interleaved as they may be, is one step of the
\* abstract order or none: at most one acceptance that anyone hears of, SENT
\* only after it, and nothing leaves SENT.  Nor is an order tried for ever,
\* crashes and lost answers included.
ImplementsFairLifecycle == Lifecycle!FairSpec

=============================================================================
