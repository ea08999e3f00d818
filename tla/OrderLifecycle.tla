--------------------------- MODULE OrderLifecycle ---------------------------
(***************************************************************************)
(* What order delivery promises, without tasks, claims, attempts or races:  *)
(* an order is tried until it is delivered or stopped, a destination        *)
(* accepts it at most once, and only an accepted order counts as delivered. *)
(***************************************************************************)
EXTENDS Naturals

CONSTANT Orders

VARIABLES
  phase,    \* where each order stands
  accepted  \* how often a destination accepted it

vars == <<phase, accepted>>

Init ==
  /\ phase = [o \in Orders |-> "new"]
  /\ accepted = [o \in Orders |-> 0]

Move(o, from, to) == phase[o] = from /\ phase' = [phase EXCEPT ![o] = to]

Create(o) == Move(o, "new", "trying") /\ UNCHANGED accepted

Accept(o) ==
  /\ phase[o] = "trying"
  /\ accepted[o] = 0
  /\ accepted' = [accepted EXCEPT ![o] = 1]
  /\ UNCHANGED phase

Deliver(o) == accepted[o] = 1 /\ Move(o, "trying", "delivered") /\ UNCHANGED accepted

\* Given up by the policy, switched off by a user, or lost in a crash.
Stop(o) == Move(o, "trying", "stopped") /\ UNCHANGED accepted

\* An admin, or another run of processLead, takes the order up again.
Resume(o) == accepted[o] = 0 /\ Move(o, "stopped", "trying") /\ UNCHANGED accepted

Next ==
  \E o \in Orders : Create(o) \/ Accept(o) \/ Deliver(o) \/ Stop(o) \/ Resume(o)

Spec == Init /\ [][Next]_vars

\* No order is tried for ever.
FairSpec == Spec /\ \A o \in Orders : WF_vars(Deliver(o) \/ Stop(o))

=============================================================================
