---------------------------- MODULE MCLeadIntake ----------------------------
(***************************************************************************)
(* An instance of LeadIntake for TLC.                                       *)
(***************************************************************************)
EXTENDS LeadIntake

CONSTANTS l1, l2, e1

\* One event with two leads.
Batch == [e \in {e1} |-> <<l1, l2>>]

=============================================================================
