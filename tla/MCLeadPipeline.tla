--------------------------- MODULE MCLeadPipeline ---------------------------
(***************************************************************************)
(* An instance of LeadPipeline for TLC: the constants are given values in   *)
(* the configuration.                                                       *)
(***************************************************************************)
EXTENDS LeadPipeline

=============================================================================
