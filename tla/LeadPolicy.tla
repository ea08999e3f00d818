----------------------------- MODULE LeadPolicy -----------------------------
(***************************************************************************)
(* The retry policy of Graph enrichment (lib/leadEnrichmentRetryPolicy.ts): *)
(* whether a lead whose data could not be fetched is tried again.           *)
(***************************************************************************)
EXTENDS Naturals

CONSTANT MaxGraphAttempts   \* LEAD_MAX_GRAPH_ATTEMPTS

\* envInt falls back to 3.
ASSUME GraphAttemptsAssumption == MaxGraphAttempts \in Nat \ {0}

\* The buckets of classifyGraphError, and "none" for a lead without an error.
GraphError ==
  {"permanently_missing", "auth", "validation", "rate_limit", "network", "none"}

\* computeLeadNextRetryAt returns null after failure number `attempts`.
LeadGivesUp(attempts, error) ==
  \/ attempts >= MaxGraphAttempts
  \/ error \in {"permanently_missing", "validation"}
  \/ error = "auth" /\ attempts >= 2

=============================================================================
