SPECIFICATION Spec
CONSTANTS
  d1 = d1
  d2 = d2
  t1 = t1
  t2 = t2
  market = market
  Destinations = {d1}
  Apps = {market}
  App <- OneApp
  NoApp = NoApp
  Policy <- CIRCUIT_POLICY
  Tasks = {t1, t2}
  Errors = {"rate_limit", "auth", "validation"}
  MaxOutcomes = 5
SYMMETRY Callers
INVARIANTS
  TypeOK
  OpenHasCooldown
  CleanWhenClosed
CHECK_DEADLOCK FALSE
