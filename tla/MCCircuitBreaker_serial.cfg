SPECIFICATION FairSpec
CONSTANTS
  d1 = d1
  d2 = d2
  t1 = t1
  t2 = t2
  market = market
  Destinations = {d1, d2}
  Apps = {market}
  App <- OneApp
  NoApp = NoApp
  Policy <- CIRCUIT_POLICY
  Tasks = {t1}
  Errors = {"rate_limit", "auth"}
  MaxOutcomes = 3
INVARIANTS
  TripsInTime
PROPERTIES
  FollowsDiagram
  NeverShutForEver
CHECK_DEADLOCK FALSE
