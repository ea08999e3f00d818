CONSTANTS
  Leads = {l1}
  Rows = {r1, r2}
  NoOne = NoOne
  Workers = {w1}
  Users = {u1}
  Hours = 2
  Plans <- DayPlans
  MaxRuns = 2
  MaxEdits = 1
  MaxCrashes = 0
SPECIFICATION Spec
INVARIANT LeadDeliveredOnce
CHECK_DEADLOCK FALSE
