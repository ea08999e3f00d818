CONSTANTS
  Leads = {l1}
  Rows = {r1}
  NoOne = NoOne
  Workers = {w1}
  Users = {u1}
  Hours = 2
  Plans <- DayPlans
  MaxRuns = 1
  MaxEdits = 3
  MaxCrashes = 1
SPECIFICATION FairSpec
INVARIANTS TypeOK RowTakenOnce DeliveredIsTrue
PROPERTIES QueueDrains ImplementsParked
CHECK_DEADLOCK FALSE
