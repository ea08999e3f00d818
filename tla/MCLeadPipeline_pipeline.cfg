CONSTANTS
  MaxGraphAttempts = 3
  Leads = {l1}
  NoLead = NoLead
  Callers = {c1, c2}
  GraphErrors = {"network", "auth"}
  JobAttempts = 2
  MaxRequests = 2
  MaxFaults = 1
SPECIFICATION FairSpec
INVARIANTS TypeOK NoLeadStranded GivenUpNotScheduled
PROPERTIES EventuallyResolved
CHECK_DEADLOCK FALSE
