CONSTANTS
  l1 = l1
  l2 = l2
  e1 = e1
  Leads = {l1, l2}
  Events = {e1}
  Content <- Batch
  NoEvent = NoEvent
  Handlers = {h1, h2}
  PageCap = 1
  InitialWindow = 2
  MaxWindow = 168
  Polled = TRUE
  PageLimit = 1
  MaxPages = 1
  Times = {1, 3}
  MaxPosts = 2
  MaxFaults = 1
SPECIFICATION FairSpec
INVARIANTS TypeOK HandledOnce AckedIsKept
PROPERTIES EventuallyTakenIn
CHECK_DEADLOCK FALSE
