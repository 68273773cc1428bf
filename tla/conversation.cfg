\* One request between a desk, two merchants and its client, and the page of
\* one merchant polling.
CONSTANTS
  r1 = r1  d1 = d1  d2 = d2  m1 = m1  m2 = m2  c = c
  Requests = {r1}
  Desk = {d1}
  Merchants = {m1, m2}
  Client = c
  MaxTime = 3
  MaxPages = 1
  Uploads = {FALSE}
  None = None
  Watchers = {m1}
  Slots = {1, 2}
  Faults = TRUE
SPECIFICATION PanelFairSpec
INVARIANT PanelTypeOK
INVARIANT WordsStayWithReaders
INVARIANT PollNeverDies
PROPERTY OnlyOwnEyesClear
PROPERTY WokenByOthers
PROPERTY BadgeCatchesUp
CHECK_DEADLOCK FALSE
