\* A note that came with a file.
CONSTANTS
  r1 = r1  d1 = d1  d2 = d2  m1 = m1  m2 = m2  c = c
  Requests = {r1}
  Desk = {d1}
  Merchants = {m1, m2}
  Client = c
  MaxTime = 2
  MaxPages = 1
  Uploads = {TRUE}
  None = None
  Watchers = {}
  Slots = {1, 2}
  Faults = FALSE
SPECIFICATION PanelFairSpec
CHECK_DEADLOCK FALSE
INVARIANT NoteStaysAtDesk
