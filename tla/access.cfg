\* Two clients in one browser: one tab whose calls interleave with the server,
\* and the tabs beside it.  One of the two may be blocked, or run out of time.
CONSTANTS
  s1 = s1  s2 = s2  f1 = f1  f2 = f2
  Subjects = {s1, s2}
  Frames = {f1}
  MaxKeys = 2
  MaxCalls = 2
  Lapsing = {s1}
  Lossy = TRUE
  Others = TRUE
  Keep = Keep
  Drop = Drop
  None = None
SPECIFICATION FairSpec
INVARIANT TypeOK
INVARIANT ServedAsOpened
INVARIANT WritesAreOwn
PROPERTY DoorKeepsPromise
PROPERTY AskingEnds
CHECK_DEADLOCK FALSE
