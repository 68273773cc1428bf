\* One tab, no other, and a network that loses nothing: the logout meets an
\* exchange that is under way.
CONSTANTS
  s1 = s1  s2 = s2  f1 = f1  f2 = f2
  Subjects = {s1}
  Frames = {f1}
  MaxKeys = 2
  MaxCalls = 2
  Lapsing = {s1}
  Lossy = FALSE
  Others = FALSE
  Keep = Keep
  Drop = Drop
  None = None
SPECIFICATION Spec
INVARIANT LoggedOutStays
CHECK_DEADLOCK FALSE
