\* Progress of one request of either direction, while one merchant's record is
\* edited and corrections, parks and hand-backs go on for ever.
SPECIFICATION FairSpec
CONSTANTS
  Requests = {r1}
  Merchants = {m1, m2}
  Staff = {s1}
  Amounts = {a60}
  Directions = {"deposit", "withdrawal"}
  Editable = {m1}
  Switches = {"covers"}
  Granted <- MCGranted
  None = None
PROPERTIES
  EveryRequestEnds
