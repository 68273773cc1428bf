\* A withdrawal parked before its review and routed from there.
SPECIFICATION Spec
CONSTANTS
  Requests = {r1}
  Merchants = {m1}
  Staff = {s1}
  Amounts = {a60}
  Directions = {"withdrawal"}
  Editable = {}
  Switches = {}
  Granted <- MCGranted
  None = None
INVARIANTS
  NoPayoutWithoutReview
