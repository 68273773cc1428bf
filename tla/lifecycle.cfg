\* One request of either direction, two merchants, two operators.
SPECIFICATION Spec
CONSTANTS
  Requests = {r1}
  Merchants = {m1, m2}
  Staff = {s1, s2}
  Amounts = {a60, a100}
  Directions = {"deposit", "withdrawal"}
  Editable = {}
  Switches = {}
  Granted <- MCGranted
  None = None
INVARIANTS
  TypeOK
  CreditedOnConfirmation
  EndIsExplained
PROPERTIES
  SubmissionKept
  MerchantWritesOnlyHeld
  KeepsPromise
SYMMETRY Interchangeable
