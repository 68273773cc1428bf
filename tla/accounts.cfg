CONSTANTS
  boss = boss  aide = aide  hire = hire  m1 = m1  m2 = m2  s1 = s1
  Staff = {boss, aide, hire}
  Founders <- MCFounders
  Merchants = {m1, m2}
  Subjects = {s1}
  Overrides <- MCOverrides
  MaxOps = 3
  None = None
SPECIFICATION Spec
INVARIANT AccountsTypeOK
INVARIANT ServedAsSignedIn
 
INVARIANT HandedOutIsReplaced
INVARIANT GivenByOthers
SYMMETRY Interchangeable
CHECK_DEADLOCK FALSE
