\* Two operators, two wallets of one link, one depositing client.
SPECIFICATION Spec
CONSTANTS
  Merchants = {m1}
  Wallets = {w1, w2}
  Owner <- MCOwner
  Numbers = {n1, n2}
  Staff = {s1, s2}
  Clients = {c1}
  Totals = {1}
  DailyCap <- MCUncapped
  None = None
INVARIANTS
  TypeOK
  OneActiveWallet
  DepositResolves
  ArchivedTakesNoForm
SYMMETRY Interchangeable
