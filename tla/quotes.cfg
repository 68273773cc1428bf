\* Two amounts within the bounds and one below, three revisions, two moments.
SPECIFICATION FairSpec
CONSTANTS
  Requests = {r1}
  Amounts = {50, 100, 150}
  Minimum <- MCMinimum
  Maximum <- MCMaximum
  Revisions <- MCRevisions
  Horizon = 1
  MaxRates = 3
  None = None
INVARIANTS
  TypeOK
  ChargedAsShown
  FiguresReconcile
  WithdrawalPays
PROPERTIES
  SettledClientFiles
CHECK_DEADLOCK FALSE
