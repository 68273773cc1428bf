\* Two days of four ticks of six hours, two zones, one person at the desk.
CONSTANTS
  baghdad = baghdad  moving = moving  a1 = a1  a2 = a2
  Day = 4
  Times = {1, 3}
  Zones = {baghdad}
  ZoneRule <- MCRules
  Opening = 1  Closing = 3
  Baghdad = baghdad
  Horizon = 8
  Desk = {a1}
  MaxCalls = 2
  Lossy = {"submit"}
  None = None
SPECIFICATION FairSpec
INVARIANT NoticeTypeOK
INVARIANT CountdownIsRight
INVARIANT ComposeOnlyWhenOpen
PROPERTY NoticeLifts
