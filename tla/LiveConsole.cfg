CONSTANTS
  Companies = {t1, t2}
  NoCompany = NoCompany
  Active = {t1}
  MaxChanges = 2
  MaxSwitches = 2
  MaxDrops = 1
SPECIFICATION FairSpec
INVARIANTS ConsoleInv OneStream
PROPERTIES Reconnects PushIsShown
CHECK_DEADLOCK FALSE
