CONSTANTS
  Companies = {t1}
  NoCompany = NoCompany
  Active = {t1}
  MaxChanges = 2
  MaxSwitches = 1
  MaxDrops = 0
SPECIFICATION FairSpec
PROPERTIES PublishedIsShown
CHECK_DEADLOCK FALSE
