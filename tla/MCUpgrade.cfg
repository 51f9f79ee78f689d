SPECIFICATION BoundedSpec
CONSTANTS
  Newest = 3
  MaxUpgrades = 2
  MaxMail = 1
  MaxUpgradeFaults = 1
INVARIANTS
  UpgradeInv
CHECK_DEADLOCK FALSE
