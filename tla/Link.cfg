\* Two goroutines start and stop the link while its daemons fail.
SPECIFICATION FairSpec
CONSTANTS
  c1 = c1
  c2 = c2
  Callers <- MCCallers
  MaxStarts = 3
  MaxLaunches = 4
INVARIANT TypeOK OneOpenTunnel CloseSafe RepairOnlyDead LaunchersBounded
PROPERTY NoRevival ImplementsSwitch Repaired RepairerExits
CHECK_DEADLOCK FALSE
