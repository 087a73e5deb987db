SPECIFICATION FairSpec
CONSTANTS
  vm = vm  vm2 = vm2  crit = crit  load = load
  HeadroomWatts = 2  ShedBelowWatts = 1  MinBatteryPercent = 1
  GamingGuard <- MCGaming  Migrate <- MCMigrate  Stop <- MCStop  Asked <- MCGaming
  GamingGrace = 2  MinRuntime = 0  FreshBootWindow = 2  ProbeMaxAge = 1
  DryRun = "full"  Delegated = FALSE  ReportsUptime = TRUE
  NoAutostart = {}  Touched <- MCGaming
  Readings <- MCSun  Holds = {"none", "off"}
  Faults = {"on", "silence", "observe"}
  Env = {"press", "uiStop", "guestStop", "guestStart", "moveBack", "hostLoss"}
PROPERTIES
  RestoreComplete
  MorningComes
