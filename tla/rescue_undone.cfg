SPECIFICATION Spec
CONSTANTS
  vm = vm  vm2 = vm2  crit = crit  load = load
  HeadroomWatts = 2  ShedBelowWatts = 1  MinBatteryPercent = 1
  GamingGuard <- MCGaming  Migrate <- MCMigrate  Stop <- MCStop  Asked <- MCGaming
  GamingGrace = 2  MinRuntime = 0  FreshBootWindow = 2  ProbeMaxAge = 1
  DryRun = "full"  Delegated = TRUE  ReportsUptime = TRUE
  NoAutostart = {}  Touched <- MCGaming
  Readings <- MCNight  Holds = {"none"}
  Faults = {"request"}
  Env = {"press"}
PROPERTY
  RescueLeavesNoOff
