SPECIFICATION FairSpec
CONSTANTS
  vm = vm  vm2 = vm2  crit = crit  load = load
  HeadroomWatts = 2  ShedBelowWatts = 1  MinBatteryPercent = 1
  GamingGuard <- MCGaming  Migrate <- MCMigrate  Stop <- MCStop  Asked <- MCGaming
  GamingGrace = 2  MinRuntime = 0  FreshBootWindow = 1  ProbeMaxAge = 0
  DryRun = "full"  Delegated = TRUE  ReportsUptime = TRUE
  NoAutostart = {}  Touched <- MCGaming
  Readings <- MCNight  Holds = {"none"}
  Faults = {"observe", "start", "stale", "silence"}
  Env = {"press", "dogRestart", "handOn", "crash"}
PROPERTIES
  ShedLands
  EveningShed
