SPECIFICATION HistorySpec
CONSTANTS
  vm = vm  vm2 = vm2  crit = crit  load = load
  HeadroomWatts = 2  ShedBelowWatts = 1  MinBatteryPercent = 1
  GamingGuard <- MCTwoGaming  Migrate <- MCMigrate  Stop <- MCStop  Asked <- MCTwoGaming
  GamingGrace = 3  MinRuntime = 0  FreshBootWindow = 2  ProbeMaxAge = 1
  DryRun = "full"  Delegated = TRUE  ReportsUptime = TRUE
  NoAutostart = {}  Touched <- MCTwoGaming
  Readings <- MCNight  Holds = {"none"}
  Faults = {"observe", "request", "stop", "start"}
  Env = {"press", "guestStop", "dogRestart"}
SYMMETRY MCUsers
INVARIANTS
  ShedRemembered
  BudgetLasts
  NoStartOnDyingHost
PROPERTIES
  OffStands
  OffComesLast
  RescueWindow
  SeenStaysServed
  GraceHonoured
  OwnsPower
