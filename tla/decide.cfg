SPECIFICATION Spec
CONSTANTS
  vm = vm  vm2 = vm2  crit = crit  load = load
  HeadroomWatts = 2  ShedBelowWatts = 1  MinBatteryPercent = 1
  GamingGuard <- MCGaming  Migrate <- MCMigrate  Stop <- MCStop  Asked <- MCAsked
  GamingGrace = 2  MinRuntime = 2  FreshBootWindow = 1
  Inputs <- MCInputs  Watts <- MCWatts  Charges <- MCCharges
INVARIANTS
  TypeOK
  PowerOffSparesUsers
  RequestAnswered
  ServedOnce
  HoldsPinTheSignal
  MinRuntimeOnlyDefers
  NoThrash
CHECK_DEADLOCK FALSE
