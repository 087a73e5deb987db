SPECIFICATION Spec
CONSTANTS
  alice = alice  bob = bob  vm = vm  vm2 = vm2  card = card  NoGPU = none  none = none
  HeadroomWatts = 2  ShedBelowWatts = 1  MinBatteryPercent = 1
  GamingGuard <- MCGaming  Migrate <- MCNoGuests  Stop <- MCNoGuests  Asked <- MCGaming
  GamingGrace = 1  MinRuntime = 0  FreshBootWindow = 1
  Users <- MCUsers  Allowed <- MCAllowed  Admins <- MCAdmins  Passthrough <- MCPassthrough
  Positions = {"shed"}  MaxClicks = 3
  Actions = {"shutdown", "reset"}
  Disturbances = {"proxmox", "save", "start", "restart", "hostLoss", "byHand"}
INVARIANTS
  TypeOK
  LostOnlyByOverlap
  OneRequestPerGPU
PROPERTIES
  ShutDownStaysDown
  GpuRespected
