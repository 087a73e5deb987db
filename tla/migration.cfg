SPECIFICATION FairSpec
CONSTANTS
  p2 = p2  p3 = p3  p4 = p4
  Criticals = {1, 2, 3}  Targets <- MCTargets  Room <- MCRoom
  Faults = {"refused", "post", "wait", "list", "byHand"}
INVARIANTS
  TypeOK
  TriedEverywhere
PROPERTIES
  Evacuates
  EventuallyGone
