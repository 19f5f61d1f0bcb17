CONSTANTS
  planner = planner
  review = review
  old = old
  new = new
  fine = fine
  broken = broken
  first = first
  second = second
  l1 = l1
  l2 = l2
  Experts = {planner, review}
  KindOf <- MCKinds
  Lines <- MCLines
  Missing = Missing
  MinimumRecords = 1
  Expected <- MCExpected
  Launches = {l1, l2}
  Ramp <- MCRamp
  SampleOf <- MCSamples
  MinimumGold = 1
  Trigger = "provider_quota_exhausted"
  Order <- MCOrder
  Contents <- MCContents
  Machines <- MCMachines
  Bank <- MCBank
  AutomationStates = {"provider_quota_exhausted", "cooldown"}
  MaxChanges = 1
  MaxSmokes = 1
  MaxCrashes = 1
  Steps = 1
SPECIFICATION Spec
INVARIANTS OneTrainer TrainedOnFrozenData RealTrigger
PROPERTY HandoffNeverReplaced
CHECK_DEADLOCK FALSE
SYMMETRY Symmetry
