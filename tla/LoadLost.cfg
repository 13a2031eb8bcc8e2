SPECIFICATION ProgramSpec
CONSTANTS
  Passed = {"a", "b", "a_", "x"}
  Natives = {"a", "b"}
  Native <- MCNative
  Invalid = Invalid
  Others = {"z"}
  Null = Null
  Given <- MCGiven
  MaxItems = 4
  Inputs = {1, 2, 3}
  Chains <- MCChains
  Keys = {"1", "2", "w"}
  Number <- MCNumber
  Values = {"v1", "v2"}
  Bad = Bad
  NoOrder = NoOrder
  MaxLoads = 3
  Documents <- MCWhole
  Ordered = TRUE
  TargetKeys = {"1", "2", "3"}
  Assigned = {"1", "2", "3", ""}
  Unread = ""
  MaxTargets = 3
CHECK_DEADLOCK FALSE
INVARIANT DocumentLoaded
