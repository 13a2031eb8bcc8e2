SPECIFICATION MCSpec
CONSTANTS
  Containers <- MCContainers
  Leaves <- MCLeaves
  Root = "root"
  Parent <- MCParent
  Sub <- MCSub
  ChoiceOf <- MCNestedChoiceOf
  NoChoice = NoChoice
  Presence <- MCA
  LateLeaves <- MCNone
  Values = {v1}
  Unset = Unset
  Clearable <- MCA
  Copyable <- MCNone
  Keepable <- MCA
  Resettable <- MCResettable
  NoObj = NoObj
  Idle = Idle
  MaxGen = 3
  MaxHeld = 0
INVARIANT
  CasesDoNotCoexist
