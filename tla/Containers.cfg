SPECIFICATION MCSpec
CONSTANTS
  Containers <- MCContainers
  Leaves <- MCLeaves
  Root = "root"
  Parent <- MCParent
  Sub <- MCSub
  ChoiceOf <- MCChoiceOf
  NoChoice = NoChoice
  Presence <- MCPresence
  LateLeaves <- MCLate
  Values = {v1}
  Unset = Unset
  Clearable <- MCA
  Copyable <- MCB
  Keepable <- MCKept
  Resettable <- MCResettable
  NoObj = NoObj
  Idle = Idle
  MaxGen = 3
  MaxHeld = 1
INVARIANTS
  TypeOK
  ChangedUpward
  PresenceMatchesChanged
  ChoiceExclusive
  CasesDoNotCoexist
  SlotsMatchParents
PROPERTY
  ImplementsConfigTree
