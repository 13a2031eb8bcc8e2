SPECIFICATION MCSpec
CONSTANTS
  Keys = {"n0", "n1", "bad", ""}
  Text <- MCText
  Natives = {"n0", "n1"}
  Native <- MCNative
  Invalid = Invalid
  Values = {"a", "b"}
  Null = "null"
  NullKey = "n0"
  Calls <- AllCalls
  InChoice = TRUE
  None = None
  MaxEntries = 5
  MaxHeld = 1
INVARIANTS
  TypeOK
  EntriesResolve
  TreeNothingRemovedResolves
  MarkedCasesExclusive
PROPERTIES
  TreeImplementsStore
  MarkedWritesKeepEntries
