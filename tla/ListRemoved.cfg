SPECIFICATION MCSpec
CONSTANTS
  Keys = {"n0", "n1"}
  Text <- MCText
  Natives = {"n0", "n1"}
  Native <- MCNative
  Invalid = Invalid
  Values = {"a"}
  Null = "null"
  NullKey = "unset"
  Calls = {"add", "del"}
  InChoice = FALSE
  None = None
  MaxEntries = 4
  MaxHeld = 0
INVARIANT
  NothingRemovedResolves
