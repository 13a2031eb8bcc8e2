SPECIFICATION MCSpec
CONSTANTS
  Reads <- MCReads
  Refused = Refused
  Types <- MCTypes
  Values <- MCValues
  Names = {"a"}
  None = None
  MaxItems = 2
  RequiredChoices = {"o", "i"}
  MinElements = 1
  MaxElements = 2
  Up <- MCUp
  Name <- MCName
  Text <- MCText
  NoText = NoText
  ByName = {4, 9}
  Local <- MCLocal
  Number <- MCNumber
  NaN = NaN
  Bare = Bare
  LeafModule = "m"
  SchemaFields <- MCFields
  Presence = {"P"}
  Nothing = Nothing
  NoBits = NoBits
CHECK_DEADLOCK FALSE
INVARIANT NothingMisjudged
