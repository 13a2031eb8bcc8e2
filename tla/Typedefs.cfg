SPECIFICATION Spec
CONSTANTS
  Typedefs <- MCTypedefs
  Builtins = {"string"}
  Schemas <- MCSchemas
  Orders <- MCOrders
  Name <- MCName
  Module <- MCModule
  Identities = {}
  MaxTries = 2
  None = None
INVARIANTS
  UsesFirst
  MadeFromItsTypes
  OnlyUnsoundGivenUp
PROPERTY
  Ends
CHECK_DEADLOCK FALSE
