SPECIFICATION Spec
CONSTANTS
  Identities <- MCIdentities
  Schemas <- MCSchemas
  Definitions <- MCDefinitions
  Name <- MCName
INVARIANTS
  BasesFirst
  NothingLost
  TablesComplete
PROPERTY
  Terminates
CHECK_DEADLOCK FALSE
