SPECIFICATION Spec
CONSTANTS
  Identities <- MCIdentities
  Schemas <- MCMissing
  Definitions <- MCDefinitions
  Name <- MCName
PROPERTY
  Terminates
CHECK_DEADLOCK FALSE
