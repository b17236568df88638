CONSTANTS
  IntHalf = 1048576
  LowerCase <- MCLowerCase
  InternalTables <- MCMockTables
  MockTables <- MCMockTables
  MaxCTEDepth = 4
  MaxMockRows = 3
  Calls = {1, 2}
  Scripts <- MCUnplannedScripts
  BaseCatalog <- MCBaseCatalog
  Stored <- MCStored
CHECK_DEADLOCK FALSE
SPECIFICATION Spec
INVARIANT BoundIsPlanned
