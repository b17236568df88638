CONSTANTS
  IntHalf = 1048576
  LowerCase <- MCLowerCase
  InternalTables <- MCMockTables
  MockTables <- MCMockTables
  MaxCTEDepth = 4
  MaxMockRows = 3
  Calls = {1, 2}
  Scripts <- MCScripts
  BaseCatalog <- MCBaseCatalog
  Stored <- MCStored
CHECK_DEADLOCK FALSE
SPECIFICATION Spec
INVARIANTS CreatedIsFound CatalogWhole PlanMeansStatement OptimizerKeepsRows ExecutedRows
PROPERTIES PlannedOnOneCatalog CallsEnd
