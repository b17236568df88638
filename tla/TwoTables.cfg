CONSTANTS
  Keys = {0, 1, 2, 3, 4, 5}
  Values = {v1, v2}
  NoValue = NoValue
  Hash <- IdentityHash
  bucket_size_ = 2
  MaxGlobalDepth = 3
  AnyKeys = {1, 2, 3, 6}
  AnyMaxDepth = 4
  Overwritten = 0
  Second = v2
SPECIFICATION TwoTables
INVARIANTS AllBucketsSound DirectoryIntegrity
PROPERTIES ImplementsMap InsertTerminates
