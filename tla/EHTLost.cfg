CONSTANTS
  Keys = {0, 2, 4, 1, 5, 9}
  Values = {v1}
  NoValue = NoValue
  Hash <- IdentityHash
  bucket_size_ = 2
  MaxGlobalDepth = 4
SPECIFICATION Spec
PROPERTY NoKeyLost
