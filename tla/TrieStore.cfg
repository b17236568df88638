CONSTANTS
  Chars <- Letters
  Keys <- NestedKeys
  Types = {int}
  Values = {1, 2}
  NoType = NoType
  NoValue = NoValue
SPECIFICATION Spec
INVARIANT Connected
PROPERTIES ImplementsStore
