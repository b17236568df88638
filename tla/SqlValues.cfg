CONSTANTS
  Half <- Widths
  Numbers <- Boundaries
  Texts <- Readings
  NullText = NullText
  NoNumber = NoNumber
  Builds = {TRUE, FALSE}
  TextTable <- AllTexts
  Mantissa = 5
  DecimalNull <- LowestDouble
  DecimalMin <- LowestFloat
  NaN = NaN
  Decimals <- DecimalsUsed
  Wholes <- IntegersUsed
  Words = {1, 5, 14, 16, 18, 21, 24, 26, 30, 34, 36, 38, 40, 42, 44, 45, 46, 47}
  Rows <- RowsUsed
  KeyAttrs <- KeysUsed
SPECIFICATION AllSpec
INVARIANTS SumsExact ProductsExact ExpressionAgrees CastsFaithful OneOrder
  CastsKeepValue FactoryAgrees OrderAcrossTypes TupleKeepsValues
