SPECIFICATION FairSpec
CONSTANTS
  Lines <- LineSet
  Begins <- PrefixSet
  Numerals <- NumeralsMap
  MaxErrors = 2
  IntMax = 127
  Kilo = 4
  DefaultDns = "8.8.8.8"
INVARIANTS TypeOK OperandsLast AcceptedAsWritten ValueExact
PROPERTY ParseEnds
CHECK_DEADLOCK FALSE
