SPECIFICATION Spec
CONSTANTS
  kMaxDecimalScale = 1
  kLlMax = 127
  Ids = {o1, o2, o3}
  Symbols = {"BTC", "ETH"}
  Quantities <- MCQuantities
  Prices <- MCPrices
  Defaults <- MCDefaults
  Instruments <- MCInstruments
SYMMETRY IdSymmetry
CHECK_DEADLOCK FALSE
INVARIANTS
  TypeOK
  ArithmeticExact
  RiskExact
  OneSidedPosition
