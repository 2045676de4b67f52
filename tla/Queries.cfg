SPECIFICATION Spec
CONSTANTS
  Checksum = {h1, h2}
  Pinned = {h2}
  Word = 40
  GasMultiplier = 3
  InstanceCost = 3
  InstanceCostDiscount = 1
  LoadCost = 1
  EventPerAttributeCost = 1
  EventAttributeDataCost = 1
  EventAttributeDataFreeTier = 2
  CustomEventCost = 1
  maxQueryStackSize = 2
  TxGas = {6, 9, 12, 23}
  queryGasLimit = 8
  ComputeGas = {1, 4}
  AccessGas = {1, 3}
  DeserGas = {0, 2}
  Responses <- SomeResponses
  MaxTx = 2
  NoContracts = NoContracts
INVARIANTS PayableWork AllIsCharged NestingBounded
CHECK_DEADLOCK FALSE
