SPECIFICATION FairSpec
CONSTANTS
  Contract = {c1, c2}
  Response <- Both
  Cost = {1, 2}
  WithData = {TRUE, FALSE}
  TxGas = 4
  NoLimit = NoLimit
  NoMsg = NoMsg
  MaxCallDepth = 2
  MaxRun = 7
INVARIANTS LimitFits WorkIsPaid
  RevertedLeavesNoTrace
  EventsMatchState
  RepliesAsRequested
  DataIsOwn
PROPERTIES ImplementsNestedTx TxEnds
