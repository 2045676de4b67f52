SPECIFICATION Spec
CONSTANTS
    OldCode = {1, 2}
    OldContract = {1, 2, 3}
    Base = 2
    HeightDigits = 2
    CounterDigits = 2
    MaxHeight = 3
    MaxBlockTx = 3
    MaxLabelSize = 2
    MaxSaltSize = 2
    MaxWasmSize = 2
    MaxAddressCount = 2
    maxCodeIDCount = 2
INVARIANT RoundTrips
INVARIANT CutNoticed
INVARIANT UpgradeKeeps
INVARIANT CounterIsPosition
INVARIANT DoneAsAsked
CHECK_DEADLOCK FALSE
