SPECIFICATION Spec
CONSTANTS
  NoActor = NoActor
  MaxAddressCount = 2
  Propagate = {"Instantiate"}
  u1 = u1
  User = {}
  Authority = gov
  Hash = {h1, h2}
  IBCHash = {h2}
  MigrateVersion <- SameVersion
  NoVersion = NoVersion
  Salt = {}
  Label = {l1}
  InputConfig <- Open
  InputDefault = {}
  InputAdmin = {NoActor}
  InputPin = {{1}}
  InputAccount = {}
  NoCode = NoCode
  NoContract = NoContract
  MaxCode = 2
  MaxInstance = 1
  MaxPosition = 1
  MaxDepth = 2
  MaxHistory = 3
INVARIANTS CodeIndexExact CreatorIndexExact HistoryTellsContract PortIffCallbacks ReferencesResolve
