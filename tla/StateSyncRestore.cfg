SPECIFICATION SyncSpec
CONSTANTS
  NoActor = NoActor
  MaxAddressCount = 2
  Propagate = {}
  User = {u1}
  Authority = gov
  Hash = {h1, h2}
  IBCHash = {}
  MigrateVersion <- Unversioned
  NoVersion = NoVersion
  Salt = {}
  Label = {l1}
  InputConfig <- Open
  InputDefault = {}
  InputAdmin = {u1}
  InputPin = {{1, 3}}
  InputAccount = {}
  NoCode = NoCode
  NoContract = NoContract
  MaxCode = 3
  MaxInstance = 0
  MaxPosition = 0
  MaxDepth = 1
  MaxHistory = 1
  MaxSnapshot = 1
  MaxTry = 2
INVARIANTS SnapshotNeverFails RestoredCanRun
