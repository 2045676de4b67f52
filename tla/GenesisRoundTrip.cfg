SPECIFICATION GenesisSpec
CONSTANTS
  NoActor = NoActor
  MaxAddressCount = 2
  Propagate = {}
  User = {}
  Authority = gov
  Hash = {h1}
  IBCHash = {}
  MigrateVersion <- Unversioned
  NoVersion = NoVersion
  Salt = {s1}
  Label = {l1}
  InputConfig <- Open
  InputDefault = {}
  InputAdmin = {gov}
  InputPin = {{1}}
  InputAccount = {"vesting", "claimed"}
  NoCode = NoCode
  NoContract = NoContract
  MaxCode = 1
  MaxInstance = 1
  MaxPosition = 1
  MaxDepth = 1
  MaxHistory = 2
  MaxExport = 1
INVARIANTS ExportReimports ContractAccountPlain
PROPERTIES RegistryGrows
