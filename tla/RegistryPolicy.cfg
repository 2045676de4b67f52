SPECIFICATION Spec
CONSTANTS
  NoActor = NoActor
  MaxAddressCount = 2
  Propagate = {"Instantiate", "MigrateContract"}
  u1 = u1
  User = {u1}
  Authority = gov
  Hash = {h1}
  IBCHash = {}
  MigrateVersion <- Unversioned
  NoVersion = NoVersion
  Salt = {}
  Label = {l1, l2}
  InputConfig <- Restricted
  InputDefault = {"Nobody"}
  InputAdmin = {NoActor}
  InputPin = {}
  InputAccount = {}
  NoCode = NoCode
  NoContract = NoContract
  MaxCode = 1
  MaxInstance = 1
  MaxPosition = 0
  MaxDepth = 3
  MaxHistory = 2
INVARIANTS ClassicAddressUnused PolicyFromAuthority
PROPERTIES AdminlessIsImmutable
