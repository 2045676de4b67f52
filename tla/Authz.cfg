SPECIFICATION Spec
CONSTANTS
  NoActor = NoActor
  MaxAddressCount = 2
  Propagate = {}
  c1 = c1
  c2 = c2
  b1 = b1
  b2 = b2
  b3 = b3
  u1 = u1
  u2 = u2
  h1 = h1
  h2 = h2
  Contract = {c1, c2}
  Denom = {"x", "y"}
  Payload = {b1, b2, b3}
  KeysOf <- Keys
  Granter = u1
  Hash = {h1, h2}
  Wildcard = Wildcard
  NoConfig = NoConfig
  Default = "Everybody"
  InputFunds <- Funds
  InputConfig <- Configs
  InputGrants <- Lists
  InputCodeGrants <- CodeLists
  None = None
  MaxMessage = 2
  MaxTx = 2
INVARIANTS UploadWithinGrant WithinBudget AcceptsPermitted
