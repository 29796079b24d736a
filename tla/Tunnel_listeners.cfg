CONSTANTS
  n1 = n1
  u1 = u1
  k1 = k1
  Names = {n1, n2}
  URLs = {u1, m1}
  MongoURLs = {m1}
  Keys = {k1}
  Base = 3
  MaxPort = 5
  NoEntry = NoEntry
  Clients = {c1}
  InitRegs <- MCInitRegs
  Requests <- AutoOnly
  Foreign <- OneForeign
  Ephemeral <- MCEphemeral
  MaxGen = 2
  MaxRuns = 2
  Global = Global
  NoToken = NoToken
SPECIFICATION Spec
INVARIANTS TypeOK OnlyDesiredListen  OneRegistration
