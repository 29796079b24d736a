CONSTANTS
  n1 = n1
  u1 = u1
  k1 = k1
  Names = {n1}
  URLs = {u1}
  MongoURLs = {}
  Keys = {k1}
  Base = 3
  MaxPort = 5
  NoEntry = NoEntry
  Clients = {}
  InitRegs <- NoLegacy
  Requests <- AutoOnly
  Foreign <- NoForeign
  Ephemeral <- MCEphemeral
  MaxGen = 1
  MaxRuns = 1
  Global = Global
  NoToken = NoToken
SPECIFICATION FairSpec
PROPERTY OnIsServed
