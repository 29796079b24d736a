CONSTANTS
  n1 = n1
  u1 = u1
  k1 = k1
  Names = {n1, n2}
  URLs = {u1}
  MongoURLs = {}
  Keys = {k1}
  Base = 3
  MaxPort = 5
  NoEntry = NoEntry
  Clients = {}
  InitRegs <- MCInitRegs
  Requests <- MCRequests
  Foreign <- OneForeign
  Ephemeral <- MCEphemeral
  MaxGen = 2
  MaxRuns = 2
  Global = Global
  NoToken = NoToken
SPECIFICATION FairSpec
PROPERTIES OffCloses OnOpens
