CONSTANTS
  Names = {n1, n2}
  URLs = {u1}
  Keys = {k1, k2}
  Base = 3
  MaxPort = 4
  NoEntry = NoEntry
  NoCmd = NoCmd
  Procs = {p1}
  Requests <- MCRequests
  MaxGen = 2
SPECIFICATION Spec
INVARIANT OldTokensStayOut
PROPERTY CommandsAreAtomic
