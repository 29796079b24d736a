CONSTANTS
  Names = {n1, n2}
  URLs = {u1}
  Keys = {k1}
  Base = 3
  MaxPort = 4
  NoEntry = NoEntry
  NoCmd = NoCmd
  Procs = {p1, p2}
  Requests <- MCRequests
  MaxGen = 1
SYMMETRY MCSymmetry
SPECIFICATION Spec
INVARIANTS TypeOK PortsUniqueEverywhere PortsInRange NeverOnUnasked
PROPERTY UnparsableIsKept
