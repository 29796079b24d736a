CONSTANTS
  Types = {"postgres"}
  MaxQueries = 1
  MaxSalt = 1
SPECIFICATION Spec
INVARIANT OnlySessionTraffic
CHECK_DEADLOCK FALSE
