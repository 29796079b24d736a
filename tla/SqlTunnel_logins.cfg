CONSTANTS
  Types = {"redis", "postgres", "mysql"}
  MaxQueries = 4
  MaxSalt = 2
SPECIFICATION FairSpec
INVARIANTS
  TypeOK
  QueriesInOrder
  RelayedAfterLogin
  AnsweredIsDelivered
  RedisMySQLSessionTraffic
  AnswersInOrder
PROPERTIES
  RelaysASession
  LoginEnds
CHECK_DEADLOCK FALSE
