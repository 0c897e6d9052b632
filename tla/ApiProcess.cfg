CONSTANTS
  Runners = {w1, w2}
  JoinRunners = {w2}
  Requests = {q1, q2}
  Addresses <- MCAddresses
  ToLower <- MCToLower
  Passwords = {"p", "q"}
  NoUser = NoUser
  MaxStoreFaults = 1
SPECIFICATION FairSpec
INVARIANTS
  TypeOK
  RunnersBeforeStores
  RequestsBeforeStores
  OneAccountPerAddress
  TokensNameUsers
  ConflictIsReal
  GoodLoginAccepted
PROPERTIES
  SignalEndsProcess
CHECK_DEADLOCK FALSE
