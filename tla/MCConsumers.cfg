CONSTANTS
  Nil = Nil
  Users <- MCUsers
  Requests = {"r1", "r2", "r3"}
  Channels <- MCChannels
  Root <- MCRoot
  Worlds <- MCWorlds
  Senders <- MCSenders
  MaxSends = 2
SPECIFICATION Spec
INVARIANTS
  UnsealErrorIsReported
  PayloadSentOnce
  CredentialsAreOwn
PROPERTIES
  TakesTurns
  RequestsAreAnswered
  LockIsReleased
CHECK_DEADLOCK FALSE
