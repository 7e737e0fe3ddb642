CONSTANTS
  Nil = Nil
  Users <- MCUsers
  Requests = {"r1", "r2", "r3"}
  Channels <- MCChannels
  Root <- MCRoot
  Worlds <- WsWorlds
  Senders <- MCSenders
  MaxSends = 2
SPECIFICATION Spec
PROPERTY
  CallsGetWhatIsOffered
CHECK_DEADLOCK FALSE
