CONSTANTS
  Nil = Nil
  Clients <- MCClients
  Servers <- MCServers
  Envs <- MCEnvs
  Dev = "development"
  Partitions = {1, 2}
  Ids = {1, 2}
  Worlds <- MCWorlds
  MaxFaults = 1
SPECIFICATION Spec
INVARIANTS
  EndsWithOwnAnswer
  NoRequestIsForgotten
PROPERTY
  ClientsAreAnswered
CHECK_DEADLOCK FALSE
