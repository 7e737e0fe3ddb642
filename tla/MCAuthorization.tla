--------------------------- MODULE MCAuthorization ---------------------------
(***************************************************************************)
(* One client and every fault, with a server to start when the first has   *)
(* ended; two clients of one environment, of two environments, with equal  *)
(* and different correlation IDs; a client of another environment.         *)
(***************************************************************************)
EXTENDS Authorization

MCClients == {"c1", "c2"}
MCServers == {"s1", "s2"}
MCEnvs == {"development", "staging"}

World(e1, e2, i1, i2, f1, f2, partitions, glitch, kinds) ==
  [env |-> [c \in MCClients |-> IF c = "c1" THEN e1 ELSE e2],
   id |-> [c \in MCClients |-> IF c = "c1" THEN i1 ELSE i2],
   serverEnv |-> [s \in MCServers |-> IF s = "s1" THEN f1 ELSE f2],
   partitions |-> partitions, glitch |-> glitch, faults |-> kinds]

D == "development"
S == "staging"

MCWorlds ==
  { World(D, Nil, 1, 1, D, D, 2, FALSE, {"crash", "publish", "fetch", "garbage"}),
    World(D, Nil, 1, 1, D, Nil, 2, TRUE, {}),
    World(S, Nil, 1, 1, S, Nil, 1, FALSE, {}),
    World(D, S, 1, 2, D, S, 1, FALSE, {}),
    World(D, S, 1, 1, D, S, 1, FALSE, {}),
    World(D, D, 1, 2, D, Nil, 1, FALSE, {}) }
=============================================================================
