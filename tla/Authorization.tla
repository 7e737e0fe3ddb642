---------------------------- MODULE Authorization ----------------------------
(***************************************************************************)
(* The site-authorization example and the generated Kafka code under it:   *)
(* clients publish a request and wait for the response that carries their  *)
(* correlation ID; servers answer what they read from the same topic.      *)
(*                                                                         *)
(* The broker and the client library are external: topics of partitions,   *)
(* consumer groups that are rebalanced when a member comes or goes, and    *)
(* polls that make what the previous poll returned committable.            *)
(***************************************************************************)
EXTENDS Naturals, FiniteSets, SequencesExt

CONSTANTS
  Clients, Servers,  \* processes; a server that ends is started again as another of Servers
  Envs, Dev,         \* values of -env; Dev is "development"
  Partitions, Ids,
  Worlds,            \* [env: Clients -> Envs, id: Clients -> Ids, serverEnv: Servers -> Envs,
                     \*  partitions: how many a topic has, glitch: BOOLEAN,
                     \*  faults: the kinds of faults that happen]; env is Nil for no process
  MaxFaults, Nil

ASSUME PartitionsAssumption == Partitions \subseteq Nat

ASSUME WorldsAssumption ==
  /\ Dev \in Envs
  /\ \A w \in Worlds :
       /\ w.env \in [Clients -> Envs \cup {Nil}] /\ w.id \in [Clients -> Ids]
       /\ w.serverEnv \in [Servers -> Envs \cup {Nil}]
       /\ 1 .. w.partitions \subseteq Partitions

VARIABLES
  world,
  log,        \* the records of every topic and partition
  committed,  \* offsets of the groups
  owner,      \* which member of a group has a partition
  member,     \* what a member of a group has fetched
  client, server,
  faults      \* the faults so far

vars == <<world, log, committed, owner, member, client, server, faults>>

(* A client is a member twice, for the operation it publishes with has a   *)
(* subscriber as well.                                                     *)
Publishing(c) == <<c, "publishing">>
Awaiting(c)   == <<c, "awaiting">>
Serving(s)    == <<s, "serving">>
Members == {Publishing(c) : c \in Clients} \cup {Awaiting(c) : c \in Clients}
             \cup {Serving(s) : s \in Servers}
Groups == {"client", "server"} \X Envs

ASSUME NilAssumption == Nil \notin Members

GroupOf(m) == IF m[2] = "serving" THEN <<"server", world.serverEnv[m[1]]>>
                                  ELSE <<"client", world.env[m[1]]>>

AuthChannelAddress(env) == <<"authChannel", env>>

(* The environment of the channel a client reads from is not that of -env. *)
TopicOf(g) == AuthChannelAddress(IF g[1] = "server" THEN g[2] ELSE Dev)

Idle == [in |-> FALSE, pos |-> [p \in Partitions |-> 0], head |-> [p \in Partitions |-> 0],
         batch |-> <<>>, cancelled |-> FALSE]

Init ==
  /\ world \in Worlds
  /\ log = [t \in {AuthChannelAddress(e) : e \in Envs} |-> [p \in Partitions |-> <<>>]]
  /\ committed = [g \in Groups |-> [p \in Partitions |-> 0]]
  /\ owner = [g \in Groups |-> [p \in Partitions |-> Nil]]
  /\ member = [m \in Members |-> Idle]
  /\ client = [c \in Clients |-> [pc |-> "idle", got |-> Nil]]
  /\ server = [s \in Servers |-> [pc |-> "idle", todo |-> <<>>]]
  /\ faults = <<>>

-----------------------------------------------------------------------------
(* Broker and library.                                                     *)

InUse == 1 .. world.partitions

(* Send: the producer picks the partition. *)
Send(t, r) == {[log EXCEPT ![t][p] = Append(@, r)] : p \in InUse}

MembersOf(g) == {m \in Members : member[m].in /\ GroupOf(m) = g}

(* Partitions are shared out evenly. *)
Share(f, m) == Cardinality({p \in InUse : f[p] = m})

Assignments(ms) ==
  IF ms = {} THEN {[p \in Partitions |-> Nil]}
  ELSE {f \in [Partitions -> ms \cup {Nil}] :
          /\ \A p \in Partitions : (f[p] = Nil) <=> (p \notin InUse)
          /\ \A m, n \in ms : Share(f, m) <= Share(f, n) + 1}

(* Group g goes to members ms: who loses a partition commits what it may   *)
(* (a process that died cannot), and who gets one starts from there.       *)
Rebalance(g, ms, alive, as) ==
  \E f \in Assignments(ms) :
    LET old == owner[g]
        lost(p) == old[p] # Nil /\ old[p] # f[p] /\ old[p] \in alive
        offsets == [p \in Partitions |-> IF lost(p) THEN member[old[p]].head[p] ELSE committed[g][p]]
        start(m, q, p) == IF f[p] = m /\ old[p] # m THEN offsets[p] ELSE q[p]
    IN /\ owner' = [owner EXCEPT ![g] = f]
       /\ committed' = [committed EXCEPT ![g] = offsets]
       /\ member' = [m \in Members |->
            IF m \in ms THEN [as[m] EXCEPT !.pos = [p \in Partitions |-> start(m, @, p)],
                                           !.head = [p \in Partitions |-> start(m, @, p)]]
                        ELSE as[m]]

Subscriber(m) ==
  LET g == GroupOf(m)
  IN Rebalance(g, MembersOf(g) \cup {m}, MembersOf(g), [member EXCEPT ![m] = [Idle EXCEPT !.in = TRUE]])

Close(m) ==
  LET g == GroupOf(m)
  IN Rebalance(g, MembersOf(g) \ {m}, MembersOf(g), [member EXCEPT ![m] = Idle])

Unread(m, p) ==
  owner[GroupOf(m)][p] = m /\ member[m].pos[p] < Len(log[TopicOf(GroupOf(m))][p])

(* A poll returns what there is in a partition. *)
Polled(m, p) ==
  LET all == log[TopicOf(GroupOf(m))][p]
  IN [member[m] EXCEPT !.head = member[m].pos, !.pos[p] = Len(all),
                       !.batch = SubSeq(all, member[m].pos[p] + 1, Len(all))]

(* What a server's poll makes committable is committed by a timer or not   *)
(* before the process dies.  Who leaves or loses a partition commits it,   *)
(* so the timer of a client, which always leaves, makes no difference.     *)
Commits(m, head) ==
  LET g == GroupOf(m)
  IN IF m[2] # "serving" THEN committed' = committed
     ELSE committed' \in {committed,
       [committed EXCEPT ![g] = [p \in Partitions |-> IF owner[g][p] = m THEN head[p] ELSE @[p]]]}

Fault(kind) ==
  /\ kind \in world.faults /\ Len(faults) < MaxFaults
  /\ faults' = Append(faults, kind)

-----------------------------------------------------------------------------
(* SubscribeChannel.Receive: poll, then the callback for every record      *)
(* unless the context is done meanwhile.                                   *)

Poll(m) ==
  /\ member[m].in /\ member[m].batch = <<>> /\ ~member[m].cancelled
  /\ \E p \in Partitions : Unread(m, p) /\ member' = [member EXCEPT ![m] = Polled(m, p)]
  /\ Commits(m, member[m].pos)
  /\ UNCHANGED <<world, log, owner, client, server, faults>>

NextRecord(m) == Head(member[m].batch)

Consumed(m) == [member EXCEPT ![m].batch = Tail(@)]

(* The envelope is sealed for the topic of the channel. *)
Record(type, id, of) == [type |-> type, id |-> id, of |-> of]

AuthRequestMsg(c) == Record("AuthRequest", world.id[c], c)

AuthResponseMsg(id, of) == Record("AuthResponse", id, of)

Publish(env, r) == Send(AuthChannelAddress(env), r)

Unmarshals(r) == r.type # "garbage"

(* The type is a field of the payload. *)
IsAuthRequest(r) == Unmarshals(r) /\ r.type = "AuthRequest"

CorrelationID(r) == r.id

(* A publisher keeps no state, but the channel has a subscriber too. *)
OpenAuthChannel(m) == Subscriber(m)

CloseAuthChannel(m) == Close(m)

(* The records that are left are skipped.  The next poll returns the error *)
(* of the context, but it has made the whole batch committable.            *)
Cancelled(m) ==
  [member EXCEPT ![m].batch = <<>>, ![m].cancelled = TRUE, ![m].head = member[m].pos]

-----------------------------------------------------------------------------
(* client.go *)

OpenRequest(c) ==
  /\ client[c].pc = "idle" /\ world.env[c] # Nil
  /\ client' = [client EXCEPT ![c].pc = "publishing"]
  /\ OpenAuthChannel(Publishing(c))
  /\ UNCHANGED <<world, log, server, faults>>

(* Mutant: the operation is not closed. *)
MakeAuthRequestLeftOpen(c) ==
  /\ client[c].pc = "publishing"
  /\ log' \in Publish(world.env[c], AuthRequestMsg(c))
  /\ client' = [client EXCEPT ![c].pc = "published"]
  /\ UNCHANGED <<world, committed, owner, member, server, faults>>

MakeAuthRequest(c) ==
  /\ client[c].pc = "publishing"
  /\ log' \in Publish(world.env[c], AuthRequestMsg(c))
  /\ client' = [client EXCEPT ![c].pc = "published"]
  /\ CloseAuthChannel(Publishing(c))
  /\ UNCHANGED <<world, server, faults>>

RequestFails(c) ==
  /\ client[c].pc = "publishing"
  /\ Fault("publish")
  /\ client' = [client EXCEPT ![c].pc = "failed"]
  /\ CloseAuthChannel(Publishing(c))
  /\ UNCHANGED <<world, log, server>>

AwaitAuthResponse(c) ==
  /\ client[c].pc = "published"
  /\ client' = [client EXCEPT ![c].pc = "awaiting"]
  /\ OpenAuthChannel(Awaiting(c))
  /\ UNCHANGED <<world, log, server, faults>>

(* Mutant: the correlation ID is not looked at. *)
IsAnswerOfAnyone(c, r) == r.type = "AuthResponse"

IsAnswer(c, r) == r.type = "AuthResponse" /\ CorrelationID(r) = world.id[c]

Waiting(c) == client[c].pc = "awaiting" /\ member[Awaiting(c)].batch # <<>>

Ignore(c) ==
  /\ Waiting(c)
  /\ LET r == NextRecord(Awaiting(c)) IN Unmarshals(r) /\ ~IsAnswer(c, r)
  /\ member' = Consumed(Awaiting(c))
  /\ UNCHANGED <<world, log, committed, owner, client, server, faults>>

GetAnswer(c) ==
  /\ Waiting(c)
  /\ LET r == NextRecord(Awaiting(c))
     IN /\ Unmarshals(r) /\ IsAnswer(c, r)
        /\ client' = [client EXCEPT ![c] = [pc |-> "answered", got |-> r]]
  /\ member' = Cancelled(Awaiting(c))
  /\ UNCHANGED <<world, log, committed, owner, server, faults>>

(* SubscribeAuthResponseMsg ends with the error of the message. *)
UnsealFails(c) ==
  /\ Waiting(c) /\ ~Unmarshals(NextRecord(Awaiting(c)))
  /\ client' = [client EXCEPT ![c].pc = "unsealed"]
  /\ member' = Cancelled(Awaiting(c))
  /\ UNCHANGED <<world, log, committed, owner, server, faults>>

CloseSubscriber(c) ==
  /\ client[c].pc \in {"answered", "unsealed"}
  /\ client' = [client EXCEPT ![c].pc = IF @ = "answered" THEN "done" ELSE "failed"]
  /\ CloseAuthChannel(Awaiting(c))
  /\ UNCHANGED <<world, log, server, faults>>

FetchFails(c) ==
  /\ client[c].pc = "awaiting" /\ member[Awaiting(c)].batch = <<>>
  /\ Fault("fetch")
  /\ client' = [client EXCEPT ![c].pc = "failed"]
  /\ CloseAuthChannel(Awaiting(c))
  /\ UNCHANGED <<world, log, server>>

-----------------------------------------------------------------------------
(* server.go *)

(* One server of an environment at a time. *)
StartServer(s) ==
  /\ server[s].pc = "idle" /\ world.serverEnv[s] # Nil
  /\ \A x \in Servers : world.serverEnv[x] = world.serverEnv[s] => server[x].pc \in {"idle", "gone"}
  /\ server' = [server EXCEPT ![s].pc = "serving"]
  /\ OpenAuthChannel(Serving(s))
  /\ UNCHANGED <<world, log, client, faults>>

(* In glitch mode a response of another type or with an ID drawn anew      *)
(* goes before the right one.                                              *)
Responses(r) ==
  LET echo == AuthResponseMsg(CorrelationID(r), r.of)
  IN IF world.glitch
     THEN {<<Record("foo", r.id, Nil), echo>>} \cup {<<AuthResponseMsg(i, Nil), echo>> : i \in Ids}
     ELSE {<<echo>>}

Reading(s) == server[s].pc = "serving" /\ server[s].todo = <<>> /\ member[Serving(s)].batch # <<>>

(* Its own responses, and what it cannot unseal. *)
IgnoreOthers(s) ==
  /\ Reading(s) /\ ~IsAuthRequest(NextRecord(Serving(s)))
  /\ member' = Consumed(Serving(s))
  /\ UNCHANGED <<world, log, committed, owner, client, server, faults>>

HandleAuthRequest(s) ==
  /\ Reading(s) /\ IsAuthRequest(NextRecord(Serving(s)))
  /\ \E rs \in Responses(NextRecord(Serving(s))) : server' = [server EXCEPT ![s].todo = rs]
  /\ member' = Consumed(Serving(s))
  /\ UNCHANGED <<world, log, committed, owner, client, faults>>

PublishResponse(s) ==
  /\ server[s].pc = "serving" /\ server[s].todo # <<>>
  /\ log' \in Publish(world.serverEnv[s], Head(server[s].todo))
  /\ server' = [server EXCEPT ![s].todo = Tail(@)]
  /\ UNCHANGED <<world, committed, owner, member, client, faults>>

(* Mutant: the error is printed and the server goes on. *)
PublishErrorIgnored(s) ==
  /\ server[s].pc = "serving" /\ server[s].todo # <<>>
  /\ "publish" \in world.faults
  /\ server' = [server EXCEPT ![s].todo = <<>>]
  /\ UNCHANGED <<world, log, committed, owner, member, client, faults>>

(* The loop ends and so does the process, without leaving the group. *)
PublishFails(s) ==
  /\ server[s].pc = "serving" /\ server[s].todo # <<>>
  /\ Fault("publish")
  /\ server' = [server EXCEPT ![s] = [pc |-> "dead", todo |-> <<>>]]
  /\ member' = Cancelled(Serving(s))
  /\ Commits(Serving(s), member[Serving(s)].pos)
  /\ UNCHANGED <<world, log, owner, client>>

ServerCrashes(s) ==
  /\ server[s].pc = "serving"
  /\ Fault("crash")
  /\ server' = [server EXCEPT ![s] = [pc |-> "dead", todo |-> <<>>]]
  /\ UNCHANGED <<world, log, committed, owner, member, client>>

(* The group misses the heartbeats of a dead process. *)
SessionExpires(s) ==
  LET m == Serving(s) g == GroupOf(m)
  IN /\ server[s].pc = "dead"
     /\ server' = [server EXCEPT ![s].pc = "gone"]
     /\ Rebalance(g, MembersOf(g) \ {m}, MembersOf(g) \ {m}, [member EXCEPT ![m] = Idle])
     /\ UNCHANGED <<world, log, client, faults>>

Garbage ==
  /\ Fault("garbage")
  /\ log' \in Publish(Dev, Record("garbage", Nil, Nil))
  /\ UNCHANGED <<world, committed, owner, member, client, server>>

-----------------------------------------------------------------------------
Alive(m) == m[2] = "awaiting" \/ (m[2] = "serving" /\ server[m[1]].pc = "serving" /\ server[m[1]].todo = <<>>)

ClientStep(c) ==
  \/ MakeAuthRequest(c) \/ AwaitAuthResponse(c) \/ Ignore(c) \/ GetAnswer(c)
  \/ UnsealFails(c) \/ CloseSubscriber(c)

ServerStep(s) ==
  \/ StartServer(s) \/ IgnoreOthers(s) \/ HandleAuthRequest(s) \/ PublishResponse(s)
  \/ SessionExpires(s)

Next ==
  \/ \E c \in Clients : OpenRequest(c) \/ ClientStep(c) \/ RequestFails(c) \/ FetchFails(c)
  \/ \E s \in Servers : ServerStep(s) \/ PublishFails(s) \/ ServerCrashes(s)
  \/ \E m \in Members : Alive(m) /\ Poll(m)
  \/ Garbage

(* Processes that can run do, dead members are noticed, dead servers are   *)
(* started again, and a member with something to read polls it.            *)
Fairness ==
  /\ \A c \in Clients : WF_vars(ClientStep(c))
  /\ \A s \in Servers : WF_vars(ServerStep(s))
  /\ \A m \in Members : WF_vars(Alive(m) /\ Poll(m))

Spec == Init /\ [][Next]_vars /\ Fairness

-----------------------------------------------------------------------------
(* Whatever a client is told comes from its own request, unless two        *)
(* correlation IDs are equal: the draw of another client, or the one of a  *)
(* glitch.                                                                 *)
EndsWithOwnAnswer ==
  \A c \in Clients :
    client[c].pc \in {"answered", "done"} /\ client[c].got.of # c =>
      world.glitch \/ \E x \in Clients \ {c} : world.id[x] = world.id[c]

(* A request that the server's group will not read again was answered, or  *)
(* the server ended over it: crashes between polls, commits, callbacks and *)
(* publishing only repeat answers.                                         *)
Answered(c) ==
  \E t \in DOMAIN log, p \in Partitions : AuthResponseMsg(world.id[c], c) \in ToSet(log[t][p])

NoRequestIsForgotten ==
  \A e \in Envs, p \in Partitions : \A i \in 1 .. committed[<<"server", e>>][p] :
    LET r == log[AuthChannelAddress(e)][p][i]
    IN r.type = "AuthRequest" => Answered(r.of) \/ "publish" \in ToSet(faults)

(* A client that is alone in its consumer group gets its answer, when its  *)
(* environment is the one its answers are read from: whatever crashes.     *)
Alone(c) == \A x \in Clients \ {c} : world.env[x] # world.env[c]

ClientsAreAnswered ==
  \A c \in Clients :
    (client[c].pc = "published" /\ Alone(c) /\ world.env[c] = Dev) ~>
      (client[c].pc \in {"done", "failed"} \/ "publish" \in ToSet(faults))
=============================================================================
