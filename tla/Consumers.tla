------------------------------ MODULE Consumers ------------------------------
(***************************************************************************)
(* The server side of the generated http and ws code: a ConsumeClient is a *)
(* ServeMux; Subscriber opens an address on it, handlers of the requests   *)
(* run in goroutines of their own, and one RWMutex is between them.  http  *)
(* calls a callback from a ring (asyncapi/proto/http of the http-server    *)
(* example); ws hands an upgraded connection to a waiting Subscriber       *)
(* (codeextra/ws/gobwas-ws).  world.kind says which of the two runs.       *)
(***************************************************************************)
EXTENDS Ring, FiniteSets

CONSTANTS
  Users,     \* calls of Subscriber and what the application does with it
  Requests,
  Channels,  \* the addresses; Root is one of them
  Root, 
  Worlds     \* what the application asks for, see the MC module

ASSUME NilAssumption == Nil \notin Users \cup {"caller", "message", "unseal"}

VARIABLES
  world,
  lock,      \* the RWMutex
  handlers,  \* ServeMux: what the first Subscriber of an address registered
  rings,     \* http: subscribers
  user, request,
  stopped,   \* the context of the server is done
  crashed

serverVars == <<world, lock, handlers, rings, user, request, stopped, crashed>>

Http == world.kind = "http"
Ws   == world.kind = "ws"
Addr(u) == world.users[u].address

-----------------------------------------------------------------------------
(* sync.RWMutex.  A writer that waits keeps new readers out (parked) and   *)
(* waits for those inside; its Unlock lets all the parked in.              *)
Free == [readers |-> {}, parked |-> {}, writer |-> Nil]

RLocked(l, r) == IF l.writer = Nil THEN [l EXCEPT !.readers = @ \cup {r}]
                                   ELSE [l EXCEPT !.parked = @ \cup {r}]

RUnlocked(l, r) == [l EXCEPT !.readers = @ \ {r}]

Unlocked(l) == [readers |-> l.parked, parked |-> {}, writer |-> Nil]

-----------------------------------------------------------------------------
NoRequest == [pc |-> "none", path |-> Root, cred |-> Nil, good |-> FALSE, by |-> Nil, status |-> ""]

ServerInit ==
  /\ world \in Worlds
  /\ lock = Free
  /\ handlers = [c \in Channels |-> Nil]
  /\ rings = [c \in Channels |-> NewRing]
  /\ user = [u \in Users |-> [pc |-> "idle", cancelledBy |-> Nil, err |-> Nil, result |-> Nil]]
  /\ request = [r \in Requests |-> NoRequest]
  /\ stopped = FALSE
  /\ crashed = FALSE

(* The security of the operation overrides that of the server. *)
Security(u) ==
  IF world.users[u].security.scheme # "none" THEN world.users[u].security
                                             ELSE world.security

Registered(u) ==
  IF handlers[Addr(u)] # Nil THEN handlers
  ELSE [handlers EXCEPT ![Addr(u)] =
          [method |-> world.users[u].method, security |-> Security(u)]]

CallSubscriber(u) ==
  /\ user[u].pc = "idle" /\ Addr(u) # Nil
  /\ lock.writer = Nil
  /\ lock' = [lock EXCEPT !.writer = u]
  /\ user' = [user EXCEPT ![u].pc = "locking"]
  /\ UNCHANGED <<world, handlers, rings, request, stopped, crashed>>

(* http: the whole method runs under the lock. *)
Subscriber(u) ==
  /\ Http /\ user[u].pc = "locking" /\ lock.readers = {}
  /\ handlers' = Registered(u)
  /\ lock' = Unlocked(lock)
  /\ user' = [user EXCEPT ![u].pc = "open"]
  /\ UNCHANGED <<world, rings, request, stopped, crashed>>

(* ws: only ensureChannel does, the map is read again outside. *)
EnterEnsure(u) ==
  /\ Ws /\ user[u].pc = "locking" /\ lock.readers = {}
  /\ user' = [user EXCEPT ![u].pc = "writing"]
  /\ UNCHANGED <<world, lock, handlers, rings, request, stopped, crashed>>

LeaveEnsure(u) ==
  /\ user[u].pc = "writing"
  /\ handlers' = Registered(u)
  /\ lock' = Unlocked(lock)
  /\ user' = [user EXCEPT ![u].pc = "reading"]
  /\ UNCHANGED <<world, rings, request, stopped, crashed>>

(* Go may stop a program that reads a map while another goroutine writes.  *)
Writes(u) == user[u].pc = "writing" /\ handlers[Addr(u)] = Nil

ReadConnections(u) ==
  /\ user[u].pc = "reading"
  /\ user' = [user EXCEPT ![u].pc = "accepting"]
  /\ crashed' \in {FALSE, \E v \in Users : Writes(v)}
  /\ UNCHANGED <<world, lock, handlers, rings, request, stopped>>

-----------------------------------------------------------------------------
(* http: Receive, and SubscribeServerRequest around it when typed.         *)

Receive(u) ==
  /\ user[u].pc = "open"
  /\ rings' = [rings EXCEPT ![Addr(u)] = Appended(@, u)]
  /\ user' = [user EXCEPT ![u].pc = "receiving"]
  /\ UNCHANGED <<world, lock, handlers, request, stopped, crashed>>

Cancel(u) ==
  /\ user[u].pc \in {"open", "receiving", "accepting"} /\ user[u].cancelledBy = Nil
  /\ user' = [user EXCEPT ![u].cancelledBy = "caller"]
  /\ UNCHANGED <<world, lock, handlers, rings, request, stopped, crashed>>

StopReceiving(u) ==
  /\ user[u].pc = "receiving" /\ user[u].cancelledBy # Nil
  /\ rings' = [rings EXCEPT ![Addr(u)] = Removed(@, u)]
  /\ user' = [user EXCEPT ![u].pc = "removed"]
  /\ UNCHANGED <<world, lock, handlers, request, stopped, crashed>>

(* err is read while a callback may be writing its two words. *)
Written(u) == \E r \in Requests : request[r].pc = "failing" /\ request[r].by = u

Results(u) ==
  IF user[u].err # Nil THEN {"unseal"}
  ELSE IF Written(u) THEN {"context", "unseal", "torn"} ELSE {"context"}

Return(u) ==
  /\ user[u].pc = "removed"
  /\ \E res \in Results(u) :
       user' = [user EXCEPT ![u].pc = "done", ![u].result = res]
  /\ UNCHANGED <<world, lock, handlers, rings, request, stopped, crashed>>

-----------------------------------------------------------------------------
(* Handlers.                                                               *)

(* ServeMux: "/" also takes what no other pattern matches. *)
Pattern(path) ==
  IF handlers[path] # Nil THEN path ELSE IF handlers[Root] # Nil THEN Root ELSE Nil

CheckSecurity(cred, sec) ==
  CASE sec.scheme = "none"     -> ""
    [] cred = Nil              -> "401"
    [] sec.scheme = "basic"    -> IF cred = [user |-> sec.user, password |-> sec.key] THEN "" ELSE "401"
    [] sec.scheme = "user"     -> IF cred.user = sec.key THEN "" ELSE "401"
    [] sec.scheme = "password" -> IF cred.password = sec.key THEN "" ELSE "401"
    [] OTHER                   -> "500"

Refusal(q) ==
  LET h == handlers[Pattern(q.path)]
  IN CASE Pattern(q.path) = Nil                      -> "404"
       [] h.method \notin {"", q.method}             -> "405"
       [] OTHER                                      -> CheckSecurity(q.cred, h.security)

Answer(r, status) == [request EXCEPT ![r].pc = "answered", ![r].status = status]

(* A request with method, path, credentials and a payload or handshake    *)
(* that is good or not, up to the RLock of its handler.                    *)
Arrive(r, q) ==
  LET pattern == Pattern(q.path)
  IN /\ request[r].pc = "none"
     /\ IF Refusal(q) # ""
        THEN request' = [Answer(r, Refusal(q)) EXCEPT ![r].cred = q.cred] /\ UNCHANGED lock
        ELSE /\ request' = [request EXCEPT ![r] =
                  [NoRequest EXCEPT !.pc = "entering", !.path = pattern, !.cred = q.cred, !.good = q.good]]
             /\ lock' = RLocked(lock, r)
     /\ UNCHANGED <<world, handlers, rings, user, stopped, crashed>>

(* Mutant: the read lock is kept when there are no subscribers. *)
NextCallbackKeepsLock(r) ==
  LET ring == rings[request[r].path]
  IN /\ Http /\ request[r].pc = "entering" /\ r \in lock.readers
     /\ rings' = [rings EXCEPT ![request[r].path] = Advanced(@)]
     /\ IF ring.iter = Nil
        THEN request' = Answer(r, "503")
        ELSE request' = [request EXCEPT ![r].pc = "callback", ![r].by = ring.iter]
     /\ UNCHANGED <<world, lock, handlers, user, stopped, crashed>>

(* http: the callback whose turn it is. *)
NextCallback(r) ==
  LET ring == rings[request[r].path]
  IN /\ Http /\ request[r].pc = "entering" /\ r \in lock.readers
     /\ rings' = [rings EXCEPT ![request[r].path] = Advanced(@)]
     /\ IF ring.iter = Nil
        THEN request' = Answer(r, "503") /\ lock' = RUnlocked(lock, r)
        ELSE request' = [request EXCEPT ![r].pc = "callback", ![r].by = ring.iter] /\ UNCHANGED lock
     /\ UNCHANGED <<world, handlers, user, stopped, crashed>>

(* The callback answers, or only reads when it is typed.  Without a word   *)
(* from it the status is 200 all the same.                                 *)
CallbackReturns(r) ==
  /\ request[r].pc = "callback"
  /\ world.users[request[r].by].typed => request[r].good
  /\ ~world.users[request[r].by].opens
  /\ request' = Answer(r, "200")
  /\ lock' = RUnlocked(lock, r)
  /\ UNCHANGED <<world, handlers, rings, user, stopped, crashed>>

(* A typed subscription: the message cannot be unsealed, err is being set. *)
UnsealFails(r) ==
  /\ request[r].pc = "callback"
  /\ world.users[request[r].by].typed /\ ~request[r].good
  /\ request' = [request EXCEPT ![r].pc = "failing"]
  /\ UNCHANGED <<world, lock, handlers, rings, user, stopped, crashed>>

(* Mutant: the subscription is cancelled before the error is stored. *)
CancelFirst(r) ==
  /\ request[r].pc = "failing"
  /\ LET u == request[r].by
     IN IF user[u].cancelledBy = Nil
        THEN user' = [user EXCEPT ![u].cancelledBy = "message"] /\ UNCHANGED <<request, lock>>
        ELSE /\ user' = [user EXCEPT ![u].err = "unseal"]
             /\ request' = Answer(r, "200")
             /\ lock' = RUnlocked(lock, r)
  /\ UNCHANGED <<world, handlers, rings, stopped, crashed>>

CancelsSubscription(r) ==
  /\ request[r].pc = "failing"
  /\ user' = [user EXCEPT ![request[r].by].err = "unseal",
                          ![request[r].by].cancelledBy = IF @ = Nil THEN "message" ELSE @]
  /\ request' = Answer(r, "200")
  /\ lock' = RUnlocked(lock, r)
  /\ UNCHANGED <<world, handlers, rings, stopped, crashed>>

(* A callback that calls Subscriber itself.  Nothing follows: Lock waits   *)
(* for the readers, and the caller is one of them.                         *)
CallbackOpens(r) ==
  /\ request[r].pc = "callback" /\ world.users[request[r].by].opens
  /\ world.users[request[r].by].typed => request[r].good
  /\ request' = [request EXCEPT ![r].pc = "opening"]
  /\ UNCHANGED <<world, lock, handlers, rings, user, stopped, crashed>>

CallbackLocks(r) ==
  /\ request[r].pc = "opening" /\ lock.writer = Nil
  /\ lock' = [lock EXCEPT !.writer = r]
  /\ UNCHANGED <<world, handlers, rings, user, request, stopped, crashed>>

(* Mutant: the read lock is kept when the handshake fails. *)
UpgradeKeepsLock(r) ==
  /\ Ws /\ request[r].pc = "entering" /\ r \in lock.readers
  /\ request' = IF request[r].good THEN [request EXCEPT ![r].pc = "offering"] ELSE Answer(r, "500")
  /\ UNCHANGED <<world, lock, handlers, rings, user, stopped, crashed>>

(* ws: the handshake, and a connection offered under the read lock. *)
Upgrade(r) ==
  /\ Ws /\ request[r].pc = "entering" /\ r \in lock.readers
  /\ IF request[r].good
     THEN request' = [request EXCEPT ![r].pc = "offering"] /\ UNCHANGED lock
     ELSE request' = Answer(r, "500") /\ lock' = RUnlocked(lock, r)
  /\ UNCHANGED <<world, handlers, rings, user, stopped, crashed>>

Accept(u, r) ==
  /\ user[u].pc = "accepting" /\ request[r].pc = "offering"
  /\ request[r].path = Addr(u)
  /\ user' = [user EXCEPT ![u].pc = "done", ![u].result = r]
  /\ request' = [Answer(r, "101") EXCEPT ![r].by = u]
  /\ lock' = RUnlocked(lock, r)
  /\ UNCHANGED <<world, handlers, rings, stopped, crashed>>

StopAccepting(u) ==
  /\ user[u].pc = "accepting" /\ user[u].cancelledBy # Nil
  /\ user' = [user EXCEPT ![u].pc = "done", ![u].result = "context"]
  /\ UNCHANGED <<world, lock, handlers, rings, request, stopped, crashed>>

(* The context of a request that was hijacked ends with that of the server.*)
StopServer ==
  /\ Ws /\ ~stopped /\ stopped' = TRUE
  /\ UNCHANGED <<world, lock, handlers, rings, user, request, crashed>>

CloseOffered(r) ==
  /\ stopped /\ request[r].pc = "offering"
  /\ request' = Answer(r, "closed")
  /\ lock' = RUnlocked(lock, r)
  /\ UNCHANGED <<world, handlers, rings, user, stopped, crashed>>

-----------------------------------------------------------------------------
UserStep(u) ==
  \/ Subscriber(u) \/ EnterEnsure(u) \/ LeaveEnsure(u) \/ ReadConnections(u)
  \/ Receive(u) \/ StopReceiving(u) \/ Return(u) \/ StopAccepting(u)

HandlerStep(r) ==
  \/ NextCallback(r) \/ CallbackReturns(r) \/ UnsealFails(r)
  \/ CancelsSubscription(r) \/ CallbackOpens(r) \/ CallbackLocks(r) \/ Upgrade(r) \/ CloseOffered(r)
  \/ \E u \in Users : Accept(u, r)

ServerStep ==
  \/ \E u \in Users : CallSubscriber(u) \/ Cancel(u) \/ UserStep(u)
  \/ \E r \in Requests : HandlerStep(r)
  \/ StopServer

(* What the scheduler owes: goroutines that can run do, and callbacks      *)
(* return.  When to subscribe, cancel or stop is the application's choice. *)
ServerFairness ==
  /\ \A u \in Users : WF_serverVars(UserStep(u) /\ ~crashed)
  /\ \A r \in Requests : WF_serverVars(HandlerStep(r) /\ ~crashed)

-----------------------------------------------------------------------------
(* A subscription that ends because a message could not be unsealed says   *)
(* so, although err is written by a handler and read by the subscriber     *)
(* without a lock: cancel orders the two.                                  *)
UnsealErrorIsReported ==
  \A u \in Users :
    user[u].pc = "done" /\ user[u].cancelledBy = "message" => user[u].result = "unseal"

(* The callbacks of an address take turns. *)
Abs == INSTANCE RingAbs WITH Rings <- Channels, Elements <- Users,
                             turns <- [c \in Channels |-> Turns(rings[c])]
TakesTurns == Abs!Spec

(* http: every request is answered, however slow the subscribers come and  *)
(* go, as long as no callback opens a channel.                             *)
SomeCallbackOpens == \E u \in Users : Addr(u) # Nil /\ world.users[u].opens

RequestsAreAnswered ==
  \A r \in Requests :
    (request[r].pc # "none" /\ Http /\ ~SomeCallbackOpens) ~> (request[r].pc = "answered")

(* A call of Subscriber gets the lock, unless a callback opens a channel   *)
(* or a connection is offered: those two alone hold the read lock without  *)
(* bound, whatever fails in a handler.                                     *)
LockIsReleased ==
  \A u \in Users :
    (user[u].pc = "locking") ~>
      (user[u].pc # "locking" \/ crashed
         \/ \E r \in Requests : request[r].pc \in {"opening", "offering"})

(* "Wait for a new connection" (ws consume.tmpl:45): a Subscriber that is  *)
(* called gets the connection that is offered on its address.              *)
CallsGetWhatIsOffered ==
  \A u \in Users, r \in Requests :
    (user[u].pc = "locking" /\ request[r].pc = "offering" /\ request[r].path = Addr(u))
      ~> (user[u].pc # "locking" \/ request[r].pc # "offering" \/ crashed)
=============================================================================
