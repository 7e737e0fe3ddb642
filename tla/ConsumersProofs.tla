--------------------------- MODULE ConsumersProofs ---------------------------
(***************************************************************************)
(* The generated http server and the clients of the http-server example:   *)
(* what a subscription ends with, what a request carries and when a        *)
(* payload is sent, and that the callbacks of an address take turns; for   *)
(* any number of subscribers, senders, requests and addresses.             *)
(***************************************************************************)
EXTENDS HttpEcho, RingProofs

-----------------------------------------------------------------------------
(* The inductive invariant *)

UserPcs ==
  {"idle", "locking", "writing", "reading", "accepting", "open", "receiving", "removed", "done"}

UsersInv ==
  user \in [Users -> [pc : UserPcs, cancelledBy : {Nil, "caller", "message"}, err : {Nil, "unseal"},
                      result : {Nil, "context", "unseal", "torn"} \cup Requests]]

IsRequest(q) ==
  q = [pc |-> q.pc, path |-> q.path, cred |-> q.cred, good |-> q.good, by |-> q.by, status |-> q.status]

RequestsInv ==
  request = [r \in Requests |-> request[r]] /\ \A r \in Requests : IsRequest(request[r])

(* http and ws do not mix: only http calls callbacks, only ws accepts. *)
KindInv ==
  /\ \A u \in Users : user[u].pc \in {"writing", "reading", "accepting"} => Ws
  /\ \A r \in Requests : request[r].pc \in {"callback", "failing"} => Http
  /\ \A u \in Users : user[u].cancelledBy = "message" => Http

(* http: a subscription ends by being cancelled, and when a message has    *)
(* cancelled it the error is there.                                        *)
EndInv ==
  \A u \in Users :
    /\ Http /\ user[u].pc \in {"removed", "done"} => user[u].cancelledBy # Nil
    /\ user[u].cancelledBy = "message" => user[u].err = "unseal"
    /\ user[u].cancelledBy = "message" /\ user[u].pc = "done" => user[u].result = "unseal"

(* In the ring of an address is who receives from it, once. *)
Receiving(c) == {u \in Users : user[u].pc = "receiving" /\ Addr(u) = c}

RingInv ==
  /\ rings = [c \in Channels |-> rings[c]]
  /\ \A c \in Channels : IsRing(rings[c], Users) /\ Members(rings[c]) = Receiving(c)

ServerInv == UsersInv /\ RequestsInv /\ KindInv /\ EndInv /\ RingInv

SendersInv ==
  /\ sender \in [Senders -> [pc : {"closed", "open", "sending", "waiting", "sent", "failed"}, at : Nat,
                             sends : Nat, drained : SUBSET Nat, request : Requests \cup {Nil}]]
  /\ \A s \in Senders : sender[s].pc # "closed" => Len(world.senders[s].envelopes) > 0

Origins == [envelope : [sender : Senders, at : Nat, call : Nat], full : BOOLEAN]

OriginInv ==
  /\ origin \in [Requests -> Origins \cup {Nil}]
  /\ \A r \in Requests : origin[r] # Nil => request[r].pc # "none"

(* The URL objects are those of the channels, unless the server's changes. *)
SecurityOf(s) == world.senders[s].security

UrlsInv ==
  /\ urls = [x \in Senders \cup {Server} |-> [user |-> urls[x].user]]
  /\ ~SomeoneChangesTheServer =>
       /\ urls[Server].user = Nil
       /\ \A s \in Senders : urls[s].user \in {Nil, ApplySecurity(SecurityOf(s), Nil)}

(* The envelopes of a call that have been posted are drained; those of an  *)
(* earlier call are other envelopes when the sender seals anew.            *)
CurrentCall(s) == IF world.senders[s].fresh THEN sender[s].sends ELSE 1

DrainedInv ==
  \A r \in Requests :
    origin[r] # Nil =>
      LET e == origin[r].envelope
      IN /\ e.call <= CurrentCall(e.sender)
         /\ e.call = CurrentCall(e.sender) => e.at \in sender[e.sender].drained

ClientInv ==
  SendersInv /\ OriginInv /\ UrlsInv /\ DrainedInv /\ CredentialsAreOwn /\ PayloadSentOnce

Inv == ServerInv /\ ClientInv

-----------------------------------------------------------------------------
(* Requests *)

Moved(r, pc) ==
  /\ RequestsInv'
  /\ \A x \in Requests \ {r} : request'[x] = request[x]
  /\ request'[r].pc = pc /\ request'[r].cred = request[r].cred

LEMMA Answers ==
  ASSUME RequestsInv, NEW r \in Requests, NEW status, request' = Answer(r, status)
  PROVE  Moved(r, "answered")
<1>1. PICK q : q = request[r] /\ IsRequest(q)
  BY DEF RequestsInv
<1>6. PICK old, path, cred, good, by, was :
        q = [pc |-> old, path |-> path, cred |-> cred, good |-> good, by |-> by, status |-> was]
  BY <1>1 DEF IsRequest
<1>2. PICK a : a = [pc |-> "answered", path |-> path, cred |-> cred, good |-> good, by |-> by, status |-> status]
  OBVIOUS
<1>3. IsRequest(a) /\ a.pc = "answered" /\ a.cred = q.cred
  BY <1>2, <1>6 DEF IsRequest
<1>4. request' = [request EXCEPT ![r] = a]
  <2>3. PICK b : b = [q EXCEPT !.pc = "answered"]
    OBVIOUS
  <2>4. b = [pc |-> "answered", path |-> path, cred |-> cred, good |-> good, by |-> by, status |-> was]
    BY <1>6, <2>3
  <2>5. [b EXCEPT !.status = status] = a
    BY <1>2, <2>4
  <2>1. [q EXCEPT !.pc = "answered", !.status = status] = a
    BY <2>3, <2>5
  <2>2. request' = [request EXCEPT ![r] = [@ EXCEPT !.pc = "answered", !.status = status]]
    BY DEF Answer
  <2> QED BY <1>1, <2>1, <2>2
<1>5. request = [x \in Requests |-> request[x]] /\ \A x \in Requests : IsRequest(request[x])
  BY DEF RequestsInv
<1> QED
  BY <1>1, <1>3, <1>4, <1>5 DEF Moved, RequestsInv

LEMMA Advances ==
  ASSUME RequestsInv, NEW r \in Requests, NEW pc, request' = [request EXCEPT ![r].pc = pc]
  PROVE  Moved(r, pc)
<1>1. PICK q : q = request[r] /\ IsRequest(q)
  BY DEF RequestsInv
<1>6. PICK old, path, cred, good, by, status :
        q = [pc |-> old, path |-> path, cred |-> cred, good |-> good, by |-> by, status |-> status]
  BY <1>1 DEF IsRequest
<1>2. PICK a : a = [pc |-> pc, path |-> path, cred |-> cred, good |-> good, by |-> by, status |-> status]
  OBVIOUS
<1>3. IsRequest(a) /\ a.pc = pc /\ a.cred = q.cred
  BY <1>2, <1>6 DEF IsRequest
<1>4. request' = [request EXCEPT ![r] = a]
  <2>1. [q EXCEPT !.pc = pc] = a
    BY <1>2, <1>6
  <2> QED BY <1>1, <2>1
<1>5. request = [x \in Requests |-> request[x]] /\ \A x \in Requests : IsRequest(request[x])
  BY DEF RequestsInv
<1> QED
  BY <1>1, <1>3, <1>4, <1>5 DEF Moved, RequestsInv

(* What becomes of a request that the server works on. *)
Kept ==
  \A r \in Requests :
    /\ request'[r].cred = request[r].cred
    /\ request[r].pc # "none" => request'[r].pc # "none"

LEMMA MovedIsKept ==
  ASSUME NEW r \in Requests, NEW pc, pc # "none", Moved(r, pc)
  PROVE  Kept
BY DEF Moved, Kept

-----------------------------------------------------------------------------
(* Users *)

UserStates ==
  [pc : UserPcs, cancelledBy : {Nil, "caller", "message"}, err : {Nil, "unseal"},
   result : {Nil, "context", "unseal", "torn"} \cup Requests]

(* User u becomes v, and the others stay what they are. *)
Becomes(u, v) ==
  /\ UsersInv'
  /\ user'[u] = v /\ \A x \in Users \ {u} : user'[x] = user[x]

LEMMA UserBecomes ==
  ASSUME UsersInv, NEW u \in Users, NEW v \in UserStates, user' = [user EXCEPT ![u] = v]
  PROVE  Becomes(u, v)
BY DEF UsersInv, UserStates, Becomes

LEMMA UserMoves ==
  ASSUME UsersInv, NEW u \in Users, NEW pc \in UserPcs, user' = [user EXCEPT ![u].pc = pc]
  PROVE  \E v \in UserStates :
           /\ Becomes(u, v) /\ v.pc = pc
           /\ v.cancelledBy = user[u].cancelledBy /\ v.err = user[u].err
           /\ v.result = user[u].result
<1>1. PICK w \in UserStates : w = user[u]
  BY DEF UsersInv, UserStates
<1>2. PICK v : v = [w EXCEPT !.pc = pc]
  OBVIOUS
<1>3. v \in UserStates /\ v.pc = pc /\ v.cancelledBy = w.cancelledBy /\ v.err = w.err /\ v.result = w.result
  BY <1>1, <1>2 DEF UserStates
<1>4. user' = [user EXCEPT ![u] = v]
  BY <1>1, <1>2
<1> QED
  BY <1>1, <1>3, <1>4, UserBecomes

LEMMA SameKind == ASSUME UNCHANGED world PROVE Http' = Http /\ Ws' = Ws /\ \A u : Addr(u)' = Addr(u)
BY DEF Http, Ws, Addr

LEMMA OneKind == ~(Http /\ Ws)
BY DEF Http, Ws

LEMMA RingsStay ==
  ASSUME RingInv, UNCHANGED <<world, rings>>,
         \A u \in Users : (user'[u].pc = "receiving") <=> (user[u].pc = "receiving")
  PROVE  RingInv'
<1>1. \A c : Receiving(c)' = Receiving(c)
  BY DEF Receiving, Addr
<1>2. \A c \in Channels : IsRing(rings[c], Users)' /\ Members(rings[c])' = Members(rings[c])
  BY DEF RingInv, IsRing, RingOK, Members
<1> QED
  BY <1>1, <1>2 DEF RingInv

(* A request is dealt with and no user is concerned. *)
LEMMA OnlyRequests ==
  ASSUME ServerInv, UNCHANGED <<world, user>>, RingInv', NEW r \in Requests, NEW pc, pc # "none",
         Moved(r, pc), pc \in {"callback", "failing"} => Http
  PROVE  ServerInv' /\ Kept
<1>1. UsersInv' /\ EndInv'
  BY SameKind DEF ServerInv, UsersInv, EndInv
<1>2. KindInv'
  <2>1. \A x \in Requests : request'[x].pc \in {"callback", "failing"} => Http'
    BY SameKind DEF ServerInv, KindInv, Moved
  <2> QED BY <2>1, SameKind DEF ServerInv, KindInv
<1> QED
  BY <1>1, <1>2, MovedIsKept DEF ServerInv, Moved

(* A user goes on, and no request is concerned. *)
LEMMA OnlyUsers ==
  ASSUME ServerInv, UNCHANGED <<world, request>>, RingInv', NEW u \in Users, NEW v \in UserStates,
         Becomes(u, v),
         v.pc \in {"writing", "reading", "accepting"} => Ws,
         Http /\ v.pc \in {"removed", "done"} => v.cancelledBy # Nil,
         v.cancelledBy = "message" =>
           /\ user[u].cancelledBy = "message" /\ v.err = user[u].err
           /\ v.pc = "done" => v.result = "unseal"
  PROVE  ServerInv' /\ Kept
<1>1. RequestsInv' /\ Kept
  BY DEF ServerInv, RequestsInv, Kept, IsRequest
<1>2. KindInv'
  BY SameKind DEF ServerInv, KindInv, Becomes
<1>3. EndInv'
  BY SameKind DEF ServerInv, EndInv, Becomes
<1> QED
  BY <1>1, <1>2, <1>3 DEF ServerInv, Becomes

LEMMA UserPcStep ==
  ASSUME ServerInv, UNCHANGED <<world, request, rings>>, NEW u \in Users, user[u].pc # "receiving",
         NEW pc \in UserPcs \ {"receiving", "removed", "done"}, user' = [user EXCEPT ![u].pc = pc],
         pc \in {"writing", "reading", "accepting"} => Ws
  PROVE  ServerInv' /\ Kept
<1>1. PICK v \in UserStates :
        /\ Becomes(u, v) /\ v.pc = pc
        /\ v.cancelledBy = user[u].cancelledBy /\ v.err = user[u].err
        /\ v.result = user[u].result
  BY UserMoves DEF ServerInv
<1>2. RingInv'
  BY <1>1, RingsStay DEF ServerInv, Becomes
<1> QED
  BY <1>1, <1>2, OnlyUsers

LEMMA SubscribeInv ==
  ASSUME ServerInv, NEW u \in Users,
         CallSubscriber(u) \/ Subscriber(u) \/ EnterEnsure(u) \/ LeaveEnsure(u) \/ ReadConnections(u)
  PROVE  ServerInv' /\ Kept
<1>1. CASE CallSubscriber(u)
  <2>1. /\ user[u].pc = "idle" /\ UNCHANGED <<world, request, rings>>
        /\ user' = [user EXCEPT ![u].pc = "locking"]
    BY <1>1 DEF CallSubscriber
  <2>2. "locking" \in UserPcs \ {"receiving", "removed", "done"}
    BY DEF UserPcs
  <2>3. "locking" \in {"writing", "reading", "accepting"} => Ws
    OBVIOUS
  <2> QED BY <2>1, <2>2, <2>3, UserPcStep
<1>2. CASE Subscriber(u)
  <2>1. /\ user[u].pc = "locking" /\ UNCHANGED <<world, request, rings>>
        /\ user' = [user EXCEPT ![u].pc = "open"]
    BY <1>2 DEF Subscriber
  <2>2. "open" \in UserPcs \ {"receiving", "removed", "done"}
    BY DEF UserPcs
  <2>3. "open" \in {"writing", "reading", "accepting"} => Ws
    OBVIOUS
  <2> QED BY <2>1, <2>2, <2>3, UserPcStep
<1>3. CASE EnterEnsure(u)
  BY <1>3, UserPcStep DEF EnterEnsure, UserPcs
<1>4. CASE LeaveEnsure(u)
  BY <1>4, UserPcStep DEF LeaveEnsure, UserPcs, ServerInv, KindInv
<1>5. CASE ReadConnections(u)
  BY <1>5, UserPcStep DEF ReadConnections, UserPcs, ServerInv, KindInv
<1> QED
  BY <1>1, <1>2, <1>3, <1>4, <1>5

(* The ring of one address changes with who receives from it. *)
LEMMA OneRing ==
  ASSUME RingInv, UNCHANGED world, NEW c, NEW ring, rings' = [rings EXCEPT ![c] = ring],
         c \in Channels => IsRing(ring, Users) /\ Members(ring) = Receiving(c)',
         \A d \in Channels \ {c} : Receiving(d)' = Receiving(d)
  PROVE  RingInv'
<1>1. rings = [d \in Channels |-> rings[d]]
  BY DEF RingInv
<1>2. ASSUME NEW d \in Channels
      PROVE  IsRing(rings'[d], Users) /\ Members(rings'[d]) = Receiving(d)'
  <2>1. CASE d = c
    BY <1>1, <2>1
  <2>2. CASE d # c
    <3>1. rings'[d] = rings[d]
      BY <1>1, <2>2
    <3> QED BY <2>2, <3>1 DEF RingInv
  <2> QED BY <2>1, <2>2
<1>3. rings' = [d \in Channels |-> rings'[d]]
  BY <1>1
<1>4. \A d \in Channels : IsRing(rings[d], Users)' /\ Members(rings[d])' = Receiving(d)'
  BY <1>2 DEF IsRing, RingOK, Members
<1> QED
  BY <1>3, <1>4 DEF RingInv

LEMMA ReceiveInv == ASSUME ServerInv, NEW u \in Users, Receive(u) PROVE ServerInv' /\ Kept
<1>1. /\ user[u].pc = "open" /\ user' = [user EXCEPT ![u].pc = "receiving"]
      /\ rings' = [rings EXCEPT ![Addr(u)] = Appended(rings[Addr(u)], u)]
      /\ UNCHANGED <<world, request>>
  BY DEF Receive
<1>2. PICK v \in UserStates :
        /\ Becomes(u, v) /\ v.pc = "receiving"
        /\ v.cancelledBy = user[u].cancelledBy /\ v.err = user[u].err
        /\ v.result = user[u].result
  BY <1>1, UserMoves DEF ServerInv, UserPcs
<1>3. PICK c : c = Addr(u)
  OBVIOUS
<1>4. \A d : Receiving(d)' = IF d = c THEN Receiving(d) \cup {u} ELSE Receiving(d)
  BY <1>1, <1>2, <1>3 DEF Receiving, Addr, Becomes
<1>5. PICK ring : ring = Appended(rings[c], u)
  OBVIOUS
<1>6. c \in Channels => IsRing(ring, Users) /\ Members(ring) = Receiving(c)'
  <2> SUFFICES ASSUME c \in Channels PROVE IsRing(ring, Users) /\ Members(ring) = Receiving(c)'
    OBVIOUS
  <2>1. IsRing(rings[c], Users) /\ u \notin Members(rings[c]) /\ Members(rings[c]) = Receiving(c)
    BY <1>1 DEF ServerInv, RingInv, Receiving
  <2>2. IsRing(ring, Users) /\ Members(ring) = Members(rings[c]) \cup {u}
    BY <1>5, <2>1, AppendedIsRing
  <2> QED BY <1>4, <2>1, <2>2
<1>7. RingInv'
  BY <1>1, <1>3, <1>4, <1>5, <1>6, OneRing DEF ServerInv
<1> QED
  BY <1>1, <1>2, <1>7, OnlyUsers

LEMMA StopReceivingInv == ASSUME ServerInv, NEW u \in Users, StopReceiving(u) PROVE ServerInv' /\ Kept
<1>1. /\ user[u].pc = "receiving" /\ user[u].cancelledBy # Nil
      /\ user' = [user EXCEPT ![u].pc = "removed"]
      /\ rings' = [rings EXCEPT ![Addr(u)] = Removed(rings[Addr(u)], u)]
      /\ UNCHANGED <<world, request>>
  BY DEF StopReceiving
<1>2. PICK v \in UserStates :
        /\ Becomes(u, v) /\ v.pc = "removed"
        /\ v.cancelledBy = user[u].cancelledBy /\ v.err = user[u].err
        /\ v.result = user[u].result
  BY <1>1, UserMoves DEF ServerInv, UserPcs
<1>3. PICK c : c = Addr(u)
  OBVIOUS
<1>4. \A d : Receiving(d)' = IF d = c THEN Receiving(d) \ {u} ELSE Receiving(d)
  BY <1>1, <1>2, <1>3 DEF Receiving, Addr, Becomes
<1>5. PICK ring : ring = Removed(rings[c], u)
  OBVIOUS
<1>6. c \in Channels => IsRing(ring, Users) /\ Members(ring) = Receiving(c)'
  <2> SUFFICES ASSUME c \in Channels PROVE IsRing(ring, Users) /\ Members(ring) = Receiving(c)'
    OBVIOUS
  <2>1. IsRing(rings[c], Users) /\ u \in Members(rings[c]) /\ Members(rings[c]) = Receiving(c)
    BY <1>1, <1>3 DEF ServerInv, RingInv, Receiving
  <2> QED BY <1>4, <1>5, <2>1, RemovedIsRing
<1>7. RingInv'
  BY <1>1, <1>3, <1>4, <1>5, <1>6, OneRing DEF ServerInv
<1> QED
  BY <1>1, <1>2, <1>7, OnlyUsers

LEMMA CancelInv == ASSUME ServerInv, NEW u \in Users, Cancel(u) PROVE ServerInv' /\ Kept
<1>1. /\ user[u].pc \in {"open", "receiving", "accepting"} /\ user[u].cancelledBy = Nil
      /\ user' = [user EXCEPT ![u].cancelledBy = "caller"]
      /\ UNCHANGED <<world, rings, request>>
  BY DEF Cancel
<1>2. PICK w \in UserStates : w = user[u]
  BY DEF ServerInv, UsersInv, UserStates
<1>3. PICK v : v = [w EXCEPT !.cancelledBy = "caller"]
  OBVIOUS
<1>4. v \in UserStates /\ v.pc = w.pc /\ v.cancelledBy = "caller"
  BY <1>2, <1>3 DEF UserStates
<1>5. Becomes(u, v)
  BY <1>1, <1>2, <1>3, <1>4, UserBecomes DEF ServerInv
<1>6. RingInv'
  BY <1>1, <1>2, <1>4, <1>5, RingsStay DEF ServerInv, Becomes
<1> QED
  BY <1>1, <1>2, <1>4, <1>5, <1>6, OnlyUsers DEF ServerInv, KindInv

LEMMA ReturnInv == ASSUME ServerInv, NEW u \in Users, Return(u) PROVE ServerInv' /\ Kept
<1>1. PICK res \in Results(u) : user' = [user EXCEPT ![u].pc = "done", ![u].result = res]
  BY DEF Return
<1>2. user[u].pc = "removed" /\ UNCHANGED <<world, rings, request>>
  BY DEF Return
<1>3. PICK w \in UserStates : w = user[u]
  BY DEF ServerInv, UsersInv, UserStates
<1>4. PICK v : v = [w EXCEPT !.pc = "done", !.result = res]
  OBVIOUS
<1>5. res \in {"context", "unseal", "torn"} /\ (w.err # Nil => res = "unseal")
  BY <1>3 DEF Results
<1>6. /\ v \in UserStates /\ v.pc = "done" /\ v.result = res
      /\ v.cancelledBy = w.cancelledBy /\ v.err = w.err
  BY <1>3, <1>4, <1>5 DEF UserStates, UserPcs
<1>7. Becomes(u, v)
  <2>1. user' = [user EXCEPT ![u] = v]
    BY <1>1, <1>3, <1>4
  <2> QED BY <1>6, <2>1, UserBecomes DEF ServerInv
<1>8. RingInv'
  BY <1>2, <1>6, <1>7, RingsStay DEF ServerInv, Becomes
<1>9. v.cancelledBy = "message" => v.result = "unseal"
  BY <1>3, <1>5, <1>6, NilAssumption DEF ServerInv, EndInv
<1>10. Http => v.cancelledBy # Nil
  BY <1>2, <1>3, <1>6 DEF ServerInv, EndInv
<1>11. v.pc \notin {"writing", "reading", "accepting"}
  BY <1>6
<1>12. v.cancelledBy = "message" => user[u].cancelledBy = "message" /\ v.err = user[u].err
  BY <1>3, <1>6
<1> QED
  BY <1>2, <1>6, <1>7, <1>8, <1>9, <1>10, <1>11, <1>12, OnlyUsers

LEMMA StopAcceptingInv == ASSUME ServerInv, NEW u \in Users, StopAccepting(u) PROVE ServerInv' /\ Kept
<1>1. /\ user[u].pc = "accepting" /\ user' = [user EXCEPT ![u].pc = "done", ![u].result = "context"]
      /\ UNCHANGED <<world, rings, request>>
  BY DEF StopAccepting
<1>2. PICK w \in UserStates : w = user[u]
  BY DEF ServerInv, UsersInv, UserStates
<1>3. PICK v : v = [w EXCEPT !.pc = "done", !.result = "context"]
  OBVIOUS
<1>4. v \in UserStates /\ v.pc = "done" /\ v.cancelledBy = w.cancelledBy
  BY <1>2, <1>3 DEF UserStates, UserPcs
<1>5. Becomes(u, v)
  <2>1. user' = [user EXCEPT ![u] = v]
    BY <1>1, <1>2, <1>3
  <2> QED BY <1>4, <2>1, UserBecomes DEF ServerInv
<1>6. RingInv'
  BY <1>1, <1>4, <1>5, RingsStay DEF ServerInv, Becomes
<1>7. ~Http /\ v.cancelledBy # "message"
  BY <1>1, <1>2, <1>4, OneKind DEF ServerInv, KindInv
<1> QED
  BY <1>1, <1>4, <1>5, <1>6, <1>7, OnlyUsers

-----------------------------------------------------------------------------
(* Handlers *)

LEMMA AcceptInv == ASSUME ServerInv, NEW u \in Users, NEW r \in Requests, Accept(u, r) PROVE ServerInv' /\ Kept
<1>1. /\ user[u].pc = "accepting" /\ user' = [user EXCEPT ![u].pc = "done", ![u].result = r]
      /\ request' = [Answer(r, "101") EXCEPT ![r].by = u]
      /\ UNCHANGED <<world, rings>>
  BY DEF Accept
<1>2. PICK w \in UserStates : w = user[u]
  BY DEF ServerInv, UsersInv, UserStates
<1>3. PICK v : v = [w EXCEPT !.pc = "done", !.result = r]
  OBVIOUS
<1>4. v \in UserStates /\ v.pc = "done" /\ v.cancelledBy = w.cancelledBy
  BY <1>2, <1>3 DEF UserStates, UserPcs
<1>5. Becomes(u, v)
  <2>1. user' = [user EXCEPT ![u] = v]
    BY <1>1, <1>2, <1>3
  <2> QED BY <1>4, <2>1, UserBecomes DEF ServerInv
<1>6. RingInv'
  BY <1>1, <1>4, <1>5, RingsStay, <1>2 DEF ServerInv, Becomes
<1>7. ~Http /\ w.cancelledBy # "message"
  BY <1>1, <1>2, OneKind DEF ServerInv, KindInv
<1>8. Moved(r, "answered")
  <2>1. PICK q, old, path, cred, good, by, was :
          q = request[r] /\ q = [pc |-> old, path |-> path, cred |-> cred, good |-> good, by |-> by, status |-> was]
    BY DEF ServerInv, RequestsInv, IsRequest
  <2>2. PICK a : a = [pc |-> "answered", path |-> path, cred |-> cred, good |-> good, by |-> u, status |-> "101"]
    OBVIOUS
  <2>3. IsRequest(a) /\ a.pc = "answered" /\ a.cred = q.cred
    BY <2>1, <2>2 DEF IsRequest
  <2>4. request = [x \in Requests |-> request[x]] /\ \A x \in Requests : IsRequest(request[x])
    BY DEF ServerInv, RequestsInv
  <2>5. PICK b : b = [pc |-> "answered", path |-> path, cred |-> cred, good |-> good, by |-> by, status |-> "101"]
    OBVIOUS
  <2>6. Answer(r, "101") = [request EXCEPT ![r] = b]
    <3>1. PICK d : d = [q EXCEPT !.pc = "answered"]
      OBVIOUS
    <3>2. d = [pc |-> "answered", path |-> path, cred |-> cred, good |-> good, by |-> by, status |-> was]
      BY <2>1, <3>1
    <3>3. [d EXCEPT !.status = "101"] = b
      BY <2>5, <3>2
    <3>4. [q EXCEPT !.pc = "answered", !.status = "101"] = b
      BY <3>1, <3>3
    <3>5. Answer(r, "101") = [request EXCEPT ![r] = [@ EXCEPT !.pc = "answered", !.status = "101"]]
      BY DEF Answer
    <3> QED BY <2>1, <3>4, <3>5
  <2>7. [b EXCEPT !.by = u] = a
    BY <2>2, <2>5
  <2>8. request' = [request EXCEPT ![r] = a]
    BY <1>1, <2>4, <2>6, <2>7
  <2> QED BY <2>1, <2>3, <2>4, <2>8 DEF Moved, RequestsInv
<1>9. KindInv'
  <2>1. \A x \in Users : user'[x].pc \in {"writing", "reading", "accepting"} => Ws'
    BY <1>1, <1>4, <1>5, SameKind DEF ServerInv, KindInv, Becomes
  <2>2. \A x \in Requests : request'[x].pc \in {"callback", "failing"} => Http'
    BY <1>1, <1>8, SameKind DEF ServerInv, KindInv, Moved
  <2>3. \A x \in Users : user'[x].cancelledBy = "message" => Http'
    BY <1>1, <1>2, <1>4, <1>5, <1>7, SameKind DEF ServerInv, KindInv, Becomes
  <2> QED BY <2>1, <2>2, <2>3 DEF KindInv
<1>10. EndInv'
  BY <1>1, <1>4, <1>5, <1>7, SameKind DEF ServerInv, EndInv, Becomes
<1> QED
  BY <1>5, <1>6, <1>8, <1>9, <1>10, MovedIsKept DEF ServerInv, Becomes, Moved

LEMMA CancelsSubscriptionInv == ASSUME ServerInv, NEW r \in Requests, CancelsSubscription(r) PROVE ServerInv' /\ Kept
<1>1. PICK u : u = request[r].by
  OBVIOUS
<1>2. /\ request[r].pc = "failing" /\ request' = Answer(r, "200")
      /\ user' = [user EXCEPT ![u].err = "unseal",
                               ![u].cancelledBy = IF user[u].cancelledBy = Nil THEN "message" ELSE user[u].cancelledBy]
      /\ UNCHANGED <<world, rings>>
  BY <1>1 DEF CancelsSubscription
<1>3. Http /\ Moved(r, "answered")
  BY <1>2, Answers DEF ServerInv, KindInv
<1>4. UsersInv' /\ EndInv' /\ \A x \in Users : user'[x].pc = user[x].pc
  <2>1. CASE u \notin Users
    <3>1. user' = user
      BY <1>2, <2>1 DEF ServerInv, UsersInv
    <3>2. UsersInv'
      BY <3>1 DEF ServerInv, UsersInv
    <3>3. EndInv'
      BY <1>2, <3>1, SameKind DEF ServerInv, EndInv
    <3> QED BY <3>1, <3>2, <3>3
  <2>2. CASE u \in Users
    <3>1. PICK w \in UserStates : w = user[u]
      BY <2>2 DEF ServerInv, UsersInv, UserStates
    <3>2. PICK by : by = IF w.cancelledBy = Nil THEN "message" ELSE w.cancelledBy
      OBVIOUS
    <3>3. PICK v : v = [w EXCEPT !.err = "unseal", !.cancelledBy = by]
      OBVIOUS
    <3>4. v \in UserStates /\ v.pc = w.pc /\ v.err = "unseal" /\ v.cancelledBy = by /\ v.result = w.result
      BY <3>1, <3>2, <3>3 DEF UserStates
    <3>5. Becomes(u, v)
      <4>1. user' = [user EXCEPT ![u] = v]
        BY <1>2, <3>1, <3>2, <3>3
      <4> QED BY <2>2, <3>4, <4>1, UserBecomes DEF ServerInv
    (* Who has ended was cancelled already. *)
    <3>6. /\ v.pc \in {"removed", "done"} => v.cancelledBy = w.cancelledBy /\ w.cancelledBy # Nil
      BY <1>3, <2>2, <3>1, <3>2, <3>4 DEF ServerInv, EndInv
    <3>7. v.cancelledBy = "message" /\ v.pc = "done" => v.result = "unseal"
      BY <2>2, <3>1, <3>4, <3>6 DEF ServerInv, EndInv
    <3>8. EndInv'
      <4>1. user'[u] = v /\ \A x \in Users \ {u} : user'[x] = user[x]
        BY <3>5 DEF Becomes
      <4>2. ASSUME NEW x \in Users
            PROVE  /\ Http' /\ user'[x].pc \in {"removed", "done"} => user'[x].cancelledBy # Nil
                   /\ user'[x].cancelledBy = "message" => user'[x].err = "unseal"
                   /\ user'[x].cancelledBy = "message" /\ user'[x].pc = "done" => user'[x].result = "unseal"
        <5>1. CASE x = u
          BY <3>4, <3>6, <3>7, <4>1, <5>1
        <5>2. CASE x # u
          <6>1. Http' = Http /\ user'[x] = user[x]
            BY <1>2, <4>1, <5>2, SameKind
          <6> QED BY <6>1 DEF ServerInv, EndInv
        <5> QED BY <5>1, <5>2
      <4> QED BY <4>2 DEF EndInv
    <3> QED BY <3>1, <3>4, <3>5, <3>8 DEF Becomes
  <2> QED BY <2>1, <2>2
<1>5. RingInv'
  BY <1>2, <1>4, RingsStay DEF ServerInv
<1>6. KindInv'
  <2>1. \A x \in Users : user'[x].pc \in {"writing", "reading", "accepting"} => Ws'
    BY <1>2, <1>4, SameKind DEF ServerInv, KindInv
  <2>2. \A x \in Requests : request'[x].pc \in {"callback", "failing"} => Http'
    BY <1>2, <1>3, SameKind
  <2> QED BY <1>2, <1>3, <2>1, <2>2, SameKind DEF KindInv
<1> QED
  BY <1>3, <1>4, <1>5, <1>6, MovedIsKept DEF ServerInv, Moved

(* The iterator moves, and the callback runs or there is none. *)
LEMMA NextCallbackInv == ASSUME ServerInv, NEW r \in Requests, NextCallback(r) PROVE ServerInv' /\ Kept
<1>1. PICK c : c = request[r].path
  OBVIOUS
<1>2. PICK ring : ring = Advanced(rings[c])
  OBVIOUS
<1>3. Http /\ rings' = [rings EXCEPT ![c] = ring] /\ UNCHANGED <<world, user>>
  BY <1>1, <1>2 DEF NextCallback
<1>4. c \in Channels => IsRing(ring, Users) /\ Members(ring) = Receiving(c)
  BY <1>2, AdvancedIsRing DEF ServerInv, RingInv
<1>5. \A d : Receiving(d)' = Receiving(d)
  BY <1>3 DEF Receiving, Addr
<1>6. RingInv'
  BY <1>3, <1>4, <1>5, OneRing DEF ServerInv
<1>7. CASE request' = Answer(r, "503")
  <2>1. Moved(r, "answered")
    BY <1>7, Answers DEF ServerInv
  <2> QED BY <1>3, <1>6, <2>1, OnlyRequests
<1>8. CASE request' = [request EXCEPT ![r].pc = "callback", ![r].by = rings[c].iter]
  <2>1. PICK q, old, path, cred, good, by, was :
          q = request[r] /\ q = [pc |-> old, path |-> path, cred |-> cred, good |-> good, by |-> by, status |-> was]
    BY DEF ServerInv, RequestsInv, IsRequest
  <2>2. PICK b : b = [pc |-> "callback", path |-> path, cred |-> cred, good |-> good, by |-> by, status |-> was]
    OBVIOUS
  <2>3. PICK u : u = rings[c].iter
    OBVIOUS
  <2>4. PICK a : a = [pc |-> "callback", path |-> path, cred |-> cred, good |-> good, by |-> u, status |-> was]
    OBVIOUS
  <2>5. IsRequest(a) /\ a.pc = "callback" /\ a.cred = q.cred
    BY <2>1, <2>4 DEF IsRequest
  <2>6. [q EXCEPT !.pc = "callback"] = b
    BY <2>1, <2>2
  <2>7. [b EXCEPT !.by = u] = a
    BY <2>2, <2>4
  <2>8. [q EXCEPT !.pc = "callback", !.by = u] = a
    BY <2>6, <2>7
  <2>9. request' = [request EXCEPT ![r] = a]
    BY <1>8, <2>1, <2>3, <2>8
  <2>10. request = [x \in Requests |-> request[x]] /\ \A x \in Requests : IsRequest(request[x])
    BY DEF ServerInv, RequestsInv
  <2>11. Moved(r, "callback")
    BY <2>1, <2>5, <2>9, <2>10 DEF Moved, RequestsInv
  <2> QED BY <1>3, <1>6, <2>11, OnlyRequests
<1> QED
  BY <1>1, <1>7, <1>8 DEF NextCallback

LEMMA HandlersInv ==
  ASSUME ServerInv, NEW r \in Requests,
         CallbackReturns(r) \/ UnsealFails(r) \/ CallbackOpens(r) \/ Upgrade(r) \/ CloseOffered(r)
  PROVE  ServerInv' /\ Kept
<1>1. UNCHANGED <<world, user, rings>>
  BY DEF CallbackReturns, UnsealFails, CallbackOpens, Upgrade, CloseOffered
<1>2. RingInv'
  BY <1>1, RingsStay DEF ServerInv
<1>3. PICK pc \in {"answered", "failing", "opening", "offering"} : Moved(r, pc) /\ (pc = "failing" => Http)
  <2>1. CASE CallbackReturns(r)
    BY <2>1, Answers DEF CallbackReturns, ServerInv
  <2>2. CASE UnsealFails(r)
    BY <2>2, Advances DEF UnsealFails, ServerInv, KindInv
  <2>3. CASE CallbackOpens(r)
    BY <2>3, Advances DEF CallbackOpens, ServerInv
  <2>4. CASE Upgrade(r)
    <3>1. request' = [request EXCEPT ![r].pc = "offering"] \/ request' = Answer(r, "500")
      BY <2>4 DEF Upgrade
    <3> QED BY <3>1, Advances, Answers DEF ServerInv
  <2>5. CASE CloseOffered(r)
    BY <2>5, Answers DEF CloseOffered, ServerInv
  <2> QED BY <2>1, <2>2, <2>3, <2>4, <2>5
<1> QED
  BY <1>1, <1>2, <1>3, OnlyRequests

LEMMA QuietInv ==
  ASSUME ServerInv, UNCHANGED <<world, user, request, rings>>
  PROVE  ServerInv' /\ Kept
<1>1. RingInv'
  BY RingsStay DEF ServerInv
<1> QED
  BY <1>1, SameKind DEF ServerInv, UsersInv, RequestsInv, IsRequest, KindInv, EndInv, Kept

LEMMA ServerStepInv == ASSUME ServerInv, ServerStep PROVE ServerInv' /\ Kept
<1>1. ASSUME NEW u \in Users, CallSubscriber(u) \/ Cancel(u) \/ UserStep(u)
      PROVE  ServerInv' /\ Kept
  BY <1>1, SubscribeInv, CancelInv, ReceiveInv, StopReceivingInv, ReturnInv, StopAcceptingInv DEF UserStep
<1>2. ASSUME NEW r \in Requests, HandlerStep(r)
      PROVE  ServerInv' /\ Kept
  <2>1. CASE CallbackLocks(r)
    BY <2>1, QuietInv DEF CallbackLocks
  <2> QED BY <1>2, <2>1, NextCallbackInv, HandlersInv, CancelsSubscriptionInv, AcceptInv DEF HandlerStep
<1>3. CASE StopServer
  BY <1>3, QuietInv DEF StopServer
<1> QED
  BY <1>1, <1>2, <1>3 DEF ServerStep

(* A request arrives: it is refused, or its handler starts. *)
LEMMA ArriveInv ==
  ASSUME ServerInv, NEW r \in Requests, NEW q, Arrive(r, q)
  PROVE  /\ ServerInv' /\ request[r].pc = "none" /\ request'[r].pc # "none"
         /\ request'[r].cred = q.cred
         /\ \A x \in Requests \ {r} : request'[x] = request[x]
         /\ world' = world
<1>1. request[r].pc = "none" /\ UNCHANGED <<world, handlers, rings, user, stopped, crashed>>
  BY DEF Arrive
<1>2. request = [x \in Requests |-> request[x]] /\ \A x \in Requests : IsRequest(request[x])
  BY DEF ServerInv, RequestsInv
<1>8. PICK arrived, isGood : arrived = q.cred /\ isGood = q.good
  OBVIOUS
<1>3. PICK a : /\ request' = [request EXCEPT ![r] = a] /\ IsRequest(a)
               /\ a.pc \in {"answered", "entering"} /\ a.cred = arrived
  <2>1. CASE Refusal(q) # ""
    <3>1. request' = [Answer(r, Refusal(q)) EXCEPT ![r].cred = arrived]
      BY <1>8, <2>1 DEF Arrive
    <3>2. PICK refusal : refusal = Refusal(q)
      OBVIOUS
    <3>3. PICK b, old, path, cred, good, by, was :
            b = request[r] /\ b = [pc |-> old, path |-> path, cred |-> cred, good |-> good, by |-> by, status |-> was]
      BY <1>2 DEF IsRequest
    <3>4. PICK d : d = [pc |-> "answered", path |-> path, cred |-> cred, good |-> good, by |-> by, status |-> refusal]
      OBVIOUS
    <3>5. PICK a : a = [pc |-> "answered", path |-> path, cred |-> arrived, good |-> good, by |-> by, status |-> refusal]
      OBVIOUS
    <3>6. Answer(r, refusal) = [request EXCEPT ![r] = d]
      <4>1. PICK e : e = [b EXCEPT !.pc = "answered"]
        OBVIOUS
      <4>2. e = [pc |-> "answered", path |-> path, cred |-> cred, good |-> good, by |-> by, status |-> was]
        BY <3>3, <4>1
      <4>3. [e EXCEPT !.status = refusal] = d
        BY <3>4, <4>2
      <4>4. [b EXCEPT !.pc = "answered", !.status = refusal] = d
        BY <4>1, <4>3
      <4>5. Answer(r, refusal) = [request EXCEPT ![r] = [@ EXCEPT !.pc = "answered", !.status = refusal]]
        BY DEF Answer
      <4> QED BY <3>3, <4>4, <4>5
    <3>7. [d EXCEPT !.cred = arrived] = a
      BY <3>4, <3>5
    <3>8. request' = [request EXCEPT ![r] = a]
      BY <1>2, <3>1, <3>2, <3>6, <3>7
    <3>9. IsRequest(a) /\ a.pc = "answered" /\ a.cred = arrived
      BY <3>5 DEF IsRequest
    <3> QED BY <3>8, <3>9
  <2>2. CASE Refusal(q) = ""
    <3>1. request' = [request EXCEPT ![r] =
            [NoRequest EXCEPT !.pc = "entering", !.path = Pattern(q.path), !.cred = arrived, !.good = isGood]]
      BY <1>8, <2>2 DEF Arrive
    <3>2. PICK a, path : /\ path = Pattern(q.path)
                         /\ a = [pc |-> "entering", path |-> path, cred |-> arrived, good |-> isGood, by |-> Nil, status |-> ""]
      OBVIOUS
    <3>3. [NoRequest EXCEPT !.pc = "entering", !.path = path, !.cred = arrived, !.good = isGood] = a
      <4>1. PICK b : b = [NoRequest EXCEPT !.pc = "entering"]
        OBVIOUS
      <4>0. PICK no : no = FALSE
        OBVIOUS
      <4>2. b = [pc |-> "entering", path |-> Root, cred |-> Nil, good |-> no, by |-> Nil, status |-> ""]
        BY <4>0, <4>1 DEF NoRequest
      <4>3. PICK d : d = [b EXCEPT !.path = path]
        OBVIOUS
      <4>4. d = [pc |-> "entering", path |-> path, cred |-> Nil, good |-> no, by |-> Nil, status |-> ""]
        BY <4>2, <4>3
      <4>5. PICK e : e = [d EXCEPT !.cred = arrived]
        OBVIOUS
      <4>6. e = [pc |-> "entering", path |-> path, cred |-> arrived, good |-> no, by |-> Nil, status |-> ""]
        BY <4>4, <4>5
      <4>8. PICK f : f = [e EXCEPT !.good = isGood]
        OBVIOUS
      <4>9. f = [pc |-> "entering", path |-> path, cred |-> arrived, good |-> isGood, by |-> Nil, status |-> ""]
        BY <4>6, <4>8
      <4>7. [e EXCEPT !.good = isGood] = a
        BY <3>2, <4>8, <4>9, Zenon
      <4> QED BY <4>1, <4>3, <4>5, <4>7
    <3>4. request' = [request EXCEPT ![r] = a]
      BY <3>1, <3>2, <3>3
    <3>5. IsRequest(a) /\ a.pc = "entering" /\ a.cred = arrived
      BY <3>2 DEF IsRequest
    <3> QED BY <3>4, <3>5
  <2> QED BY <2>1, <2>2
<1>4. /\ RequestsInv' /\ request'[r] = a /\ \A x \in Requests \ {r} : request'[x] = request[x]
  BY <1>2, <1>3 DEF RequestsInv
<1>5. RingInv'
  BY <1>1, RingsStay DEF ServerInv
<1>6. KindInv'
  <2>1. \A x \in Requests : request'[x].pc \in {"callback", "failing"} => Http'
    BY <1>1, <1>3, <1>4, SameKind DEF ServerInv, KindInv
  <2> QED BY <1>1, <2>1, SameKind DEF ServerInv, KindInv
<1>7. UsersInv' /\ EndInv'
  BY <1>1, SameKind DEF ServerInv, UsersInv, EndInv
<1> QED
  BY <1>1, <1>3, <1>4, <1>5, <1>6, <1>7, <1>8 DEF ServerInv

-----------------------------------------------------------------------------
(* Senders *)

SenderStates ==
  [pc : {"closed", "open", "sending", "waiting", "sent", "failed"}, at : Nat,
   sends : Nat, drained : SUBSET Nat, request : Requests \cup {Nil}]

LEMMA SameSecurity ==
  ASSUME UNCHANGED world
  PROVE  /\ SomeoneChangesTheServer' = SomeoneChangesTheServer
         /\ \A s : SecurityOf(s)' = SecurityOf(s)
BY DEF SomeoneChangesTheServer, SecurityOf

LEMMA SameDue ==
  ASSUME UNCHANGED world, NEW s
  PROVE  ApplySecurity(world.senders[s].security, Nil)' = ApplySecurity(world.senders[s].security, Nil)
<1>1. PICK sec : sec = world.senders[s].security
  OBVIOUS
<1>2. world'.senders[s].security = sec
  BY <1>1
<1>3. ApplySecurity(world.senders[s].security, Nil)' = ApplySecurity(sec, Nil)
  BY <1>2 DEF ApplySecurity
<1> QED BY <1>1, <1>3

LEMMA CredentialsStay ==
  ASSUME CredentialsAreOwn, UNCHANGED <<world, origin>>,
         \A r \in Requests : origin[r] # Nil => request'[r].cred = request[r].cred
  PROVE  CredentialsAreOwn'
<1>1. SUFFICES ASSUME NEW r \in Requests, origin'[r] # Nil, ~SomeoneChangesTheServer'
               PROVE  request'[r].cred = ApplySecurity(world.senders[origin[r].envelope.sender].security, Nil)'
  BY DEF CredentialsAreOwn
<1>2. origin[r] # Nil /\ ~SomeoneChangesTheServer /\ origin' = origin
  BY <1>1, SameSecurity
<1>3. request[r].cred = ApplySecurity(world.senders[origin[r].envelope.sender].security, Nil)
  BY <1>2 DEF CredentialsAreOwn
<1>4. PICK s : s = origin[r].envelope.sender
  OBVIOUS
<1>5. origin'[r].envelope.sender = s
  BY <1>2, <1>4
<1>6. ApplySecurity(world.senders[s].security, Nil)' = ApplySecurity(world.senders[s].security, Nil)
  BY SameDue
<1>7. ApplySecurity(world.senders[origin[r].envelope.sender].security, Nil)' = ApplySecurity(world'.senders[s].security, Nil)
  BY <1>5
<1> QED BY <1>2, <1>3, <1>4, <1>6, <1>7

(* The server's steps do not change what a request carries. *)
LEMMA ServerKeepsClients ==
  ASSUME Inv, UNCHANGED <<world, urls, sender, origin>>, Kept
  PROVE  ClientInv'
<1>1. SendersInv' /\ DrainedInv' /\ PayloadSentOnce'
  BY DEF Inv, ClientInv, SendersInv, DrainedInv, CurrentCall, PayloadSentOnce
<1>2. OriginInv'
  <2>1. \A r \in Requests : request[r].pc # "none" => request'[r].pc # "none"
    BY DEF Kept
  <2>2. \A r \in Requests : origin[r] # Nil => request[r].pc # "none"
    BY DEF Inv, ClientInv, OriginInv
  <2>3. \A r \in Requests : origin'[r] # Nil => request'[r].pc # "none"
    BY <2>1, <2>2
  <2>4. (origin \in [Requests -> Origins \cup {Nil}])'
    BY DEF Inv, ClientInv, OriginInv, Origins
  <2> QED BY <2>3, <2>4 DEF OriginInv
<1>3. UrlsInv'
  BY SameSecurity DEF Inv, ClientInv, UrlsInv, ApplySecurity
<1>4. CredentialsAreOwn'
  BY CredentialsStay DEF Inv, ClientInv, OriginInv, Kept
<1> QED
  BY <1>1, <1>2, <1>3, <1>4 DEF ClientInv

LEMMA SenderMoves ==
  ASSUME Inv, UNCHANGED <<world, origin>>, NEW s \in Senders, NEW v \in SenderStates,
         sender' = [sender EXCEPT ![s] = v],
         v.pc # "closed" => Len(world.senders[s].envelopes) > 0,
         \/ /\ sender[s].drained \subseteq v.drained
            /\ world.senders[s].fresh => v.sends = sender[s].sends
         \/ world.senders[s].fresh /\ v.sends = sender[s].sends + 1
  PROVE  SendersInv' /\ DrainedInv' /\ PayloadSentOnce'
<1>1. /\ sender' \in [Senders -> SenderStates] /\ sender'[s] = v
      /\ \A x \in Senders \ {s} : sender'[x] = sender[x]
  BY DEF Inv, ClientInv, SendersInv, SenderStates
<1>2. SendersInv'
  BY <1>1 DEF Inv, ClientInv, SendersInv, SenderStates
<1>3. ASSUME NEW r \in Requests, origin[r] # Nil, NEW e, e = origin[r].envelope
      PROVE  /\ e.call <= CurrentCall(e.sender)'
             /\ e.call = CurrentCall(e.sender)' => e.at \in sender'[e.sender].drained
  <2>1. /\ e.sender \in Senders /\ e.call \in Nat
        /\ e.call <= CurrentCall(e.sender)
        /\ e.call = CurrentCall(e.sender) => e.at \in sender[e.sender].drained
    BY <1>3 DEF Inv, ClientInv, DrainedInv, OriginInv, Origins
  <2>2. CASE e.sender # s
    BY <1>1, <2>1, <2>2 DEF CurrentCall
  <2>3. CASE e.sender = s /\ sender[s].drained \subseteq v.drained
             /\ (world.senders[s].fresh => v.sends = sender[s].sends)
    BY <1>1, <2>1, <2>3 DEF CurrentCall
  <2>4. CASE e.sender = s /\ world.senders[s].fresh /\ v.sends = sender[s].sends + 1
    <3>1. sender[s].sends \in Nat
      BY DEF Inv, ClientInv, SendersInv
    <3> QED BY <1>1, <2>1, <2>4, <3>1 DEF CurrentCall
  <2> QED BY <2>2, <2>3, <2>4
<1>4. DrainedInv'
  BY <1>3 DEF DrainedInv
<1>5. PayloadSentOnce'
  BY DEF Inv, ClientInv, PayloadSentOnce
<1> QED
  BY <1>2, <1>4, <1>5

(* No request is concerned, and no URL. *)
LEMMA OnlySenders ==
  ASSUME Inv, UNCHANGED <<world, request, origin>>, UrlsInv',
         SendersInv' /\ DrainedInv' /\ PayloadSentOnce'
  PROVE  ClientInv'
<1>1. OriginInv'
  BY DEF Inv, ClientInv, OriginInv
<1>2. CredentialsAreOwn'
  BY CredentialsStay DEF Inv, ClientInv
<1> QED
  BY <1>1, <1>2 DEF ClientInv

LEMMA UrlsStay == ASSUME Inv, UNCHANGED <<world, urls>> PROVE UrlsInv'
BY SameSecurity DEF Inv, ClientInv, UrlsInv, ApplySecurity

LEMMA ServerRests == ASSUME Inv, UNCHANGED serverVars PROVE ServerInv' /\ UNCHANGED <<world, request>>
BY QuietInv DEF Inv, serverVars

LEMMA SendFailsStep ==
  ASSUME Inv, UNCHANGED <<world, origin>>, NEW s \in Senders, sender[s].pc # "closed",
         NEW pc \in {"open", "sending", "waiting", "sent", "failed"},
         sender' = [sender EXCEPT ![s].pc = pc]
  PROVE  SendersInv' /\ DrainedInv' /\ PayloadSentOnce'
<1>1. PICK w \in SenderStates : w = sender[s]
  BY DEF Inv, ClientInv, SendersInv, SenderStates
<1>2. PICK v : v = [w EXCEPT !.pc = pc]
  OBVIOUS
<1>3. v \in SenderStates /\ v.drained = w.drained /\ v.sends = w.sends
  BY <1>1, <1>2 DEF SenderStates
<1>4. sender' = [sender EXCEPT ![s] = v]
  BY <1>1, <1>2
<1>5. Len(world.senders[s].envelopes) > 0
  BY DEF Inv, ClientInv, SendersInv
<1> QED
  BY <1>1, <1>3, <1>4, <1>5, SenderMoves

-----------------------------------------------------------------------------
(* URLs and credentials *)

LEMMA AppliedTwice ==
  ASSUME NEW sec
  PROVE  ApplySecurity(sec, ApplySecurity(sec, Nil)) = ApplySecurity(sec, Nil)
<1>1. PICK once : once = ApplySecurity(sec, Nil)
  OBVIOUS
<1>2. CASE sec.scheme \in {"none", "basic", "user"}
  BY <1>1, <1>2 DEF ApplySecurity
<1>3. CASE sec.scheme \notin {"none", "basic", "user"}
  <2>1. \A c : ApplySecurity(sec, c) = [user |-> IF c = Nil THEN "" ELSE c.user, password |-> sec.key]
    BY <1>3 DEF ApplySecurity
  <2>2. once = [user |-> "", password |-> sec.key]
    BY <1>1, <2>1
  <2>3. once.user = ""
    BY <2>2
  <2>4. ApplySecurity(sec, once) = [user |-> "", password |-> sec.key]
    BY <2>1, <2>3
  <2> QED BY <1>1, <2>2, <2>4
<1> QED
  BY <1>2, <1>3

LEMMA SecuredInv ==
  ASSUME Inv, UNCHANGED world, NEW s \in Senders, sender[s].pc # "closed", urls' = Secured(s)
  PROVE  /\ UrlsInv'
         /\ ~SomeoneChangesTheServer => urls'[UrlOf(s)].user = ApplySecurity(SecurityOf(s), Nil)
<1>1. PICK x \in Senders \cup {Server} : x = UrlOf(s) /\ (x = s \/ x = Server)
  BY DEF UrlOf
<1>2. PICK cur : urls[x] = [user |-> cur] /\ cur = urls[x].user
  <2>1. urls[x] = [user |-> urls[x].user]
    BY DEF Inv, ClientInv, UrlsInv
  <2> QED BY <2>1
<1>3. PICK new : new = ApplySecurity(SecurityOf(s), cur)
  OBVIOUS
<1>4. urls' = [urls EXCEPT ![x] = [user |-> new]]
  <2>1. urls' = [urls EXCEPT ![x].user = ApplySecurity(world.senders[s].security, urls[x].user)]
    BY <1>1 DEF Secured
  <2>2. urls' = [urls EXCEPT ![x].user = new]
    BY <1>2, <1>3, <2>1 DEF SecurityOf
  <2> QED BY <1>2, <2>2
<1>5. /\ urls = [y \in Senders \cup {Server} |-> [user |-> urls[y].user]]
      /\ ~SomeoneChangesTheServer =>
           /\ urls[Server].user = Nil
           /\ \A t \in Senders : urls[t].user \in {Nil, ApplySecurity(SecurityOf(t), Nil)}
  BY DEF Inv, ClientInv, UrlsInv
<1>6. /\ urls'[x].user = new
      /\ \A y \in (Senders \cup {Server}) \ {x} : urls'[y] = urls[y]
      /\ urls' = [y \in Senders \cup {Server} |-> [user |-> urls'[y].user]]
  <2>1. PICK n : n = [user |-> new]
    OBVIOUS
  <2>2. n = [user |-> n.user] /\ n.user = new
    BY <2>1
  <2>3. urls' = [urls EXCEPT ![x] = n]
    BY <1>4, <2>1
  <2>4. urls'[x] = n /\ \A y \in (Senders \cup {Server}) \ {x} : urls'[y] = urls[y]
    BY <1>5, <2>3
  <2>5. \A y \in Senders \cup {Server} : urls[y] = [user |-> urls[y].user]
    BY <1>5
  <2>6. \A y \in Senders \cup {Server} : urls'[y] = [user |-> urls'[y].user]
    BY <2>2, <2>4, <2>5
  <2>7. urls' = [y \in Senders \cup {Server} |-> urls'[y]]
    BY <1>5, <2>3
  <2> QED BY <2>2, <2>4, <2>6, <2>7
<1>7. ASSUME ~SomeoneChangesTheServer
      PROVE  new = ApplySecurity(SecurityOf(s), Nil)
  <2>1. cur \in {Nil, ApplySecurity(SecurityOf(s), Nil)}
    BY <1>1, <1>2, <1>5, <1>7
  <2> QED BY <1>3, <2>1, AppliedTwice
<1>8. ASSUME ~SomeoneChangesTheServer, x = Server
      PROVE  new = Nil
  <2>1. world.senders[s].address = "" /\ Len(world.senders[s].envelopes) > 0
    BY <1>1, <1>8, ServerAssumption DEF UrlOf, Inv, ClientInv, SendersInv
  <2>2. SecurityOf(s).scheme = "none"
    BY <1>8, <2>1 DEF SomeoneChangesTheServer, SecurityOf
  <2> QED BY <1>7, <1>8, <2>2 DEF ApplySecurity
<1>9. ASSUME ~SomeoneChangesTheServer
      PROVE  /\ urls'[Server].user = Nil
             /\ \A t \in Senders : urls'[t].user \in {Nil, ApplySecurity(SecurityOf(t), Nil)}
  <2>1. urls'[Server].user = Nil
    BY <1>5, <1>6, <1>8, <1>9
  <2>2. ASSUME NEW t \in Senders
        PROVE  urls'[t].user \in {Nil, ApplySecurity(SecurityOf(t), Nil)}
    <3>1. CASE t = x
      BY <1>1, <1>6, <1>7, <1>9, <3>1, ServerAssumption
    <3>2. CASE t # x
      BY <1>5, <1>6, <1>9, <3>2
    <3> QED BY <3>1, <3>2
  <2> QED BY <2>1, <2>2
<1>10. UrlsInv'
  <2>1. \A t : ApplySecurity(SecurityOf(t), Nil)' = ApplySecurity(SecurityOf(t), Nil)
    BY DEF SecurityOf, ApplySecurity
  <2> QED BY <1>6, <1>9, <2>1, SameSecurity DEF UrlsInv
<1> QED
  BY <1>1, <1>6, <1>7, <1>10

LEMMA PublisherInv == ASSUME Inv, NEW s \in Senders, Publisher(s) PROVE ServerInv' /\ ClientInv'
<1>1. /\ sender[s].pc = "closed" /\ Len(world.senders[s].envelopes) > 0
      /\ urls' = [urls EXCEPT ![UrlOf(s)] = urls[Server]]
      /\ sender' = [sender EXCEPT ![s].pc = "open"]
      /\ UNCHANGED <<serverVars, origin>>
  BY DEF Publisher
<1>2. ServerInv' /\ UNCHANGED <<world, request>>
  BY <1>1, ServerRests
<1>3. SendersInv' /\ DrainedInv' /\ PayloadSentOnce'
  <2>1. PICK w \in SenderStates : w = sender[s]
    BY DEF Inv, ClientInv, SendersInv, SenderStates
  <2>2. PICK v : v = [w EXCEPT !.pc = "open"]
    OBVIOUS
  <2>3. v \in SenderStates /\ v.drained = w.drained /\ v.sends = w.sends
    BY <2>1, <2>2 DEF SenderStates
  <2>4. sender' = [sender EXCEPT ![s] = v]
    BY <1>1, <2>1, <2>2
  <2> QED BY <1>1, <1>2, <2>1, <2>3, <2>4, SenderMoves
<1>4. UrlsInv'
  <2>1. PICK x \in Senders \cup {Server} : x = UrlOf(s)
    BY DEF UrlOf
  <2>2. /\ urls = [y \in Senders \cup {Server} |-> [user |-> urls[y].user]]
        /\ ~SomeoneChangesTheServer =>
             /\ urls[Server].user = Nil
             /\ \A t \in Senders : urls[t].user \in {Nil, ApplySecurity(SecurityOf(t), Nil)}
    BY DEF Inv, ClientInv, UrlsInv
  <2>3. /\ urls'[x] = urls[Server] /\ urls'[Server] = urls[Server]
        /\ \A y \in (Senders \cup {Server}) \ {x} : urls'[y] = urls[y]
        /\ urls' = [y \in Senders \cup {Server} |-> [user |-> urls'[y].user]]
    BY <1>1, <2>1, <2>2
  <2>4. \A t : ApplySecurity(SecurityOf(t), Nil)' = ApplySecurity(SecurityOf(t), Nil)
    BY <1>2 DEF SecurityOf, ApplySecurity
  <2>5. ASSUME ~SomeoneChangesTheServer
        PROVE  /\ urls'[Server].user = Nil
               /\ \A t \in Senders : urls'[t].user \in {Nil, ApplySecurity(SecurityOf(t), Nil)}
    BY <2>2, <2>3, <2>5
  <2> QED BY <1>2, <2>3, <2>4, <2>5, SameSecurity DEF UrlsInv
<1> QED
  BY <1>1, <1>2, <1>3, <1>4, OnlySenders

LEMMA CallSendInv == ASSUME Inv, NEW s \in Senders, CallSend(s) PROVE ServerInv' /\ ClientInv'
<1>1. /\ sender[s].pc \in {"open", "failed"} /\ UNCHANGED <<serverVars, urls, origin>>
  BY DEF CallSend
<1>2. ServerInv' /\ UNCHANGED <<world, request>>
  BY <1>1, ServerRests
<1>3. PICK w \in SenderStates : w = sender[s]
  BY DEF Inv, ClientInv, SendersInv, SenderStates
<1>4. PICK drained \in SUBSET Nat : drained = IF world.senders[s].fresh THEN {} ELSE w.drained
  BY <1>3 DEF SenderStates
<1>5. PICK sends \in Nat : sends = w.sends + 1
  BY <1>3 DEF SenderStates
<1>6. PICK v : v = [[[[w EXCEPT !.pc = "sending"] EXCEPT !.at = 1] EXCEPT !.sends = sends] EXCEPT !.drained = drained]
  OBVIOUS
<1>7. v \in SenderStates /\ v.drained = drained /\ v.sends = sends
  <2>1. PICK a : a = [w EXCEPT !.pc = "sending"]
    OBVIOUS
  <2>2. a \in SenderStates
    BY <1>3, <2>1 DEF SenderStates
  <2>3. PICK b : b = [a EXCEPT !.at = 1]
    OBVIOUS
  <2>4. b \in SenderStates
    BY <2>2, <2>3 DEF SenderStates
  <2>5. PICK c : c = [b EXCEPT !.sends = sends]
    OBVIOUS
  <2>6. c \in SenderStates /\ c.sends = sends
    BY <1>5, <2>4, <2>5 DEF SenderStates
  <2>7. v = [c EXCEPT !.drained = drained]
    BY <1>6, <2>1, <2>3, <2>5
  <2> QED BY <1>4, <2>6, <2>7 DEF SenderStates
<1>8. sender' = [sender EXCEPT ![s] = v]
  BY <1>3, <1>4, <1>5, <1>6 DEF CallSend
<1>9. Len(world.senders[s].envelopes) > 0
  BY <1>1 DEF Inv, ClientInv, SendersInv
<1>10. \/ /\ sender[s].drained \subseteq v.drained
          /\ world.senders[s].fresh => v.sends = sender[s].sends
       \/ world.senders[s].fresh /\ v.sends = sender[s].sends + 1
  BY <1>3, <1>4, <1>5, <1>7
<1>11. SendersInv' /\ DrainedInv' /\ PayloadSentOnce'
  BY <1>1, <1>2, <1>7, <1>8, <1>9, <1>10, SenderMoves
<1> QED
  BY <1>1, <1>2, <1>11, UrlsStay, OnlySenders

LEMMA SecurityFailsInv == ASSUME Inv, NEW s \in Senders, SecurityFails(s) PROVE ServerInv' /\ ClientInv'
<1>1. /\ sender[s].pc = "sending" /\ UNCHANGED <<serverVars, urls, origin>>
      /\ sender' = [sender EXCEPT ![s].pc = "failed"]
  BY DEF SecurityFails, SendFails
<1>2. ServerInv' /\ UNCHANGED <<world, request>>
  BY <1>1, ServerRests
<1>3. SendersInv' /\ DrainedInv' /\ PayloadSentOnce'
  BY <1>1, <1>2, SendFailsStep
<1> QED
  BY <1>1, <1>2, <1>3, UrlsStay, OnlySenders

LEMMA DialFailsInv == ASSUME Inv, NEW s \in Senders, DialFails(s) PROVE ServerInv' /\ ClientInv'
<1>1. /\ sender[s].pc = "sending" /\ UNCHANGED <<serverVars, origin>> /\ urls' = Secured(s)
      /\ sender' = [sender EXCEPT ![s].pc = "failed"]
  BY DEF DialFails, SendFails
<1>2. ServerInv' /\ UNCHANGED <<world, request>>
  BY <1>1, ServerRests
<1>3. SendersInv' /\ DrainedInv' /\ PayloadSentOnce'
  BY <1>1, <1>2, SendFailsStep
<1>4. UrlsInv'
  BY <1>1, <1>2, SecuredInv
<1> QED
  BY <1>1, <1>2, <1>3, <1>4, OnlySenders

LEMMA AnswerArrivesInv == ASSUME Inv, NEW s \in Senders, AnswerArrives(s) PROVE ServerInv' /\ ClientInv'
<1>1. sender[s].pc = "waiting" /\ UNCHANGED <<serverVars, urls, origin>>
  BY DEF AnswerArrives
<1>2. ServerInv' /\ UNCHANGED <<world, request>>
  BY <1>1, ServerRests
<1>3. PICK w \in SenderStates : w = sender[s]
  BY DEF Inv, ClientInv, SendersInv, SenderStates
<1>4. PICK pc \in {"sent", "sending"} :
        pc = IF sender[s].at = Len(world.senders[s].envelopes) THEN "sent" ELSE "sending"
  OBVIOUS
<1>5. PICK at \in Nat : at = w.at + 1
  BY <1>3 DEF SenderStates
<1>6. PICK a : a = [w EXCEPT !.at = at]
  OBVIOUS
<1>7. a \in SenderStates /\ a.drained = w.drained /\ a.sends = w.sends
  BY <1>3, <1>5, <1>6 DEF SenderStates
<1>8. PICK b : b = [a EXCEPT !.request = Nil]
  OBVIOUS
<1>9. b \in SenderStates /\ b.drained = w.drained /\ b.sends = w.sends
  BY <1>7, <1>8 DEF SenderStates
<1>10. PICK v : v = [b EXCEPT !.pc = pc]
  OBVIOUS
<1>11. v \in SenderStates /\ v.drained = w.drained /\ v.sends = w.sends
  BY <1>9, <1>10 DEF SenderStates
<1>12. sender' = [sender EXCEPT ![s] = v]
  <2>1. sender' = [sender EXCEPT ![s] = [[[sender[s] EXCEPT !.at = sender[s].at + 1] EXCEPT !.request = Nil] EXCEPT !.pc = pc]]
    BY <1>4 DEF AnswerArrives
  <2> QED BY <1>3, <1>5, <1>6, <1>8, <1>10, <2>1
<1>13. Len(world.senders[s].envelopes) > 0
  BY <1>1 DEF Inv, ClientInv, SendersInv
<1>14. SendersInv' /\ DrainedInv' /\ PayloadSentOnce'
  BY <1>1, <1>2, <1>3, <1>11, <1>12, <1>13, SenderMoves
<1> QED
  BY <1>1, <1>2, <1>14, UrlsStay, OnlySenders

LEMMA ConnectionLostInv == ASSUME Inv, NEW s \in Senders, ConnectionLost(s) PROVE ServerInv' /\ ClientInv'
<1>1. sender[s].pc = "waiting" /\ UNCHANGED <<serverVars, urls, origin>>
  BY DEF ConnectionLost
<1>2. ServerInv' /\ UNCHANGED <<world, request>>
  BY <1>1, ServerRests
<1>3. PICK w \in SenderStates : w = sender[s]
  BY DEF Inv, ClientInv, SendersInv, SenderStates
<1>4. PICK a : a = [w EXCEPT !.pc = "failed"]
  OBVIOUS
<1>5. a \in SenderStates /\ a.drained = w.drained /\ a.sends = w.sends
  BY <1>3, <1>4 DEF SenderStates
<1>6. PICK v : v = [a EXCEPT !.request = Nil]
  OBVIOUS
<1>7. v \in SenderStates /\ v.drained = w.drained /\ v.sends = w.sends
  BY <1>5, <1>6 DEF SenderStates
<1>8. sender' = [sender EXCEPT ![s] = v]
  <2>1. sender' = [sender EXCEPT ![s] = [[sender[s] EXCEPT !.pc = "failed"] EXCEPT !.request = Nil]]
    BY DEF ConnectionLost
  <2> QED BY <1>3, <1>4, <1>6, <2>1
<1>9. Len(world.senders[s].envelopes) > 0
  BY <1>1 DEF Inv, ClientInv, SendersInv
<1>10. SendersInv' /\ DrainedInv' /\ PayloadSentOnce'
  BY <1>1, <1>2, <1>3, <1>7, <1>8, <1>9, SenderMoves
<1> QED
  BY <1>1, <1>2, <1>10, UrlsStay, OnlySenders

(* A request whose origin is known is another one than those that arrive. *)
LEMMA StrangerSendsInv == ASSUME Inv, NEW r \in Requests, StrangerSends(r) PROVE ServerInv' /\ ClientInv'
<1>1. PICK q \in world.strangers : Arrive(r, q)
  BY DEF StrangerSends
<1>2. UNCHANGED <<urls, sender, origin>>
  BY DEF StrangerSends, clientVars
<1>3. /\ ServerInv' /\ request[r].pc = "none" /\ request'[r].pc # "none"
      /\ \A x \in Requests \ {r} : request'[x] = request[x]
      /\ world' = world
  BY <1>1, ArriveInv DEF Inv
<1>4. SendersInv' /\ DrainedInv' /\ PayloadSentOnce'
  BY <1>2, <1>3 DEF Inv, ClientInv, SendersInv, DrainedInv, CurrentCall, PayloadSentOnce
<1>5. origin[r] = Nil
  BY <1>3 DEF Inv, ClientInv, OriginInv
<1>6. OriginInv'
  <2>1. \A x \in Requests : origin'[x] # Nil => request'[x].pc # "none"
    BY <1>2, <1>3 DEF Inv, ClientInv, OriginInv
  <2>2. (origin \in [Requests -> Origins \cup {Nil}])'
    BY <1>2 DEF Inv, ClientInv, OriginInv, Origins
  <2> QED BY <2>1, <2>2 DEF OriginInv
<1>7. CredentialsAreOwn'
  <2>1. \A x \in Requests : origin[x] # Nil => request'[x].cred = request[x].cred
    BY <1>3, <1>5
  <2> QED BY <1>2, <1>3, <2>1, CredentialsStay DEF Inv, ClientInv
<1> QED
  BY <1>2, <1>3, <1>4, <1>6, <1>7, UrlsStay DEF ClientInv

(* What a post does to the sender: the envelope is drained from now on. *)
LEMMA PostDrains ==
  ASSUME Inv, NEW s \in Senders, NEW r \in Requests, Post(s, r), UNCHANGED world
  PROVE  /\ SendersInv'
         /\ \A t \in Senders : /\ CurrentCall(t)' = CurrentCall(t) /\ CurrentCall(t) \in Nat
                               /\ sender[t].drained \subseteq sender'[t].drained
         /\ sender[s].at \in sender'[s].drained
<1>1. PICK w \in SenderStates : w = sender[s]
  BY DEF Inv, ClientInv, SendersInv, SenderStates
<1>2. PICK drained \in SUBSET Nat : drained = w.drained \cup {w.at}
  BY <1>1 DEF SenderStates
<1>3. PICK a : a = [w EXCEPT !.pc = "waiting"]
  OBVIOUS
<1>4. a \in SenderStates /\ a.sends = w.sends
  BY <1>1, <1>3 DEF SenderStates
<1>5. PICK b : b = [a EXCEPT !.request = r]
  OBVIOUS
<1>6. b \in SenderStates /\ b.sends = w.sends
  BY <1>4, <1>5 DEF SenderStates
<1>7. PICK v : v = [b EXCEPT !.drained = drained]
  OBVIOUS
<1>8. v \in SenderStates /\ v.drained = drained /\ v.sends = w.sends
  BY <1>2, <1>6, <1>7 DEF SenderStates
<1>9. sender' = [sender EXCEPT ![s] = v]
  <2>1. sender' = [sender EXCEPT ![s] = [[[sender[s] EXCEPT !.pc = "waiting"] EXCEPT !.request = r]
                                           EXCEPT !.drained = sender[s].drained \cup {sender[s].at}]]
    BY DEF Post
  <2> QED BY <1>1, <1>2, <1>3, <1>5, <1>7, <2>1
<1>10. /\ sender' \in [Senders -> SenderStates] /\ sender'[s] = v
       /\ \A x \in Senders \ {s} : sender'[x] = sender[x]
  BY <1>8, <1>9 DEF Inv, ClientInv, SendersInv, SenderStates
<1>11. sender[s].pc = "sending"
  BY DEF Post
<1>12. SendersInv'
  BY <1>10, <1>11 DEF Inv, ClientInv, SendersInv, SenderStates
<1>13. \A t \in Senders : sender'[t].sends = sender[t].sends /\ sender[t].sends \in Nat
  BY <1>1, <1>8, <1>10 DEF Inv, ClientInv, SendersInv
<1>14. \A t \in Senders : CurrentCall(t)' = CurrentCall(t) /\ CurrentCall(t) \in Nat
  BY <1>13 DEF CurrentCall
<1>15. \A t \in Senders : sender[t].drained \subseteq sender'[t].drained
  BY <1>1, <1>2, <1>8, <1>10
<1>16. sender[s].at \in sender'[s].drained
  BY <1>1, <1>2, <1>8, <1>10
<1> QED
  BY <1>12, <1>14, <1>15, <1>16

LEMMA PostInv == ASSUME Inv, NEW s \in Senders, NEW r \in Requests, Post(s, r) PROVE ServerInv' /\ ClientInv'
<1>1. PICK q : Arrive(r, q) /\ q.cred = urls'[UrlOf(s)].user
  <2>1. PICK path, method, cred, good :
          /\ path = IF world.senders[s].address = "" THEN Root ELSE world.senders[s].address
          /\ method = world.senders[s].method
          /\ cred = urls'[UrlOf(s)].user
          /\ good = Payload(s)
    OBVIOUS
  <2>2. PICK q : q = [path |-> path, method |-> method, cred |-> cred, good |-> good]
    OBVIOUS
  <2>3. Arrive(r, q)
    BY <2>1, <2>2 DEF Post
  <2>4. q.cred = urls'[UrlOf(s)].user
    BY <2>1, <2>2
  <2> QED BY <2>3, <2>4, Zenon
<1>2. /\ ServerInv' /\ request[r].pc = "none" /\ request'[r].pc # "none"
      /\ request'[r].cred = q.cred
      /\ \A x \in Requests \ {r} : request'[x] = request[x]
      /\ world' = world
  BY <1>1, ArriveInv DEF Inv
<1>3. /\ SendersInv'
      /\ \A t \in Senders : /\ CurrentCall(t)' = CurrentCall(t) /\ CurrentCall(t) \in Nat
                            /\ sender[t].drained \subseteq sender'[t].drained
      /\ sender[s].at \in sender'[s].drained
  BY <1>2, PostDrains
<1>4. sender[s].pc = "sending" /\ urls' = Secured(s)
  BY DEF Post
<1>5. /\ UrlsInv'
      /\ ~SomeoneChangesTheServer => urls'[UrlOf(s)].user = ApplySecurity(SecurityOf(s), Nil)
  BY <1>2, <1>4, SecuredInv
<1>6. PICK e : e = [sender |-> s, at |-> sender[s].at, call |-> CurrentCall(s)]
  OBVIOUS
<1>7. PICK full \in BOOLEAN : full = (sender[s].at \notin sender[s].drained)
  OBVIOUS
<1>8. PICK o : o = [envelope |-> e, full |-> full]
  OBVIOUS
<1>9. origin' = [origin EXCEPT ![r] = o]
  <2>1. e = Envelope(s)
    BY <1>6 DEF Envelope, CurrentCall
  <2>2. full = BodyLeft(s)
    BY <1>7 DEF BodyLeft
  <2> QED BY <1>8, <2>1, <2>2 DEF Post
<1>10. /\ e \in [sender : Senders, at : Nat, call : Nat] /\ e.sender = s /\ e.at = sender[s].at
       /\ e.call = CurrentCall(s) /\ o \in Origins /\ o.envelope = e /\ o.full = full
  <2>1. sender[s].at \in Nat
    BY DEF Inv, ClientInv, SendersInv
  <2> QED BY <1>3, <1>6, <1>7, <1>8, <2>1 DEF Origins
<1>11. /\ origin' \in [Requests -> Origins \cup {Nil}] /\ origin'[r] = o
       /\ \A x \in Requests \ {r} : origin'[x] = origin[x]
  BY <1>9, <1>10 DEF Inv, ClientInv, OriginInv
<1>12. OriginInv'
  <2>1. \A x \in Requests \ {r} : origin[x] # Nil => request[x].pc # "none"
    BY DEF Inv, ClientInv, OriginInv
  <2>2. \A x \in Requests : origin'[x] # Nil => request'[x].pc # "none"
    BY <1>2, <1>11, <2>1
  <2>3. (origin \in [Requests -> Origins \cup {Nil}])'
    BY <1>11 DEF Origins
  <2> QED BY <2>2, <2>3 DEF OriginInv
(* what is known of the other requests *)
<1>13. ASSUME NEW x \in Requests \ {r}, origin[x] # Nil
       PROVE  /\ origin[x].envelope.sender \in Senders
              /\ origin[x].envelope.call <= CurrentCall(origin[x].envelope.sender)
              /\ origin[x].envelope.call = CurrentCall(origin[x].envelope.sender)
                    => origin[x].envelope.at \in sender[origin[x].envelope.sender].drained
  BY <1>13 DEF Inv, ClientInv, OriginInv, Origins, DrainedInv
<1>14. DrainedInv'
  <2>1. SUFFICES ASSUME NEW x \in Requests, origin'[x] # Nil, NEW f, f = origin'[x].envelope
                 PROVE  /\ f.call <= CurrentCall(f.sender)'
                        /\ f.call = CurrentCall(f.sender)' => f.at \in sender'[f.sender].drained
    BY DEF DrainedInv
  <2>2. CASE x = r
    <3>1. f.sender = s /\ f.call = CurrentCall(s) /\ f.at = sender[s].at
      BY <1>10, <1>11, <2>1, <2>2
    <3>2. CurrentCall(f.sender)' = CurrentCall(s) /\ CurrentCall(s) \in Nat
      BY <1>3, <3>1
    <3> QED BY <1>3, <3>1, <3>2
  <2>3. CASE x # r
    <3>1. /\ f.sender \in Senders /\ f.call <= CurrentCall(f.sender)
          /\ f.call = CurrentCall(f.sender) => f.at \in sender[f.sender].drained
      BY <1>11, <1>13, <2>1, <2>3
    <3>2. CurrentCall(f.sender)' = CurrentCall(f.sender)
      BY <1>3, <3>1
    <3> QED BY <1>3, <3>1, <3>2
  <2> QED BY <2>2, <2>3
<1>15. ASSUME NEW x \in Requests \ {r}, origin[x] # Nil, full
       PROVE  origin[x].envelope # e
  BY <1>7, <1>10, <1>13, <1>15
<1>16. PayloadSentOnce'
  <2>1. SUFFICES ASSUME NEW x \in Requests, NEW y \in Requests, x # y, origin'[x] # Nil, origin'[y] # Nil,
                        origin'[x].full, origin'[y].full
                 PROVE  origin'[x].envelope # origin'[y].envelope
    BY DEF PayloadSentOnce
  <2>2. CASE x = r
    BY <1>10, <1>11, <1>15, <2>1, <2>2
  <2>3. CASE y = r
    BY <1>10, <1>11, <1>15, <2>1, <2>3
  <2>4. CASE x # r /\ y # r
    BY <1>11, <2>1, <2>4 DEF Inv, ClientInv, PayloadSentOnce
  <2> QED BY <2>2, <2>3, <2>4
<1>17. CredentialsAreOwn'
  <2>1. SUFFICES ASSUME NEW x \in Requests, origin'[x] # Nil, ~SomeoneChangesTheServer'
                 PROVE  request'[x].cred = ApplySecurity(world.senders[origin[x].envelope.sender].security, Nil)'
    BY DEF CredentialsAreOwn
  <2>2. ~SomeoneChangesTheServer
    BY <1>2, <2>1, SameSecurity
  <2>3. PICK t : t = origin'[x].envelope.sender
    OBVIOUS
  <2>4. ApplySecurity(world.senders[origin[x].envelope.sender].security, Nil)'
          = ApplySecurity(world.senders[t].security, Nil)
    <3>1. ApplySecurity(world.senders[origin[x].envelope.sender].security, Nil)'
            = ApplySecurity(world'.senders[t].security, Nil)
      BY <2>3
    <3>2. ApplySecurity(world.senders[t].security, Nil)' = ApplySecurity(world.senders[t].security, Nil)
      BY <1>2, SameDue
    <3> QED BY <3>1, <3>2
  <2>5. CASE x = r
    BY <1>1, <1>2, <1>5, <1>10, <1>11, <2>2, <2>3, <2>4, <2>5 DEF SecurityOf
  <2>6. CASE x # r
    BY <1>2, <1>11, <2>1, <2>2, <2>3, <2>4, <2>6 DEF Inv, ClientInv, CredentialsAreOwn
  <2> QED BY <2>5, <2>6
<1> QED
  BY <1>2, <1>3, <1>5, <1>12, <1>14, <1>16, <1>17 DEF ClientInv

-----------------------------------------------------------------------------
LEMMA WorldStays == ASSUME ServerStep PROVE world' = world
<1>1. ASSUME NEW u \in Users, CallSubscriber(u) \/ Cancel(u) \/ UserStep(u)
      PROVE  world' = world
  BY <1>1 DEF CallSubscriber, Cancel, UserStep, Subscriber, EnterEnsure, LeaveEnsure, ReadConnections,
              Receive, StopReceiving, Return, StopAccepting
<1>2. ASSUME NEW r \in Requests, HandlerStep(r)
      PROVE  world' = world
  BY <1>2 DEF HandlerStep, NextCallback, CallbackReturns, UnsealFails, CancelsSubscription,
              CallbackOpens, CallbackLocks, Upgrade, CloseOffered, Accept
<1> QED
  BY <1>1, <1>2 DEF ServerStep, StopServer

LEMMA InitInv == Init => Inv
<1> SUFFICES ASSUME Init PROVE Inv
  OBVIOUS
<1>1. ServerInit /\ ClientInit
  BY DEF Init
<1>2. UsersInv
  <2>1. user = [u \in Users |-> [pc |-> "idle", cancelledBy |-> Nil, err |-> Nil, result |-> Nil]]
    BY <1>1 DEF ServerInit
  <2> QED BY <2>1 DEF UsersInv, UserPcs
<1>3. \A u \in Users : user[u].pc = "idle" /\ user[u].cancelledBy = Nil
  BY <1>1 DEF ServerInit
<1>4. request = [r \in Requests |-> NoRequest]
  BY <1>1 DEF ServerInit
<1>5. RequestsInv
  <2>1. PICK no : no = FALSE
    OBVIOUS
  <2>2. PICK q : q = [pc |-> "none", path |-> Root, cred |-> Nil, good |-> no, by |-> Nil, status |-> ""]
    OBVIOUS
  <2>3. IsRequest(q)
    BY <2>2 DEF IsRequest
  <2>4. request = [r \in Requests |-> q]
    BY <1>4, <2>1, <2>2 DEF NoRequest
  <2> QED BY <2>3, <2>4 DEF RequestsInv
<1>6. \A r \in Requests : request[r].pc = "none"
  BY <1>4 DEF NoRequest
<1>7. KindInv /\ EndInv
  BY <1>3, <1>6, NilAssumption DEF KindInv, EndInv
<1>8. RingInv
  <2>1. rings = [c \in Channels |-> NewRing]
    BY <1>1 DEF ServerInit
  <2>2. IsRing(NewRing, Users) /\ Members(NewRing) = {}
    BY NewIsRing, NilAssumption
  <2>3. \A c \in Channels : Receiving(c) = {}
    BY <1>3 DEF Receiving
  <2> QED BY <2>1, <2>2, <2>3 DEF RingInv
<1>9. /\ urls = [x \in Senders \cup {Server} |-> [user |-> Nil]]
      /\ sender = [s \in Senders |-> [pc |-> "closed", at |-> 0, sends |-> 0, drained |-> {}, request |-> Nil]]
      /\ origin = [r \in Requests |-> Nil]
  BY <1>1 DEF ClientInit
<1>10. SendersInv
  BY <1>9 DEF SendersInv
<1>11. OriginInv /\ DrainedInv /\ CredentialsAreOwn /\ PayloadSentOnce
  BY <1>9 DEF OriginInv, DrainedInv, CredentialsAreOwn, PayloadSentOnce
<1>12. UrlsInv
  <2>1. PICK n : n = [user |-> Nil]
    OBVIOUS
  <2>2. n.user = Nil /\ n = [user |-> n.user] /\ urls = [x \in Senders \cup {Server} |-> n]
    BY <1>9, <2>1
  <2>3. \A x \in Senders \cup {Server} : urls[x] = n
    BY <2>2
  <2>4. urls = [x \in Senders \cup {Server} |-> [user |-> urls[x].user]]
    BY <2>2, <2>3
  <2> QED BY <2>2, <2>3, <2>4 DEF UrlsInv
<1> QED
  BY <1>2, <1>5, <1>7, <1>8, <1>10, <1>11, <1>12 DEF Inv, ServerInv, ClientInv

LEMMA NextInv == Inv /\ [Next]_vars => Inv'
<1> SUFFICES ASSUME Inv, [Next]_vars PROVE Inv'
  OBVIOUS
<1>1. CASE ServerStep /\ UNCHANGED clientVars
  <2>1. ServerInv' /\ Kept
    BY <1>1, ServerStepInv DEF Inv
  <2>2. UNCHANGED <<urls, sender, origin>>
    BY <1>1 DEF clientVars
  <2>3. UNCHANGED world
    BY <1>1, WorldStays
  <2> QED BY <2>1, <2>2, <2>3, ServerKeepsClients DEF Inv
<1>2. CASE \E s \in Senders : \/ Publisher(s) \/ CallSend(s) \/ SecurityFails(s)
                              \/ DialFails(s) \/ AnswerArrives(s) \/ ConnectionLost(s)
  <2>1. PICK s \in Senders : \/ Publisher(s) \/ CallSend(s) \/ SecurityFails(s)
                             \/ DialFails(s) \/ AnswerArrives(s) \/ ConnectionLost(s)
    BY <1>2
  <2> QED BY <2>1, PublisherInv, CallSendInv, SecurityFailsInv, DialFailsInv, AnswerArrivesInv, ConnectionLostInv DEF Inv
<1>3. CASE \E r \in Requests : NextId(r) /\ (StrangerSends(r) \/ \E s \in Senders : Post(s, r))
  <2>1. PICK r \in Requests : StrangerSends(r) \/ \E s \in Senders : Post(s, r)
    BY <1>3
  <2> QED BY <2>1, StrangerSendsInv, PostInv DEF Inv
<1>4. CASE UNCHANGED vars
  <2>1. UNCHANGED serverVars /\ UNCHANGED <<urls, sender, origin>>
    BY <1>4 DEF vars, clientVars
  <2>2. ServerInv' /\ UNCHANGED <<world, request>>
    BY <2>1, ServerRests
  <2>3. Kept
    BY <2>2 DEF Kept
  <2> QED BY <2>1, <2>2, <2>3, ServerKeepsClients DEF Inv
<1> QED
  BY <1>1, <1>2, <1>3, <1>4 DEF Next

(* The inductive invariant holds in every state. *)
THEOREM Invariance == Spec => []Inv
BY InitInv, NextInv, PTL DEF Spec

(* http: a subscription that a message which cannot be unsealed has        *)
(* cancelled ends with that error, whatever the handlers do meanwhile.     *)
THEOREM ErrorIsReported == Spec => []UnsealErrorIsReported
<1>1. Inv => UnsealErrorIsReported
  BY DEF Inv, ServerInv, EndInv, UnsealErrorIsReported
<1> QED BY <1>1, Invariance, PTL

(* However often answers are lost and Send is called again, no two         *)
(* requests carry the payload of the same envelope.                        *)
THEOREM SentOnce == Spec => []PayloadSentOnce
<1>1. Inv => PayloadSentOnce
  BY DEF Inv, ClientInv
<1> QED BY <1>1, Invariance, PTL

(* A request carries the credentials of its own channel's security, as     *)
(* long as no publisher changes the URL object of the server.              *)
THEOREM OwnCredentials == Spec => []CredentialsAreOwn
<1>1. Inv => CredentialsAreOwn
  BY DEF Inv, ClientInv
<1> QED BY <1>1, Invariance, PTL

-----------------------------------------------------------------------------
(* The callbacks of an address take turns *)

LEMMA InitTurns == Init => Abs!Init
<1> SUFFICES ASSUME Init PROVE Abs!Init
  OBVIOUS
<1>1. rings = [c \in Channels |-> NewRing]
  BY DEF Init, ServerInit
<1>2. Turns(NewRing) = <<>>
  BY DEF NewRing, Turns
<1>3. [c \in Channels |-> Turns(rings[c])] = [c \in Channels |-> <<>>]
  BY <1>1, <1>2
<1> QED BY <1>3 DEF Abs!Init

LEMMA WhoTurns ==
  ASSUME Inv, [Next]_vars
  PROVE  \/ UNCHANGED rings
         \/ \E u \in Users : Receive(u) \/ StopReceiving(u)
         \/ \E r \in Requests : NextCallback(r)
<1>1. ASSUME NEW u \in Users, CallSubscriber(u) \/ Cancel(u) \/ UserStep(u)
      PROVE  UNCHANGED rings \/ Receive(u) \/ StopReceiving(u)
  BY <1>1 DEF CallSubscriber, Cancel, UserStep, Subscriber, EnterEnsure, LeaveEnsure, ReadConnections,
              Return, StopAccepting
<1>2. ASSUME NEW r \in Requests, HandlerStep(r)
      PROVE  UNCHANGED rings \/ NextCallback(r)
  BY <1>2 DEF HandlerStep, CallbackReturns, UnsealFails, CancelsSubscription,
              CallbackOpens, CallbackLocks, Upgrade, CloseOffered, Accept
<1>3. ASSUME NEW s \in Senders, \/ Publisher(s) \/ CallSend(s) \/ SecurityFails(s)
                                \/ DialFails(s) \/ AnswerArrives(s) \/ ConnectionLost(s)
      PROVE  UNCHANGED rings
  BY <1>3 DEF Publisher, CallSend, SecurityFails, DialFails, AnswerArrives, ConnectionLost, serverVars
<1>4. ASSUME NEW r \in Requests, StrangerSends(r) \/ \E s \in Senders : Post(s, r)
      PROVE  UNCHANGED rings
  BY <1>4 DEF StrangerSends, Post, Arrive
<1>5. CASE ServerStep
  <2>1. CASE StopServer
    BY <2>1 DEF StopServer
  <2> QED BY <1>1, <1>2, <1>5, <2>1 DEF ServerStep
<1>6. CASE UNCHANGED vars
  BY <1>6 DEF vars, serverVars
<1> QED
  BY <1>3, <1>4, <1>5, <1>6 DEF Next

(* One ring of them all changes. *)
LEMMA OneTurns ==
  ASSUME Inv, NEW c, NEW a, rings' = [rings EXCEPT ![c] = a]
  PROVE  \/ UNCHANGED rings
         \/ /\ c \in Channels
            /\ [x \in Channels |-> Turns(rings'[x])]
                 = [[x \in Channels |-> Turns(rings[x])] EXCEPT ![c] = Turns(a)]
<1>1. rings = [x \in Channels |-> rings[x]]
  BY DEF Inv, ServerInv, RingInv
<1>2. CASE c \in Channels
  <2>1. rings'[c] = a /\ \A x \in Channels \ {c} : rings'[x] = rings[x]
    BY <1>1, <1>2
  <2>2. PICK turns, b : turns = [x \in Channels |-> Turns(rings[x])] /\ b = Turns(a)
    OBVIOUS
  <2>3. PICK new : new = [x \in Channels |-> Turns(rings'[x])]
    OBVIOUS
  <2>4. new[c] = b /\ \A x \in Channels \ {c} : new[x] = turns[x]
    BY <1>2, <2>1, <2>2, <2>3
  <2>5. new = [turns EXCEPT ![c] = b]
    BY <1>2, <2>2, <2>3, <2>4
  <2> QED BY <1>2, <2>2, <2>3, <2>5
<1>3. CASE c \notin Channels
  BY <1>1, <1>3
<1> QED BY <1>2, <1>3

(* The promise is stated with operators of its own, which are these. *)
LEMMA SameOperators ==
  /\ \A s : Abs!ToSet(s) = ToSet(s)
  /\ \A s, i, e : Abs!InsertAt(s, i, e) = InsertAt(s, i, e)
  /\ \A s, i : Abs!RemoveAt(s, i) = RemoveAt(s, i)
BY DEF Abs!ToSet, ToSet, Abs!InsertAt, InsertAt, Abs!RemoveAt, RemoveAt

LEMMA ReceiveJoins ==
  ASSUME Inv, NEW u \in Users, Receive(u)
  PROVE  UNCHANGED rings \/ \E c \in Channels : Abs!Join(c)
<1>1. PICK c : c = Addr(u)
  OBVIOUS
<1>2. PICK a : a = Appended(rings[c], u) /\ rings' = [rings EXCEPT ![c] = a]
  BY <1>1 DEF Receive
<1>3. CASE UNCHANGED rings
  BY <1>3
<1>4. CASE /\ c \in Channels
           /\ [x \in Channels |-> Turns(rings'[x])]
                = [[x \in Channels |-> Turns(rings[x])] EXCEPT ![c] = Turns(a)]
  <2>1. IsRing(rings[c], Users) /\ Members(rings[c]) = Receiving(c)
    BY <1>4 DEF Inv, ServerInv, RingInv
  <2>2. u \notin Members(rings[c])
    BY <2>1 DEF Receive, Receiving
  <2>3. PICK t : t = Turns(rings[c])
    OBVIOUS
  <2>4. ToSet(t) = Members(rings[c])
    BY <2>1, <2>3, TurnsMembers
  <2>5. PICK i \in (IF t = <<>> THEN {1} ELSE 2 .. Len(t) + 1) : Turns(a) = InsertAt(t, i, u)
    BY <1>2, <2>1, <2>2, <2>3, AppendedJoins
  <2>6. Abs!Join(c)
    <3>1. PICK turns : turns = [x \in Channels |-> Turns(rings[x])]
      OBVIOUS
    <3>2. turns[c] = t
      BY <1>4, <2>3, <3>1
    <3>3. [x \in Channels |-> Turns(rings[x])]' = [turns EXCEPT ![c] = Abs!InsertAt(turns[c], i, u)]
      BY <1>4, <2>5, <3>1, <3>2, SameOperators
    <3>4. u \in Users \ Abs!ToSet(turns[c])
      BY <2>2, <2>4, <3>2, SameOperators
    <3> QED BY <2>5, <3>1, <3>2, <3>3, <3>4 DEF Abs!Join
  <2> QED BY <1>4, <2>6
<1> QED BY <1>2, <1>3, <1>4, OneTurns

LEMMA StopReceivingLeaves ==
  ASSUME Inv, NEW u \in Users, StopReceiving(u)
  PROVE  UNCHANGED rings \/ \E c \in Channels : Abs!Leave(c)
<1>1. PICK c : c = Addr(u)
  OBVIOUS
<1>2. PICK a : a = Removed(rings[c], u) /\ rings' = [rings EXCEPT ![c] = a]
  BY <1>1 DEF StopReceiving
<1>3. CASE UNCHANGED rings
  BY <1>3
<1>4. CASE /\ c \in Channels
           /\ [x \in Channels |-> Turns(rings'[x])]
                = [[x \in Channels |-> Turns(rings[x])] EXCEPT ![c] = Turns(a)]
  <2>1. IsRing(rings[c], Users) /\ Members(rings[c]) = Receiving(c)
    BY <1>4 DEF Inv, ServerInv, RingInv
  <2>2. u \in Members(rings[c])
    BY <1>1, <2>1 DEF StopReceiving, Receiving
  <2>3. PICK t : t = Turns(rings[c])
    OBVIOUS
  <2>4. PICK i \in DOMAIN t : Turns(a) = RemoveAt(t, i)
    BY <1>2, <2>1, <2>2, <2>3, RemovedLeaves
  <2>5. Abs!Leave(c)
    <3>1. PICK turns : turns = [x \in Channels |-> Turns(rings[x])]
      OBVIOUS
    <3>2. turns[c] = t
      BY <1>4, <2>3, <3>1
    <3>3. [x \in Channels |-> Turns(rings[x])]' = [turns EXCEPT ![c] = Abs!RemoveAt(turns[c], i)]
      BY <1>4, <2>4, <3>1, <3>2, SameOperators
    <3> QED BY <2>4, <3>1, <3>2, <3>3 DEF Abs!Leave
  <2> QED BY <1>4, <2>5
<1> QED BY <1>2, <1>3, <1>4, OneTurns

LEMMA NextCallbackServes ==
  ASSUME Inv, NEW r \in Requests, NextCallback(r)
  PROVE  UNCHANGED rings \/ \E c \in Channels : Abs!Serve(c)
<1>1. PICK c : c = request[r].path
  OBVIOUS
<1>2. PICK a : a = Advanced(rings[c]) /\ rings' = [rings EXCEPT ![c] = a]
  BY <1>1 DEF NextCallback
<1>3. CASE UNCHANGED rings
  BY <1>3
<1>4. CASE /\ c \in Channels
           /\ [x \in Channels |-> Turns(rings'[x])]
                = [[x \in Channels |-> Turns(rings[x])] EXCEPT ![c] = Turns(a)]
  <2>1. IsRing(rings[c], Users)
    BY <1>4 DEF Inv, ServerInv, RingInv
  <2>2. PICK t : t = Turns(rings[c])
    OBVIOUS
  <2>3. CASE rings[c].iter = Nil
    <3>1. a = rings[c]
      BY <1>2, <2>1, <2>3, AdvancedServes
    <3>2. rings = [x \in Channels |-> rings[x]]
      BY DEF Inv, ServerInv, RingInv
    <3> QED BY <1>2, <3>1, <3>2
  <2>4. CASE rings[c].iter # Nil
    <3>1. t # <<>> /\ Turns(a) = Append(Tail(t), Head(t))
      BY <1>2, <2>1, <2>2, <2>4, AdvancedServes
    <3>2. Abs!Serve(c)
      BY <1>4, <2>2, <3>1 DEF Abs!Serve
    <3> QED BY <1>4, <3>2
  <2> QED BY <2>3, <2>4
<1> QED BY <1>2, <1>3, <1>4, OneTurns

LEMMA StepTurns == Inv /\ [Next]_vars => [Abs!Next]_([c \in Channels |-> Turns(rings[c])])
<1> SUFFICES ASSUME Inv, [Next]_vars
             PROVE  [Abs!Next]_([c \in Channels |-> Turns(rings[c])])
  OBVIOUS
<1>1. CASE UNCHANGED rings
  BY <1>1
<1>2. CASE \E u \in Users : Receive(u) \/ StopReceiving(u)
  BY <1>1, <1>2, ReceiveJoins, StopReceivingLeaves DEF Abs!Next
<1>3. CASE \E r \in Requests : NextCallback(r)
  BY <1>1, <1>3, NextCallbackServes DEF Abs!Next
<1> QED
  BY <1>1, <1>2, <1>3, WhoTurns

(* The server implements the promise of a ring for every address: the      *)
(* callbacks are called in turn, whoever subscribes and cancels meanwhile. *)
THEOREM CallbacksTakeTurns == Spec => TakesTurns
BY InitTurns, StepTurns, Invariance, PTL DEF Spec, TakesTurns, Abs!Spec
=============================================================================
