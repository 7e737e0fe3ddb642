------------------------------ MODULE HttpEcho -------------------------------
(***************************************************************************)
(* The http-server example with its clients: senders publish through the   *)
(* generated ProduceClient and PublishChannel, the network loses answers,  *)
(* and the consumer of the same package serves the requests.  A sender     *)
(* that gets an error calls Send once more with the same envelopes, or     *)
(* with new ones (world.senders[s].fresh).  Requests of other programs,    *)
(* such as curl or a websocket client, come from world.strangers.          *)
(***************************************************************************)
EXTENDS Consumers

CONSTANTS Senders, MaxSends

VARIABLES
  urls,    \* the url.URL objects: that of the server and those of the channels
  sender,
  origin   \* the envelope a request was made of, and whether its body was in it

clientVars == <<urls, sender, origin>>
vars == <<serverVars, clientVars>>

(* An address "" leaves the publisher with the URL of the server itself.   *)
Server == "server"

ASSUME ServerAssumption == Server \notin Senders

(* Mutant: the address is appended to the server's URL in place. *)
UrlOfServer(s) == Server

UrlOf(s) == IF world.senders[s].address = "" THEN Server ELSE s

ClientInit ==
  /\ urls = [x \in Senders \cup {Server} |-> [user |-> Nil]]
  /\ sender = [s \in Senders |-> [pc |-> "closed", at |-> 0, sends |-> 0, drained |-> {}, request |-> Nil]]
  /\ origin = [r \in Requests |-> Nil]

Init == ServerInit /\ ClientInit

(* OpenEchoChannelHTTP.  JoinPath copies the server's URL as it is now. *)
Publisher(s) ==
  /\ sender[s].pc = "closed" /\ Len(world.senders[s].envelopes) > 0
  /\ urls' = [urls EXCEPT ![UrlOf(s)] = urls[Server]]
  /\ sender' = [sender EXCEPT ![s].pc = "open"]
  /\ UNCHANGED <<serverVars, origin>>

(* A fresh call seals the messages into new envelopes. *)
CallSend(s) ==
  /\ sender[s].pc \in {"open", "failed"} /\ sender[s].sends < MaxSends
  /\ sender' = [sender EXCEPT ![s].pc = "sending", ![s].at = 1, ![s].sends = @ + 1,
                              ![s].drained = IF world.senders[s].fresh THEN {} ELSE @]
  /\ UNCHANGED <<serverVars, urls, origin>>

(* The user part of the URL once the security is applied to it. *)
ApplySecurity(sec, cred) ==
  CASE sec.scheme = "none"  -> cred
    [] sec.scheme = "basic" -> [user |-> sec.user, password |-> sec.key]
    [] sec.scheme = "user"  -> [user |-> sec.key, password |-> ""]
    [] OTHER                -> [user |-> IF cred = Nil THEN "" ELSE cred.user, password |-> sec.key]

Supported(sec) == sec.scheme # "other"

Secured(s) == [urls EXCEPT ![UrlOf(s)].user = ApplySecurity(world.senders[s].security, @)]

Envelope(s) == [sender |-> s, at |-> sender[s].at,
                call |-> IF world.senders[s].fresh THEN sender[s].sends ELSE 1]

(* Mutant: every request gets a copy of the body. *)
BodyLeftCopied(s) == TRUE

(* The body is a buffer, and the transport reads it to its end. *)
BodyLeft(s) == sender[s].at \notin sender[s].drained

(* Whether the consumer can read the payload: there is one, and it is good. *)
Payload(s) == BodyLeft(s) /\ world.senders[s].envelopes[sender[s].at]

SendFails(s) == sender' = [sender EXCEPT ![s].pc = "failed"]

SecurityFails(s) ==
  /\ sender[s].pc = "sending" /\ ~Supported(world.senders[s].security)
  /\ SendFails(s)
  /\ UNCHANGED <<serverVars, urls, origin>>

DialFails(s) ==
  /\ sender[s].pc = "sending" /\ Supported(world.senders[s].security)
  /\ urls' = Secured(s)
  /\ SendFails(s)
  /\ UNCHANGED <<serverVars, origin>>

Post(s, r) ==
  /\ sender[s].pc = "sending" /\ Supported(world.senders[s].security)
  /\ urls' = Secured(s)
  /\ Arrive(r, [path   |-> IF world.senders[s].address = "" THEN Root ELSE world.senders[s].address,
                method |-> world.senders[s].method,
                cred   |-> urls'[UrlOf(s)].user,
                good   |-> Payload(s)])
  /\ origin' = [origin EXCEPT ![r] = [envelope |-> Envelope(s), full |-> BodyLeft(s)]]
  /\ sender' = [sender EXCEPT ![s].pc = "waiting", ![s].request = r,
                              ![s].drained = @ \cup {sender[s].at}]

(* Any status will do. *)
AnswerArrives(s) ==
  /\ sender[s].pc = "waiting" /\ request[sender[s].request].pc = "answered"
  /\ sender' = [sender EXCEPT ![s].at = @ + 1, ![s].request = Nil,
                  ![s].pc = IF sender[s].at = Len(world.senders[s].envelopes) THEN "sent" ELSE "sending"]
  /\ UNCHANGED <<serverVars, urls, origin>>

(* The request goes on without its sender. *)
ConnectionLost(s) ==
  /\ sender[s].pc = "waiting"
  /\ sender' = [sender EXCEPT ![s].pc = "failed", ![s].request = Nil]
  /\ UNCHANGED <<serverVars, urls, origin>>

SenderStep(s) == SecurityFails(s) \/ AnswerArrives(s) \/ \E r \in Requests : Post(s, r)

StrangerSends(r) ==
  /\ \E q \in world.strangers : Arrive(r, q)
  /\ UNCHANGED clientVars

(* world.requests bounds the requests; which of them is next does not matter. *)
NextId(r) ==
  LET unused == {q \in world.requests : request[q].pc = "none"}
  IN r \in unused /\ r = CHOOSE q \in unused : TRUE

Next ==
  /\ ~crashed
  /\ \/ ServerStep /\ UNCHANGED clientVars
     \/ \E s \in Senders : \/ Publisher(s) \/ CallSend(s) \/ SecurityFails(s)
                           \/ DialFails(s) \/ AnswerArrives(s) \/ ConnectionLost(s)
     \/ \E r \in Requests : NextId(r) /\ (StrangerSends(r) \/ \E s \in Senders : Post(s, r))

Spec == Init /\ [][Next]_vars /\ ServerFairness /\ \A s \in Senders : WF_vars(SenderStep(s))

-----------------------------------------------------------------------------
(* Whatever is lost and sent again, the payload of an envelope reaches the *)
(* server once: a second request for it has an empty body.                 *)
PayloadSentOnce ==
  \A q, r \in Requests :
    q # r /\ origin[q] # Nil /\ origin[r] # Nil /\ origin[q].full /\ origin[r].full
      => origin[q].envelope # origin[r].envelope

(* A request carries what its own security says and nothing another        *)
(* channel left behind, unless a publisher of an address "" changes the    *)
(* URL object of the server that the others are made from.                 *)
SomeoneChangesTheServer ==
  \E s \in Senders : Len(world.senders[s].envelopes) > 0
                     /\ world.senders[s].address = "" /\ world.senders[s].security.scheme # "none"

CredentialsAreOwn ==
  \A r \in Requests :
    origin[r] # Nil /\ ~SomeoneChangesTheServer =>
      request[r].cred = ApplySecurity(world.senders[origin[r].envelope.sender].security, Nil)
=============================================================================
