----------------------------- MODULE MCConsumers -----------------------------
(***************************************************************************)
(* Two subscribers, three requests.  http worlds: one or two addresses,    *)
(* raw, typed and opening callbacks, two senders or curl; ws worlds: two   *)
(* calls of Subscriber on one or two addresses, and good and bad           *)
(* handshakes.                                                             *)
(***************************************************************************)
EXTENDS HttpEcho

MCUsers == {"u1", "u2"}
MCSenders == {"s1", "s2"}
MCRoot == "root"
MCChannels == {"root", "echo"}

None == [scheme |-> "none", user |-> "", key |-> ""]
Basic == [scheme |-> "basic", user |-> "ann", key |-> "x"]
Password == [scheme |-> "password", user |-> "", key |-> "y"]
UserKey == [scheme |-> "user", user |-> "", key |-> "z"]
Other == [scheme |-> "other", user |-> "", key |-> ""]

Absent == [address |-> Nil, method |-> "", security |-> None, typed |-> FALSE, opens |-> FALSE]
Raw(a) == [Absent EXCEPT !.address = a]
Typed(a) == [Raw(a) EXCEPT !.typed = TRUE]
Opening(a) == [Raw(a) EXCEPT !.opens = TRUE]
Secure(u, sec) == [u EXCEPT !.security = sec]
Users2(a, b) == [u \in MCUsers |-> IF u = "u1" THEN a ELSE b]

Silent == [address |-> "echo", method |-> "POST", security |-> None, fresh |-> FALSE, envelopes |-> <<>>]
Sends(a, sec, fresh, envelopes) ==
  [Silent EXCEPT !.address = a, !.security = sec, !.fresh = fresh, !.envelopes = envelopes]
Senders2(a, b) == [s \in MCSenders |-> IF s = "s1" THEN a ELSE b]

Curl(path, method, cred, good) == [path |-> path, method |-> method, cred |-> cred, good |-> good]

World(kind, bound, sec, users, senders, strangers) ==
  [kind |-> kind, requests |-> bound,
   security |-> sec, users |-> users, senders |-> senders, strangers |-> strangers]

Two == {"r1", "r2"}
Three == {"r1", "r2", "r3"}
Nobody == Senders2(Silent, Silent)
GoodCurl == Curl("echo", "POST", Nil, TRUE)
BadCurl == Curl("echo", "POST", Nil, FALSE)

HttpWorlds ==
  { (* turns of two subscribers, raw and typed *)
    World("http", Three, None, Users2(Raw("echo"), Raw("echo")), Nobody, {GoodCurl}),
    World("http", Two, None, Users2(Typed("echo"), Typed("echo")), Nobody, {GoodCurl, BadCurl}),
    World("http", Two, None, Users2(Typed("echo"), Raw("root")), Nobody, {BadCurl}),
    (* a callback that opens the other address, or its own *)
    World("http", Two, None, Users2(Opening("echo"), Raw("root")), Nobody, {GoodCurl}),
    (* the first subscriber decides on method and security *)
    World("http", Two, Basic, Users2([Raw("echo") EXCEPT !.method = "PUT"], Secure(Raw("echo"), UserKey)), Nobody,
          {Curl("echo", "POST", [user |-> "z", password |-> ""], TRUE),
           Curl("echo", "PUT", [user |-> "ann", password |-> "x"], TRUE)}),
    World("http", Two, None, Users2(Secure(Raw("echo"), Password), Secure(Raw("root"), Other)), Nobody,
          {Curl("echo", "POST", [user |-> "", password |-> "y"], TRUE), Curl("root", "POST", Nil, TRUE),
           Curl("root", "POST", [user |-> "", password |-> "y"], TRUE)}),
    (* senders *)
    World("http", Three, None, Users2(Raw("echo"), Absent),
          Senders2(Sends("echo", None, FALSE, <<TRUE, TRUE>>), Silent), {}),
    World("http", Two, None, Users2(Raw("echo"), Absent),
          Senders2(Sends("echo", None, FALSE, <<TRUE>>), Sends("echo", Password, TRUE, <<TRUE>>)), {}),
    World("http", Two, None, Users2(Raw("root"), Absent),
          Senders2(Sends("", None, FALSE, <<TRUE>>), Sends("echo", Basic, FALSE, <<TRUE>>)), {}),
    World("http", Two, None, Users2(Raw("root"), Absent),
          Senders2(Sends("", UserKey, FALSE, <<TRUE>>), Sends("echo", Password, FALSE, <<FALSE>>)), {}),
    World("http", Two, None, Users2(Typed("echo"), Absent),
          Senders2(Sends("echo", Other, FALSE, <<TRUE>>), Sends("echo", UserKey, FALSE, <<FALSE>>)), {}) }

WsWorlds ==
  { World("ws", Three, None, Users2(Raw("echo"), Raw("echo")), Nobody, {GoodCurl}),
    World("ws", Two, None, Users2(Raw("echo"), Raw("root")), Nobody, {GoodCurl, BadCurl}) }

MCWorlds == HttpWorlds \cup WsWorlds
=============================================================================
