------------------------- MODULE SubscriberChannel --------------------------
(***************************************************************************)
(* The Channel of the generated ws, tcp, udp and ip implementations:       *)
(* several goroutines call Receive, the first of them starts readConn,     *)
(* which reads the connection and hands each message to the callback whose *)
(* turn it is in the ring.  A read gives one message, or, with ws, all     *)
(* that wsutil gathered until a message was complete.                      *)
(*                                                                         *)
(* One element of Calls is one call of Receive; it stands for the ring     *)
(* element that call appends.  A goroutine running readConn is named after *)
(* the call that started it.  Go's scheduler interleaves all of them with  *)
(* the callers' contexts, with Close and with the peer.                    *)
(***************************************************************************)
EXTENDS Ring

CONSTANTS
  Calls,      \* calls of Receive
  MaxMsgs     \* messages the peer sends before it falls silent

ASSUME ChannelAssumption ==
  /\ Nil \notin Calls
  /\ MaxMsgs \in Nat

VARIABLES
  kind,       \* "ws", "net" for tcp, udp and ip, or tcp with a bufio.Scanner: a
              \* "fresh scanner", or a "spent scanner", which panics at its first use
  callbacks,  \* the ring
  call,       \* call[c]: how far the call of Receive is
  cancelled,  \* calls whose own context is done
  once,       \* sync.Once has fired
  reader,     \* reader[c]: how far the readConn goroutine started by c is
  held,       \* held[c]: the messages of its last read it has still to hand over
  chosen,     \* chosen[c]: the callback it took from the ring
  cause,      \* why the channel's context is done, "live" while it is not
  closing,    \* Close was not called ("no"), has "cancelled" or is "done"
  conn,       \* "open", or "closed" by either side
  before,     \* messages the reads before the last one gave
  sent,       \* messages read from the connection so far
  delivered,  \* what callbacks were given: <<call, message>>
  late        \* calls whose callback ran after Receive had returned

receivers  == <<callbacks, call, cancelled, once>>
goroutines == <<reader, held, chosen>>
channel    == <<cause, closing, conn>>
received   == <<before, sent, delivered, late>>

vars == <<kind, receivers, goroutines, channel, received>>

Init ==
  /\ kind \in {"ws", "net", "fresh scanner", "spent scanner"}
  /\ callbacks = NewRing
  /\ call = [c \in Calls |-> "not called"]
  /\ cancelled = {}
  /\ once = FALSE
  /\ reader = [c \in Calls |-> "none"]
  /\ held = [c \in Calls |-> <<>>]
  /\ chosen = [c \in Calls |-> Nil]
  /\ cause = "live"
  /\ closing = "no"
  /\ conn = "open"
  /\ before = 0
  /\ sent = 0
  /\ delivered = <<>>
  /\ late = {}

(* The first cancel of a context decides its cause. *)
CancelChannel(why) == cause' = IF cause = "live" THEN why ELSE cause

-----------------------------------------------------------------------------
(* Receive *)

(* Mutant: the reader is started before the callback is in the ring. *)
AppendCallbackLast(c) ==
  /\ call[c] = "not called"
  /\ IF once THEN /\ callbacks' = Appended(callbacks, c)
                  /\ call' = [call EXCEPT ![c] = "appended"]
                  /\ UNCHANGED <<once, reader>>
             ELSE /\ once' = TRUE
                  /\ reader' = [reader EXCEPT ![c] = "reading"]
                  /\ UNCHANGED <<callbacks, call>>
  /\ UNCHANGED <<kind, cancelled, held, chosen, channel, received>>

AppendCallback(c) ==
  /\ call[c] = "not called"
  /\ callbacks' = Appended(callbacks, c)
  /\ call' = [call EXCEPT ![c] = "appended"]
  /\ UNCHANGED <<kind, cancelled, once, goroutines, channel, received>>

(* Mutant: every call starts a reader. *)
StartReaderAlways(c) ==
  /\ call[c] = "appended"
  /\ reader' = [reader EXCEPT ![c] = "reading"]
  /\ once' = TRUE
  /\ call' = [call EXCEPT ![c] = "waiting"]
  /\ UNCHANGED <<kind, callbacks, cancelled, held, chosen, channel, received>>

StartReader(c) ==
  /\ call[c] = "appended"
  /\ reader' = IF once THEN reader ELSE [reader EXCEPT ![c] = "reading"]
  /\ once' = TRUE
  /\ call' = [call EXCEPT ![c] = "waiting"]
  /\ UNCHANGED <<kind, callbacks, cancelled, held, chosen, channel, received>>

(* The select ends: the call's context or the channel's is done. *)
StopWaiting(c) ==
  /\ call[c] = "waiting"
  /\ c \in cancelled \/ cause # "live"
  /\ call' = [call EXCEPT ![c] = "returning"]
  /\ UNCHANGED <<kind, callbacks, cancelled, once, goroutines, channel, received>>

(* Mutant: the callback stays in the ring. *)
RemoveCallbackForgotten(c) ==
  /\ call[c] = "returning"
  /\ call' = [call EXCEPT ![c] = "returned"]
  /\ UNCHANGED <<kind, callbacks, cancelled, once, goroutines, channel, received>>

(* The deferred Remove, then Receive returns. *)
RemoveCallback(c) ==
  /\ call[c] = "returning"
  /\ callbacks' = Removed(callbacks, c)
  /\ call' = [call EXCEPT ![c] = "returned"]
  /\ UNCHANGED <<kind, cancelled, once, goroutines, channel, received>>

-----------------------------------------------------------------------------
(* readConn *)

(* Scanner.Buffer is called before every Scan and panics after the first.  *)
Panics == kind = "spent scanner" \/ (kind = "fresh scanner" /\ sent > 0)

(* What one read gives is numbered in the order of the connection.         *)
ReadMessages(c) ==
  /\ reader[c] = "reading" /\ conn = "open" /\ ~Panics
  /\ \E n \in 1 .. MaxMsgs - sent :
       /\ kind # "ws" => n = 1
       /\ held' = [held EXCEPT ![c] = [i \in 1 .. n |-> sent + i]]
       /\ sent' = sent + n
  /\ before' = sent
  /\ reader' = [reader EXCEPT ![c] = IF kind = "ws" THEN "checking" ELSE "has message"]
  /\ UNCHANGED <<kind, receivers, chosen, channel, delivered, late>>

(* A read that fails ends the goroutine; ws then drops what it had already *)
(* gathered.                                                               *)
ReadError(c) ==
  /\ reader[c] = "reading" /\ ~Panics
  /\ \E n \in 0 .. MaxMsgs - sent :
       /\ kind # "ws" => n = 0
       /\ sent' = sent + n
       /\ before' = IF n = 0 THEN before ELSE sent
  /\ reader' = [reader EXCEPT ![c] = "ended"]
  /\ CancelChannel("connection error")
  /\ UNCHANGED <<kind, receivers, held, chosen, closing, conn, delivered, late>>

(* Mutant: the goroutine ends without cancelling the channel. *)
ReadFailsQuietly(c) ==
  /\ reader[c] = "reading" /\ ~Panics /\ conn = "closed"
  /\ reader' = [reader EXCEPT ![c] = "ended"]
  /\ UNCHANGED <<kind, receivers, held, chosen, channel, received>>

ReadFails(c) == conn = "closed" /\ ReadError(c)

(* The connection is open, but what arrives is no message: a frame out of  *)
(* place, a token too long, an error the network reports.                  *)
ReadRefused(c) == conn = "open" /\ ReadError(c)

(* The deferred cancel runs while the goroutine panics.                    *)
BufferPanics(c) ==
  /\ reader[c] = "reading" /\ Panics
  /\ reader' = [reader EXCEPT ![c] = "panicking"]
  /\ CancelChannel("closed")
  /\ UNCHANGED <<kind, receivers, held, chosen, closing, conn, received>>

(* Nothing recovers the panic: the process ends, other goroutines and all. *)
Dies(c) ==
  /\ reader[c] = "panicking"
  /\ reader' = [reader EXCEPT ![c] = "panicked"]
  /\ UNCHANGED <<kind, receivers, held, chosen, channel, received>>

Crashed == \E c \in Calls : reader[c] = "panicked"

(* ws: all the messages in hand are dropped when the channel is done.      *)
CheckDone(c) ==
  /\ reader[c] = "checking"
  /\ IF cause = "live"
     THEN reader' = [reader EXCEPT ![c] = "has message"] /\ held' = held
     ELSE reader' = [reader EXCEPT ![c] = "ended"] /\ held' = [held EXCEPT ![c] = <<>>]
  /\ UNCHANGED <<kind, receivers, chosen, channel, received>>

TakeCallback(c) ==
  /\ reader[c] = "has message"
  /\ callbacks.iter # Nil
  /\ chosen' = [chosen EXCEPT ![c] = callbacks.iter]
  /\ callbacks' = Advanced(callbacks)
  /\ reader' = [reader EXCEPT ![c] = "calling"]
  /\ UNCHANGED <<kind, call, cancelled, once, held, channel, received>>

NoSubscribers(c) ==
  /\ reader[c] = "has message"
  /\ callbacks.iter = Nil
  /\ reader' = [reader EXCEPT ![c] = "ended"]
  /\ held' = [held EXCEPT ![c] = <<>>]
  /\ CancelChannel("no subscribers")
  /\ UNCHANGED <<kind, receivers, chosen, closing, conn, received>>

(* The callback runs to its end on the reader's goroutine, which goes on   *)
(* with the next message in hand or reads again.                           *)
RunCallback(c) ==
  /\ reader[c] = "calling"
  /\ delivered' = Append(delivered, <<chosen[c], Head(held[c])>>)
  /\ held' = [held EXCEPT ![c] = Tail(@)]
  /\ late' = IF call[chosen[c]] = "returned" THEN late \cup {chosen[c]} ELSE late
  /\ reader' = [reader EXCEPT ![c] = IF Len(held[c]) = 1 THEN "reading" ELSE "checking"]
  /\ chosen' = [chosen EXCEPT ![c] = Nil]
  /\ UNCHANGED <<kind, receivers, channel, before, sent>>

-----------------------------------------------------------------------------
(* The user and the peer *)

CancelCall(c) ==
  /\ c \notin cancelled
  /\ cancelled' = cancelled \cup {c}
  /\ UNCHANGED <<kind, callbacks, call, once, goroutines, channel, received>>

(* Close cancels the channel, then closes the connection. *)
CloseChannel ==
  /\ closing = "no"
  /\ closing' = "cancelled"
  /\ CancelChannel("closed")
  /\ UNCHANGED <<kind, receivers, goroutines, conn, received>>

(* Mutant: Close leaves the connection open. *)
CloseConnNot ==
  /\ closing = "cancelled"
  /\ closing' = "done"
  /\ UNCHANGED <<kind, receivers, goroutines, cause, conn, received>>

CloseConn ==
  /\ closing = "cancelled"
  /\ closing' = "done"
  /\ conn' = "closed"
  /\ UNCHANGED <<kind, receivers, goroutines, cause, received>>

PeerCloses ==
  /\ conn = "open"
  /\ conn' = "closed"
  /\ UNCHANGED <<kind, receivers, goroutines, cause, closing, received>>

(* What a goroutine of Receive and of readConn does without waiting for    *)
(* the peer.                                                               *)
ReceiveGoesOn(c) == StartReader(c) \/ StopWaiting(c) \/ RemoveCallback(c)

readConnGoesOn(c) ==
  \/ ReadFails(c) \/ BufferPanics(c) \/ Dies(c) \/ CheckDone(c)
  \/ TakeCallback(c) \/ NoSubscribers(c) \/ RunCallback(c)

Receive(c) == AppendCallback(c) \/ ReceiveGoesOn(c)

readConn(c) == ReadMessages(c) \/ ReadRefused(c) \/ readConnGoesOn(c)

Next ==
  /\ ~Crashed
  /\ \/ \E c \in Calls : Receive(c) \/ readConn(c) \/ CancelCall(c)
     \/ CloseChannel \/ CloseConn \/ PeerCloses

(* Goroutines that can go on do while the process lives; nobody has to     *)
(* call Receive, to cancel, to send or to close.                           *)
Fairness ==
  /\ \A c \in Calls : WF_vars(~Crashed /\ ReceiveGoesOn(c))
  /\ \A c \in Calls : WF_vars(~Crashed /\ readConnGoesOn(c))
  /\ WF_vars(~Crashed /\ CloseConn)

Spec == Init /\ [][Next]_vars /\ Fairness

-----------------------------------------------------------------------------
(* Properties *)

InHand == {c \in Calls : reader[c] \in {"checking", "has message", "calling"}}

(* Callbacks get the messages that were read, once and in the order of the *)
(* connection, whatever calls come and go.  Only messages of the last read *)
(* may be missing, which for all but ws is one, and only while the reader  *)
(* has them in hand or when it has ended and the channel is done.          *)
InOrderWithoutGaps ==
  /\ \A i \in DOMAIN delivered : delivered[i][2] = i
  /\ before <= Len(delivered) /\ Len(delivered) <= sent
  /\ kind # "ws" => sent - before <= 1
  /\ \/ Len(delivered) = sent
     \/ InHand # {}
     \/ cause # "live" /\ \E c \in Calls : reader[c] = "ended"

(* A callback may be running, or about to, when its Receive returns, but   *)
(* that happens once: the reader took it before it left the ring.          *)
OneLateCallback ==
  [][\A c \in late : \A i \in DOMAIN delivered' \ DOMAIN delivered :
        delivered'[i][1] # c]_vars

(* The reader gives up for want of subscribers only after some call has    *)
(* ended: the call that starts it is in the ring before it looks.          *)
NoSubscribersIsTrue ==
  cause = "no subscribers" => \E c \in cancelled : call[c] = "returned"

(* When the connection breaks, the channel is closed or the reader gives   *)
(* up, every pending Receive returns, and so it does on its own context;   *)
(* only tcp with a Scanner ends the process instead.                       *)
ReceiveReturns ==
  \A c \in Calls :
    (call[c] \in {"appended", "waiting"} /\ (conn = "closed" \/ cause # "live" \/ c \in cancelled))
      ~> (call[c] = "returned" \/ (Crashed /\ kind \in {"fresh scanner", "spent scanner"}))

(* Closing the channel ends its goroutine. *)
ReaderStops ==
  \A c \in Calls :
    (cause # "live" /\ reader[c] # "none") ~> reader[c] \in {"ended", "panicked"}
=============================================================================
