----------------------- MODULE SubscriberChannelProofs ----------------------
(***************************************************************************)
(* The order of delivery and the end of a subscription, for any number of  *)
(* calls of Receive and of messages.                                       *)
(***************************************************************************)
EXTENDS SubscriberChannel, RingProofs

-----------------------------------------------------------------------------
(* The inductive invariant *)

Waiting == {"appended", "waiting", "returning"}

Doing == {"none", "reading", "checking", "has message", "calling", "ended", "panicking", "panicked"}

TypeInv ==
  /\ call \in [Calls -> {"not called", "returned"} \cup Waiting]
  /\ reader \in [Calls -> Doing]
  /\ held \in [Calls -> Seq(Nat)]
  /\ chosen \in [Calls -> Calls \cup {Nil}]
  /\ before \in Nat /\ sent \in Nat
  /\ delivered \in Seq(Calls \X Nat)
  /\ cancelled \subseteq Calls /\ late \subseteq Calls

(* One goroutine reads, and the call that started it is in the ring or has *)
(* returned.                                                               *)
ReaderInv ==
  /\ \A c, d \in Calls : reader[c] # "none" /\ reader[d] # "none" => c = d
  /\ ~once => \A c \in Calls : reader[c] = "none"
  /\ \A c \in Calls : reader[c] # "none" => call[c] \notin {"not called", "appended"}

(* What c has in hand are the messages after those delivered. *)
Rest(c) ==
  /\ Len(delivered) < sent
  /\ Len(held[c]) = sent - Len(delivered)
  /\ \A i \in 1 .. Len(held[c]) : held[c][i] = Len(delivered) + i

(* The reader has in hand what is not delivered yet, in its order; what is *)
(* missing when it has ended is the rest of the last read.                 *)
OrderInv ==
  /\ InOrderWithoutGaps
  /\ ~once => Len(delivered) = sent
  /\ \A c \in Calls : reader[c] \in {"reading", "panicking", "panicked"} => Len(delivered) = sent
  /\ \A c \in InHand : Rest(c)

RingInv ==
  /\ IsRing(callbacks, Calls)
  /\ Members(callbacks) = {c \in Calls : call[c] \in Waiting}

EndInv ==
  /\ NoSubscribersIsTrue
  /\ \A c \in Calls : call[c] \in {"returning", "returned"} => c \in cancelled \/ cause # "live"

LateInv ==
  /\ \A c \in late : call[c] = "returned"
  /\ \A c \in Calls : reader[c] = "calling" => chosen[c] \in Calls \ late

Inv == TypeInv /\ ReaderInv /\ OrderInv /\ RingInv /\ EndInv /\ LateInv

-----------------------------------------------------------------------------
LEMMA InitInv == Init => Inv
<1> SUFFICES ASSUME Init
             PROVE  Inv
  OBVIOUS
<1> USE DEF Init
<1>1. TypeInv
  <2>1. before \in Nat /\ sent \in Nat /\ delivered \in Seq(Calls \X Nat)
    <3>1. delivered = <<>> /\ sent = 0 /\ before = 0
      OBVIOUS
    <3> HIDE DEF Init
    <3> QED BY <3>1
  <2>2. held \in [Calls -> Seq(Nat)] /\ chosen \in [Calls -> Calls \cup {Nil}]
    <3>1. held = [c \in Calls |-> <<>>] /\ chosen = [c \in Calls |-> Nil]
      OBVIOUS
    <3> HIDE DEF Init
    <3> QED BY <3>1
  <2>3. cancelled \subseteq Calls /\ late \subseteq Calls
    OBVIOUS
  <2>4. /\ call \in [Calls -> {"not called", "returned"} \cup Waiting]
        /\ reader \in [Calls -> Doing]
    BY DEF Waiting, Doing
  <2> QED BY <2>1, <2>2, <2>3, <2>4 DEF TypeInv
<1>2. ReaderInv
  BY DEF ReaderInv
<1>3. OrderInv
  <2>1. InHand = {} /\ sent = 0 /\ before = 0
    BY DEF InHand
  <2>2. Len(delivered) = 0 /\ DOMAIN delivered = {}
    <3>1. delivered = <<>>
      OBVIOUS
    <3> HIDE DEF Init
    <3> QED BY <3>1
  <2>3. \A c \in Calls : c \notin InHand
    BY <2>1
  <2> HIDE DEF Init
  <2> QED BY <2>1, <2>2, <2>3 DEF OrderInv, InOrderWithoutGaps
<1>4. RingInv
  BY ChannelAssumption, NewIsRing DEF RingInv, Waiting
<1>5. EndInv
  BY DEF EndInv, NoSubscribersIsTrue
<1>6. LateInv
  BY DEF LateInv
<1> QED
  BY <1>1, <1>2, <1>3, <1>4, <1>5, <1>6 DEF Inv

LEMMA AppendCallbackInv ==
  ASSUME Inv, NEW c \in Calls, AppendCallback(c)
  PROVE  Inv'
<1> USE DEF Inv, AppendCallback, receivers, goroutines, channel, received, CancelChannel
<1>1. TypeInv'
  BY DEF TypeInv, Waiting, Doing
<1>2. ReaderInv'
  BY DEF ReaderInv, TypeInv
<1>3. OrderInv'
  BY DEF OrderInv, InOrderWithoutGaps, InHand, Rest, TypeInv
<1>4. RingInv'
  <2>1. c \notin Members(callbacks)
    BY DEF RingInv, Waiting
  <2>2. IsRing(callbacks', Calls) /\ Members(callbacks)' = Members(callbacks) \cup {c}
    <3>1. IsRing(callbacks, Calls) /\ callbacks' = Appended(callbacks, c)
      BY DEF RingInv
    <3>2. Members(callbacks)' = Members(callbacks')
      BY DEF Members
    <3> HIDE DEF AppendCallback, Inv
    <3>3. PICK r : r = callbacks
      OBVIOUS
    <3>4. IsRing(Appended(r, c), Calls) /\ Members(Appended(r, c)) = Members(r) \cup {c}
      BY <2>1, <3>1, <3>3, ChannelAssumption, AppendedIsRing
    <3> QED BY <3>1, <3>2, <3>3, <3>4
  <2>3. \A d \in Calls : call'[d] \in Waiting <=> call[d] \in Waiting \/ d = c
    BY DEF TypeInv, Waiting, Doing
  <2>4. Members(callbacks) = {d \in Calls : call[d] \in Waiting}
    BY DEF RingInv
  <2> HIDE DEF AppendCallback, Inv
  <2> QED BY <2>2, <2>3, <2>4 DEF RingInv
<1>5. EndInv'
  BY DEF EndInv, NoSubscribersIsTrue, TypeInv
<1>6. LateInv'
  BY DEF LateInv, TypeInv
<1> QED
  BY <1>1, <1>2, <1>3, <1>4, <1>5, <1>6 DEF Inv

LEMMA RemoveCallbackInv ==
  ASSUME Inv, NEW c \in Calls, RemoveCallback(c)
  PROVE  Inv'
<1> USE DEF Inv, RemoveCallback, receivers, goroutines, channel, received, CancelChannel
<1>1. TypeInv'
  BY DEF TypeInv, Waiting, Doing
<1>2. ReaderInv'
  BY DEF ReaderInv, TypeInv
<1>3. OrderInv'
  BY DEF OrderInv, InOrderWithoutGaps, InHand, Rest, TypeInv
<1>4. RingInv'
  <2>1. c \in Members(callbacks)
    BY DEF RingInv, Waiting
  <2>2. IsRing(callbacks', Calls) /\ Members(callbacks)' = Members(callbacks) \ {c}
    <3>1. IsRing(callbacks, Calls) /\ callbacks' = Removed(callbacks, c)
      BY DEF RingInv
    <3>2. Members(callbacks)' = Members(callbacks')
      BY DEF Members
    <3> QED BY <2>1, <3>1, <3>2, RemovedIsRing
  <2> QED BY <2>2 DEF RingInv, TypeInv, Waiting
<1>5. EndInv'
  BY DEF EndInv, NoSubscribersIsTrue, TypeInv
<1>6. LateInv'
  BY DEF LateInv, TypeInv
<1> QED
  BY <1>1, <1>2, <1>3, <1>4, <1>5, <1>6 DEF Inv

LEMMA ReadMessagesInv ==
  ASSUME Inv, NEW c \in Calls, ReadMessages(c)
  PROVE  Inv'
<1> DEFINE Given(n) == [i \in 1 .. n |-> sent + i]
<1>1. PICK n \in 1 .. MaxMsgs - sent : /\ kind # "ws" => n = 1
                                      /\ held' = [held EXCEPT ![c] = Given(n)]
                                      /\ sent' = sent + n
  BY DEF ReadMessages
<1>2. n \in Nat /\ n > 0 /\ sent \in Nat
  <2>1. sent \in Nat /\ MaxMsgs \in Nat
    BY ChannelAssumption DEF Inv, TypeInv
  <2> QED BY <1>1, <2>1
<1>3. Given(n) \in Seq(Nat) /\ Len(Given(n)) = n /\ \A i \in 1 .. n : Given(n)[i] = sent + i
  BY <1>2
<1>4. /\ before' = sent /\ delivered' = delivered /\ once' = once /\ kind' = kind
      /\ call' = call /\ chosen' = chosen /\ late' = late /\ cancelled' = cancelled
      /\ callbacks' = callbacks /\ cause' = cause
  BY DEF ReadMessages, receivers, channel
<1>5. /\ reader[c] = "reading" /\ reader' = [reader EXCEPT ![c] = reader'[c]]
      /\ reader'[c] \in {"checking", "has message"}
  BY DEF ReadMessages, Inv, TypeInv
<1> HIDE DEF Given
<1>6. TypeInv'
  <2>1. sent' \in Nat /\ before' \in Nat
    BY <1>1, <1>2, <1>4
  <2>2. held' \in [Calls -> Seq(Nat)]
    BY <1>1, <1>3 DEF Inv, TypeInv
  <2>3. reader' \in [Calls -> Doing]
    BY <1>5 DEF Inv, TypeInv, Doing
  <2> QED BY <1>4, <2>1, <2>2, <2>3 DEF Inv, TypeInv
<1>7. ReaderInv'
  BY <1>4, <1>5 DEF Inv, ReaderInv, TypeInv
<1>8. OrderInv'
  <2>1. Len(delivered) = sent
    BY <1>5 DEF Inv, OrderInv
  <2>2. \A d \in Calls : reader[d] # "none" <=> d = c
    BY <1>5 DEF Inv, ReaderInv
  <2>3. InHand' = {c} /\ \A d \in Calls : reader'[d] \notin {"reading", "panicking", "panicked"}
    BY <1>5, <2>2 DEF InHand, Inv, TypeInv
  <2>4. held'[c] = Given(n)
    BY <1>1 DEF Inv, TypeInv
  <2>5. Rest(c)'
    BY <1>1, <1>2, <1>3, <1>4, <2>1, <2>4 DEF Rest
  <2>6. once'
    BY <1>4, <1>5 DEF Inv, ReaderInv
  <2>7. InOrderWithoutGaps'
    <3>1. \A i \in DOMAIN delivered' : delivered'[i][2] = i
      BY <1>4 DEF Inv, OrderInv, InOrderWithoutGaps
    <3>2. before' <= Len(delivered') /\ Len(delivered') <= sent' /\ (kind' # "ws" => sent' - before' <= 1)
      BY <1>1, <1>2, <1>4, <2>1
    <3> QED BY <2>3, <3>1, <3>2 DEF InOrderWithoutGaps
  <2> QED BY <2>3, <2>5, <2>6, <2>7 DEF OrderInv
<1>9. RingInv'
  BY <1>4 DEF Inv, RingInv, IsRing, RingOK, Members
<1>10. EndInv'
  BY <1>4 DEF Inv, EndInv, NoSubscribersIsTrue
<1>11. LateInv'
  <2>1. \A d \in Calls : reader'[d] = "calling" => reader[d] = "calling"
    BY <1>5 DEF Inv, TypeInv
  <2> QED BY <1>4, <2>1 DEF Inv, LateInv
<1> QED
  BY <1>6, <1>7, <1>8, <1>9, <1>10, <1>11 DEF Inv

LEMMA TakeCallbackInv ==
  ASSUME Inv, NEW c \in Calls, TakeCallback(c)
  PROVE  Inv'
<1> USE DEF Inv, TakeCallback, receivers, goroutines, channel, received, CancelChannel
<1>1. TypeInv'
  <2>1. callbacks.iter \in Calls
    BY DEF RingInv, IsRing, RingOK, Members
  <2> QED BY <2>1 DEF TypeInv, Waiting, Doing
<1>2. ReaderInv'
  BY DEF ReaderInv, TypeInv
<1>3. OrderInv'
  BY DEF OrderInv, InOrderWithoutGaps, InHand, Rest, TypeInv
<1>4. RingInv'
  <2>1. IsRing(callbacks', Calls) /\ Members(callbacks)' = Members(callbacks)
    <3>1. IsRing(callbacks, Calls) /\ callbacks' = Advanced(callbacks)
      BY DEF RingInv
    <3>2. Members(callbacks)' = Members(callbacks')
      BY DEF Members
    <3> QED BY <3>1, <3>2, AdvancedIsRing
  <2> QED BY <2>1 DEF RingInv
<1>5. EndInv'
  BY DEF EndInv, NoSubscribersIsTrue, TypeInv
<1>6. LateInv'
  <2>1. callbacks.iter \in Calls /\ call[callbacks.iter] \in Waiting
    BY DEF RingInv, IsRing, RingOK, Members
  <2>2. callbacks.iter \notin late
    BY <2>1 DEF LateInv, Waiting
  <2> QED BY <2>1, <2>2 DEF LateInv, TypeInv
<1> QED
  BY <1>1, <1>2, <1>3, <1>4, <1>5, <1>6 DEF Inv

LEMMA NoneInHand ==
  ASSUME NEW f \in [Calls -> Seq(Nat)], NEW c
  PROVE  [f EXCEPT ![c] = <<>>] \in [Calls -> Seq(Nat)]
<1>1. <<>> \in Seq(Nat)
  OBVIOUS
<1>2. ASSUME NEW e \in Seq(Nat)
      PROVE  [f EXCEPT ![c] = e] \in [Calls -> Seq(Nat)]
  OBVIOUS
<1> QED BY <1>1, <1>2

LEMMA NoSubscribersInv ==
  ASSUME Inv, NEW c \in Calls, NoSubscribers(c)
  PROVE  Inv'
<1> USE DEF Inv, NoSubscribers, receivers, goroutines, channel, received, CancelChannel
<1>1. TypeInv'
  <2>1. held' \in [Calls -> Seq(Nat)]
    <3>1. held \in [Calls -> Seq(Nat)] /\ held' = [held EXCEPT ![c] = <<>>]
      BY DEF TypeInv
    <3> HIDE DEF NoSubscribers, Inv
    <3> QED BY <3>1, NoneInHand
  <2>2. reader' \in [Calls -> Doing]
    BY DEF TypeInv, Doing
  <2> QED BY <2>1, <2>2 DEF TypeInv
<1>2. ReaderInv'
  BY DEF ReaderInv, TypeInv
<1>3. OrderInv'
  <2>1. \A d \in Calls : reader[d] # "none" <=> d = c
    BY DEF ReaderInv
  <2>2. /\ \A d \in Calls : reader'[d] \in {"none", "ended"}
        /\ reader'[c] = "ended" /\ cause' # "live"
    BY <2>1 DEF TypeInv
  <2>3. InHand' = {}
    BY <2>2 DEF InHand
  <2>4. once' /\ sent' = sent /\ before' = before /\ delivered' = delivered /\ kind' = kind
    BY DEF ReaderInv
  <2> HIDE DEF Inv, NoSubscribers
  <2> QED BY <2>2, <2>3, <2>4 DEF Inv, OrderInv, InOrderWithoutGaps
<1>4. RingInv'
  BY DEF RingInv, TypeInv, Waiting
<1>5. EndInv'
  <2>1. Members(callbacks) = {}
    <3>1. callbacks.items = <<>>
      BY DEF RingInv, IsRing, RingOK
    <3> HIDE DEF NoSubscribers, Inv
    <3> QED BY <3>1 DEF Members, ToSet
  <2>2. call[c] = "returned"
    BY <2>1 DEF ReaderInv, RingInv, TypeInv, Waiting
  <2>3. cause = "live" => c \in cancelled
    BY <2>2 DEF EndInv
  <2> QED BY <2>2, <2>3 DEF EndInv, NoSubscribersIsTrue
<1>6. LateInv'
  BY DEF LateInv, TypeInv
<1> QED
  BY <1>1, <1>2, <1>3, <1>4, <1>5, <1>6 DEF Inv

LEMMA RunCallbackInv ==
  ASSUME Inv, NEW c \in Calls, RunCallback(c)
  PROVE  Inv'
<1>1. PICK h : h = held[c]
  OBVIOUS
<1>2. PICK d : d = <<chosen[c], Head(h)>>
  OBVIOUS
<1>3. /\ reader[c] = "calling" /\ delivered' = Append(delivered, d)
      /\ held' = [held EXCEPT ![c] = Tail(h)]
      /\ reader' = [reader EXCEPT ![c] = IF Len(h) = 1 THEN "reading" ELSE "checking"]
  <2>1. held' = [held EXCEPT ![c] = Tail(held[c])]
    BY DEF RunCallback
  <2> QED BY <1>1, <1>2, <2>1 DEF RunCallback
<1>4. /\ late' = IF call[chosen[c]] = "returned" THEN late \cup {chosen[c]} ELSE late
      /\ chosen' = [chosen EXCEPT ![c] = Nil] /\ before' = before /\ sent' = sent
      /\ kind' = kind /\ callbacks' = callbacks /\ call' = call /\ cancelled' = cancelled
      /\ once' = once /\ cause' = cause
  BY DEF RunCallback, receivers, channel
<1>5. /\ sent \in Nat /\ delivered \in Seq(Calls \X Nat) /\ Len(delivered) \in Nat
      /\ h \in Seq(Nat) /\ Len(delivered) < sent /\ Len(h) = sent - Len(delivered)
      /\ \A i \in 1 .. Len(h) : h[i] = Len(delivered) + i
  <2>1. c \in InHand
    BY <1>3 DEF InHand
  <2>2. Rest(c)
    BY <2>1 DEF Inv, OrderInv
  <2>3. sent \in Nat /\ delivered \in Seq(Calls \X Nat) /\ held[c] \in Seq(Nat)
    BY DEF Inv, TypeInv
  <2> QED BY <1>1, <2>2, <2>3 DEF Rest
<1>6. Len(h) \in Nat /\ Len(h) > 0 /\ Head(h) = Len(delivered) + 1
  BY <1>5
<1>7. /\ Tail(h) \in Seq(Nat) /\ Len(Tail(h)) = Len(h) - 1
      /\ \A i \in 1 .. Len(h) - 1 : Tail(h)[i] = Len(delivered) + 1 + i
  BY <1>5, <1>6
<1>8. chosen[c] \in Calls
  BY <1>3 DEF Inv, LateInv
<1>9. d \in Calls \X Nat /\ d[2] = Len(delivered) + 1
  BY <1>2, <1>5, <1>6, <1>8
<1>10. /\ delivered' \in Seq(Calls \X Nat) /\ Len(delivered') = Len(delivered) + 1
       /\ \A i \in 1 .. Len(delivered) : delivered'[i] = delivered[i]
       /\ delivered'[Len(delivered) + 1] = d
  BY <1>3, <1>5, <1>9
<1>11. \A e \in Calls : reader[e] # "none" <=> e = c
  BY <1>3 DEF Inv, ReaderInv
<1>12. TypeInv'
  <2>1. held' \in [Calls -> Seq(Nat)]
    BY <1>3, <1>7 DEF Inv, TypeInv
  <2>2. late' \subseteq Calls /\ chosen' \in [Calls -> Calls \cup {Nil}]
    BY <1>4, <1>8 DEF Inv, TypeInv
  <2>3. reader' \in [Calls -> Doing]
    BY <1>3 DEF Inv, TypeInv, Doing
  <2> QED BY <1>4, <1>10, <2>1, <2>2, <2>3 DEF Inv, TypeInv
<1>13. ReaderInv'
  BY <1>3, <1>4 DEF Inv, ReaderInv, TypeInv
<1>14. OrderInv'
  <2>1. \A i \in DOMAIN delivered' : delivered'[i][2] = i
    <3>1. DOMAIN delivered' = 1 .. Len(delivered) + 1 /\ DOMAIN delivered = 1 .. Len(delivered)
      BY <1>5, <1>10
    <3>2. \A i \in 1 .. Len(delivered) : delivered[i][2] = i
      BY <3>1 DEF Inv, OrderInv, InOrderWithoutGaps
    <3>3. SUFFICES ASSUME NEW i \in 1 .. Len(delivered) + 1
                   PROVE  delivered'[i][2] = i
      BY <3>1
    <3>4. CASE i = Len(delivered) + 1
      BY <1>9, <1>10, <3>4
    <3>5. CASE i # Len(delivered) + 1
      <4>1. i \in 1 .. Len(delivered)
        BY <1>5, <3>5
      <4> QED BY <1>10, <3>2, <4>1
    <3> QED BY <3>4, <3>5
  <2>2. before' <= Len(delivered') /\ Len(delivered') <= sent' /\ (kind' # "ws" => sent' - before' <= 1)
    <3>1. before <= Len(delivered) /\ (kind # "ws" => sent - before <= 1) /\ before \in Nat
      BY DEF Inv, OrderInv, InOrderWithoutGaps, TypeInv
    <3> QED BY <1>4, <1>5, <1>10, <3>1
  <2>3. once'
    BY <1>3, <1>4 DEF Inv, ReaderInv
  <2>4. \A e \in Calls : e # c => reader'[e] = "none"
    BY <1>3, <1>11 DEF Inv, TypeInv
  <2>5. CASE Len(h) = 1
    <3>1. reader'[c] = "reading"
      BY <1>3, <2>5 DEF Inv, TypeInv
    <3>2. InHand' = {}
      BY <2>4, <3>1 DEF InHand
    <3>3. Len(delivered') = sent'
      <4>1. Len(delivered) \in Nat /\ sent \in Nat /\ Len(h) = sent - Len(delivered)
        BY <1>5
      <4>2. ASSUME NEW k \in Nat, NEW l \in Nat, 1 = l - k
            PROVE  k + 1 = l
        BY <4>2
      <4>3. Len(delivered) + 1 = sent
        BY <2>5, <4>1, <4>2
      <4> QED BY <1>4, <1>10, <4>3
    <3> QED BY <2>1, <2>2, <2>3, <3>2, <3>3 DEF OrderInv, InOrderWithoutGaps
  <2>6. CASE Len(h) # 1
    <3>1. reader'[c] = "checking"
      BY <1>3, <2>6 DEF Inv, TypeInv
    <3>2. InHand' = {c}
      BY <2>4, <3>1 DEF InHand
    <3>3. held'[c] = Tail(h)
      BY <1>3 DEF Inv, TypeInv
    <3>4. Rest(c)'
      <4>1. /\ Len(delivered') < sent' /\ Len(held'[c]) = sent' - Len(delivered')
            /\ Len(held'[c]) = Len(h) - 1
        BY <1>4, <1>5, <1>6, <1>7, <1>10, <2>6, <3>3
      <4>2. \A i \in 1 .. Len(held'[c]) : held'[c][i] = Len(delivered') + i
        BY <1>7, <1>10, <3>3, <4>1
      <4> QED BY <4>1, <4>2 DEF Rest
    <3>5. \A e \in Calls : reader'[e] \notin {"reading", "panicking", "panicked"}
      BY <2>4, <3>1
    <3> QED BY <2>1, <2>2, <2>3, <3>2, <3>4, <3>5 DEF OrderInv, InOrderWithoutGaps
  <2> QED BY <2>5, <2>6
<1>15. RingInv'
  BY <1>4 DEF Inv, RingInv, IsRing, RingOK, Members
<1>16. EndInv'
  BY <1>4 DEF Inv, EndInv, NoSubscribersIsTrue
<1>17. LateInv'
  <2>1. \A e \in Calls : reader'[e] # "calling"
    BY <1>3, <1>11 DEF Inv, TypeInv
  <2>2. \A e \in late' : call'[e] = "returned"
    BY <1>4 DEF Inv, LateInv
  <2> QED BY <2>1, <2>2 DEF LateInv
<1> QED
  BY <1>12, <1>13, <1>14, <1>15, <1>16, <1>17 DEF Inv

(* The other steps leave the ring and what was delivered alone. *)
LEMMA StartReaderInv ==
  ASSUME Inv, NEW c \in Calls, StartReader(c)
  PROVE  Inv'
<1> USE DEF StartReader, receivers, goroutines, channel, received
<1>1. TypeInv'
  BY DEF Inv, TypeInv, Waiting, Doing
<1>2. ReaderInv'
  BY DEF Inv, ReaderInv, TypeInv
<1>3. OrderInv'
  <2>1. Len(delivered) = sent \/ once
    BY DEF Inv, OrderInv
  <2>2. \A d \in Calls : reader'[d] = reader[d] \/ (~once /\ reader'[d] = "reading")
    BY DEF Inv, TypeInv
  <2>3. InHand' = InHand
    BY <2>2 DEF Inv, ReaderInv, TypeInv, InHand
  <2>4. /\ once' /\ held' = held /\ sent' = sent /\ before' = before
        /\ delivered' = delivered /\ cause' = cause /\ kind' = kind
    OBVIOUS
  <2>5. \A d \in Calls : reader[d] = "ended" => reader'[d] = "ended"
    BY DEF Inv, ReaderInv, TypeInv
  <2> HIDE DEF StartReader
  <2>6. InOrderWithoutGaps'
    BY <2>3, <2>4, <2>5 DEF Inv, OrderInv, InOrderWithoutGaps
  <2>7. \A d \in Calls : reader'[d] \in {"reading", "panicking", "panicked"} => Len(delivered') = sent'
    BY <2>1, <2>2, <2>4 DEF Inv, OrderInv
  <2>8. \A d \in InHand' : Rest(d)'
    BY <2>3, <2>4 DEF Inv, OrderInv, Rest
  <2> QED BY <2>4, <2>6, <2>7, <2>8 DEF OrderInv
<1>4. RingInv'
  <2>1. \A d \in Calls : call[d] \in Waiting <=> call'[d] \in Waiting
    BY DEF Inv, TypeInv, Waiting, Doing
  <2>2. callbacks' = callbacks
    OBVIOUS
  <2> HIDE DEF StartReader
  <2> QED BY <2>1, <2>2 DEF Inv, RingInv, IsRing, RingOK, Members
<1>5. EndInv'
  BY DEF Inv, EndInv, NoSubscribersIsTrue, TypeInv
<1>6. LateInv'
  BY DEF Inv, LateInv, TypeInv
<1> QED
  BY <1>1, <1>2, <1>3, <1>4, <1>5, <1>6 DEF Inv

LEMMA StopWaitingInv ==
  ASSUME Inv, NEW c \in Calls, StopWaiting(c)
  PROVE  Inv'
<1> USE DEF StopWaiting, receivers, goroutines, channel, received
<1>1. TypeInv'
  BY DEF Inv, TypeInv, Waiting, Doing
<1>2. ReaderInv'
  BY DEF Inv, ReaderInv, TypeInv
<1>3. OrderInv'
  BY DEF Inv, OrderInv, InOrderWithoutGaps, InHand, Rest
<1>4. RingInv'
  <2>1. \A d \in Calls : call[d] \in Waiting <=> call'[d] \in Waiting
    BY DEF Inv, TypeInv, Waiting, Doing
  <2>2. callbacks' = callbacks
    OBVIOUS
  <2> HIDE DEF StopWaiting
  <2> QED BY <2>1, <2>2 DEF Inv, RingInv, IsRing, RingOK, Members
<1>5. EndInv'
  BY DEF Inv, EndInv, NoSubscribersIsTrue, TypeInv
<1>6. LateInv'
  BY DEF Inv, LateInv, TypeInv
<1> QED
  BY <1>1, <1>2, <1>3, <1>4, <1>5, <1>6 DEF Inv

LEMMA ReadErrorInv ==
  ASSUME Inv, NEW c \in Calls, ReadError(c)
  PROVE  Inv'
<1>1. PICK n \in 0 .. MaxMsgs - sent : /\ kind # "ws" => n = 0
                                      /\ sent' = sent + n
                                      /\ before' = IF n = 0 THEN before ELSE sent
  BY DEF ReadError
<1>2. reader[c] = "reading" /\ reader' = [reader EXCEPT ![c] = "ended"]
  BY DEF ReadError
<1>3. cause' # "live" /\ (cause' = "no subscribers" => cause = cause')
  BY DEF ReadError, CancelChannel
<1>4. /\ delivered' = delivered /\ once' = once /\ kind' = kind /\ held' = held
      /\ call' = call /\ chosen' = chosen /\ late' = late /\ cancelled' = cancelled
      /\ callbacks' = callbacks
  BY DEF ReadError, receivers
<1>5. n \in Nat /\ sent \in Nat /\ before \in Nat
  <2>1. sent \in Nat /\ before \in Nat /\ MaxMsgs \in Nat
    BY ChannelAssumption DEF Inv, TypeInv
  <2> QED BY <1>1, <2>1
<1>6. TypeInv'
  <2>1. sent' \in Nat /\ before' \in Nat
    BY <1>1, <1>5
  <2>2. reader' \in [Calls -> Doing]
    BY <1>2 DEF Inv, TypeInv, Doing
  <2> QED BY <1>4, <2>1, <2>2 DEF Inv, TypeInv
<1>7. ReaderInv'
  BY <1>2, <1>4 DEF Inv, ReaderInv, TypeInv
<1>8. OrderInv'
  <2>1. Len(delivered) = sent
    BY <1>2 DEF Inv, OrderInv
  <2>2. \A d \in Calls : reader[d] # "none" <=> d = c
    BY <1>2 DEF Inv, ReaderInv
  <2>3. reader'[c] = "ended" /\ \A d \in Calls : reader'[d] \in {"none", "ended"}
    BY <1>2, <2>2 DEF Inv, TypeInv
  <2>4. InHand' = {} /\ once'
    BY <1>2, <1>4, <2>3 DEF InHand, Inv, ReaderInv
  <2>5. \A i \in DOMAIN delivered' : delivered'[i][2] = i
    BY <1>4 DEF Inv, OrderInv, InOrderWithoutGaps
  <2>6. before' <= Len(delivered') /\ Len(delivered') <= sent' /\ (kind' # "ws" => sent' - before' <= 1)
    <3>1. before <= Len(delivered) /\ (kind # "ws" => sent - before <= 1)
      BY DEF Inv, OrderInv, InOrderWithoutGaps
    <3> QED BY <1>1, <1>4, <1>5, <2>1, <3>1
  <2> QED BY <1>3, <2>3, <2>4, <2>5, <2>6 DEF OrderInv, InOrderWithoutGaps
<1>9. RingInv'
  BY <1>4 DEF Inv, RingInv, IsRing, RingOK, Members
<1>10. EndInv'
  BY <1>3, <1>4 DEF Inv, EndInv, NoSubscribersIsTrue
<1>11. LateInv'
  BY <1>2, <1>4 DEF Inv, LateInv, TypeInv
<1> QED
  BY <1>6, <1>7, <1>8, <1>9, <1>10, <1>11 DEF Inv

(* A panic, at a point where nothing is in hand. *)
LEMMA PanicInv ==
  ASSUME Inv, NEW c \in Calls, BufferPanics(c) \/ Dies(c)
  PROVE  Inv'
<1>1. /\ reader[c] \in {"reading", "panicking"}
      /\ reader' = [reader EXCEPT ![c] = reader'[c]] /\ reader'[c] \in {"panicking", "panicked"}
  BY DEF BufferPanics, Dies, Inv, TypeInv
<1>2. (cause # "live" => cause' = cause) /\ (cause' = "no subscribers" => cause = cause')
  BY DEF BufferPanics, Dies, CancelChannel, channel
<1>3. /\ before' = before /\ sent' = sent /\ delivered' = delivered /\ once' = once
      /\ kind' = kind /\ held' = held /\ call' = call /\ chosen' = chosen /\ late' = late
      /\ cancelled' = cancelled /\ callbacks' = callbacks
  BY DEF BufferPanics, Dies, receivers, received
<1>4. TypeInv'
  <2>1. reader' \in [Calls -> Doing]
    BY <1>1 DEF Inv, TypeInv, Doing
  <2> QED BY <1>3, <2>1 DEF Inv, TypeInv
<1>5. ReaderInv'
  BY <1>1, <1>3 DEF Inv, ReaderInv, TypeInv
<1>6. OrderInv'
  <2>1. Len(delivered) = sent
    BY <1>1 DEF Inv, OrderInv
  <2>2. \A d \in Calls : reader[d] # "none" <=> d = c
    BY <1>1 DEF Inv, ReaderInv
  <2>3. InHand' = {}
    BY <1>1, <2>2 DEF InHand, Inv, TypeInv
  <2> QED BY <1>3, <2>1, <2>3 DEF Inv, OrderInv, InOrderWithoutGaps
<1>7. RingInv'
  BY <1>3 DEF Inv, RingInv, IsRing, RingOK, Members
<1>8. EndInv'
  BY <1>2, <1>3 DEF Inv, EndInv, NoSubscribersIsTrue
<1>9. LateInv'
  <2>1. \A d \in Calls : reader'[d] = "calling" => reader[d] = "calling"
    BY <1>1 DEF Inv, TypeInv
  <2> QED BY <1>3, <2>1 DEF Inv, LateInv
<1> QED
  BY <1>4, <1>5, <1>6, <1>7, <1>8, <1>9 DEF Inv

LEMMA CheckDoneInv ==
  ASSUME Inv, NEW c \in Calls, CheckDone(c)
  PROVE  Inv'
<1>1. /\ reader[c] = "checking" /\ reader' = [reader EXCEPT ![c] = reader'[c]]
      /\ \/ cause = "live" /\ reader'[c] = "has message" /\ held' = held
         \/ cause # "live" /\ reader'[c] = "ended" /\ held' = [held EXCEPT ![c] = <<>>]
  BY DEF CheckDone, Inv, TypeInv
<1>2. /\ before' = before /\ sent' = sent /\ delivered' = delivered /\ once' = once
      /\ kind' = kind /\ cause' = cause /\ call' = call /\ chosen' = chosen /\ late' = late
      /\ cancelled' = cancelled /\ callbacks' = callbacks
  BY DEF CheckDone, receivers, channel, received
<1>3. TypeInv'
  <2>1. reader' \in [Calls -> Doing]
    BY <1>1 DEF Inv, TypeInv, Doing
  <2>2. held' \in [Calls -> Seq(Nat)]
    <3>1. held \in [Calls -> Seq(Nat)] /\ (held' = held \/ held' = [held EXCEPT ![c] = <<>>])
      BY <1>1 DEF Inv, TypeInv
    <3> QED BY <3>1, NoneInHand
  <2> QED BY <1>2, <2>1, <2>2 DEF Inv, TypeInv
<1>4. ReaderInv'
  BY <1>1, <1>2 DEF Inv, ReaderInv, TypeInv
<1>5. OrderInv'
  <2>1. \A d \in Calls : reader[d] # "none" <=> d = c
    BY <1>1 DEF Inv, ReaderInv
  <2>2. c \in InHand /\ Rest(c) /\ once
    BY <1>1 DEF Inv, OrderInv, InHand, ReaderInv
  <2>3. \A d \in Calls : d # c => reader'[d] = "none"
    BY <1>1, <2>1 DEF Inv, TypeInv
  <2>4. \A d \in Calls : reader'[d] \notin {"reading", "panicking", "panicked"}
    BY <1>1, <2>3
  <2>5. \/ InHand' = {c} /\ held' = held
        \/ InHand' = {} /\ cause' # "live" /\ reader'[c] = "ended"
    BY <1>1, <1>2, <2>3 DEF InHand
  <2>6. \A d \in InHand' : Rest(d)'
    BY <1>2, <2>2, <2>5 DEF Rest
  <2>7. InOrderWithoutGaps'
    BY <1>2, <2>5 DEF Inv, OrderInv, InOrderWithoutGaps
  <2> QED BY <1>2, <2>2, <2>4, <2>6, <2>7 DEF OrderInv
<1>6. RingInv'
  BY <1>2 DEF Inv, RingInv, IsRing, RingOK, Members
<1>7. EndInv'
  BY <1>2 DEF Inv, EndInv, NoSubscribersIsTrue
<1>8. LateInv'
  BY <1>1, <1>2 DEF Inv, LateInv, TypeInv
<1> QED
  BY <1>3, <1>4, <1>5, <1>6, <1>7, <1>8 DEF Inv

(* Contexts and connections end. *)
Ends ==
  /\ cancelled' \subseteq Calls /\ cancelled \subseteq cancelled'
  /\ cause # "live" => cause' = cause
  /\ cause' = "no subscribers" => cause = cause'
  /\ UNCHANGED <<kind, callbacks, call, once, goroutines, received>>

LEMMA EndsInv ==
  ASSUME Inv, Ends
  PROVE  Inv'
<1> USE DEF Ends, goroutines, received
<1>1. TypeInv'
  BY DEF Inv, TypeInv, Waiting, Doing
<1>2. ReaderInv'
  BY DEF Inv, ReaderInv
<1>3. OrderInv'
  BY DEF Inv, OrderInv, InOrderWithoutGaps, InHand, Rest
<1>4. RingInv'
  BY DEF Inv, RingInv, IsRing, RingOK, Members
<1>5. EndInv'
  BY DEF Inv, EndInv, NoSubscribersIsTrue
<1>6. LateInv'
  BY DEF Inv, LateInv
<1> QED
  BY <1>1, <1>2, <1>3, <1>4, <1>5, <1>6 DEF Inv

LEMMA NextInv == Inv /\ [Next]_vars => Inv'
<1> SUFFICES ASSUME Inv, [Next]_vars
             PROVE  Inv'
  OBVIOUS
<1>1. ASSUME NEW c \in Calls, Receive(c) \/ readConn(c)
      PROVE  Inv'
  BY <1>1, AppendCallbackInv, StartReaderInv, StopWaitingInv, RemoveCallbackInv, ReadMessagesInv,
     ReadErrorInv, PanicInv, CheckDoneInv, TakeCallbackInv, NoSubscribersInv, RunCallbackInv
     DEF Receive, ReceiveGoesOn, readConn, readConnGoesOn, ReadFails, ReadRefused
<1>2. ASSUME NEW c \in Calls, CancelCall(c)
      PROVE  Inv'
  <2>1. Ends
    BY <1>2 DEF CancelCall, Ends, Inv, TypeInv, channel
  <2> QED BY <2>1, EndsInv
<1>3. CASE CloseChannel
  <2>1. Ends
    BY <1>3 DEF CloseChannel, CancelChannel, Ends, Inv, TypeInv, receivers
  <2> QED BY <2>1, EndsInv
<1>4. CASE CloseConn \/ PeerCloses
  <2>1. Ends
    BY <1>4 DEF CloseConn, PeerCloses, Ends, Inv, TypeInv, receivers
  <2> QED BY <2>1, EndsInv
<1>5. CASE UNCHANGED vars
  <2>1. Ends
    BY <1>5 DEF vars, Ends, Inv, TypeInv, receivers, channel
  <2> QED BY <2>1, EndsInv
<1> QED
  BY <1>1, <1>2, <1>3, <1>4, <1>5 DEF Next

LEMMA Invariance == Spec => []Inv
<1>1. Init => Inv
  BY InitInv
<1>2. Inv /\ [Next]_vars => Inv'
  BY NextInv
<1> QED
  BY <1>1, <1>2, PTL DEF Spec

-----------------------------------------------------------------------------
(* Callbacks get the messages of the connection once and in its order,     *)
(* however many calls of Receive come and go while readConn of             *)
(* channel.tmpl hands them out.  Those of earlier reads have all been      *)
(* delivered; of the last read, messages are missing only while readConn   *)
(* has them in hand, or when it has ended and the channel is done.         *)
THEOREM Order == Spec => []InOrderWithoutGaps
<1>1. Inv => InOrderWithoutGaps
  BY DEF Inv, OrderInv
<1> QED
  BY <1>1, Invariance, PTL

(* readConn ends the channel for want of subscribers only when the call    *)
(* that started it, or another, has returned because its context ended.    *)
THEOREM NoFalseEnd == Spec => []NoSubscribersIsTrue
<1>1. Inv => NoSubscribersIsTrue
  BY DEF Inv, EndInv
<1> QED
  BY <1>1, Invariance, PTL

(* The callback of a call that has returned from Receive runs once more at *)
(* most: readConn had taken it from the ring before it left.               *)
THEOREM LateOnce == Spec => OneLateCallback
<1> DEFINE OneMore == \A c \in late : \A i \in DOMAIN delivered' \ DOMAIN delivered :
                        delivered'[i][1] # c
<1>1. Inv /\ [Next]_vars => [OneMore]_vars
  <2> SUFFICES ASSUME Inv, Next
               PROVE  OneMore
    OBVIOUS
  <2>1. CASE delivered' = delivered
    BY <2>1
  <2>2. CASE \E c \in Calls : RunCallback(c)
    <3>1. PICK c \in Calls : RunCallback(c)
      BY <2>2
    <3>2. chosen[c] \notin late /\ delivered \in Seq(Calls \X Nat)
      BY <3>1 DEF Inv, LateInv, TypeInv, RunCallback
    <3>3. PICK d : d = <<chosen[c], Head(held[c])>>
      OBVIOUS
    <3>4. d[1] = chosen[c]
      BY <3>3
    <3>5. delivered' = Append(delivered, d)
      BY <3>1, <3>3 DEF RunCallback
    <3>6. \A i \in DOMAIN delivered' \ DOMAIN delivered : delivered'[i] = d
      BY <3>2, <3>5
    <3> QED BY <3>2, <3>4, <3>6
  <2>3. delivered' = delivered \/ \E c \in Calls : RunCallback(c)
    BY DEF Next, Receive, ReceiveGoesOn, readConn, readConnGoesOn, AppendCallback, StartReader,
           StopWaiting, RemoveCallback, ReadMessages, ReadFails, ReadRefused, ReadError,
           BufferPanics, Dies, CheckDone, TakeCallback, NoSubscribers, CancelCall,
           CloseChannel, CloseConn, PeerCloses, received
  <2> QED BY <2>1, <2>2, <2>3
<1> QED
  BY <1>1, Invariance, PTL DEF Spec, OneLateCallback
=============================================================================
