----------------------------- MODULE RingProofs -----------------------------
(***************************************************************************)
(* What the methods of run.Ring keep: the list holds elements once and the *)
(* iterator stands on one of them, whatever is added and removed.          *)
(***************************************************************************)
EXTENDS Ring, SequenceTheorems, TLAPS

(* A ring of elements of S. *)
IsRing(r, S) ==
  /\ Nil \notin S
  /\ r = [items |-> r.items, iter |-> r.iter]
  /\ r.items \in Seq(S)
  /\ RingOK(r)

Members(r) == ToSet(r.items)

-----------------------------------------------------------------------------
(* The list *)

LEMMA ItemsOf ==
  ASSUME NEW S, NEW s \in Seq(S)
  PROVE  /\ Len(s) \in Nat /\ DOMAIN s = 1 .. Len(s)
         /\ \A x : x \in ToSet(s) <=> \E k \in 1 .. Len(s) : s[k] = x
         /\ ToSet(s) \subseteq S
         /\ s = <<>> <=> Len(s) = 0
<1>1. ToSet(s) = {s[k] : k \in DOMAIN s}
  BY DEF ToSet
<1> QED
  BY <1>1

LEMMA PositionOf ==
  ASSUME NEW S, NEW s \in Seq(S), IsInjective(s), NEW i \in 1 .. Len(s), NEW e, s[i] = e
  PROVE  (CHOOSE k \in DOMAIN s : s[k] = e) = i
<1>1. \A k \in DOMAIN s : s[k] = e => k = i
  BY DEF IsInjective
<1> QED
  BY <1>1

ClosedUp(s, i, t) ==
  /\ Len(t) = Len(s) - 1 /\ DOMAIN t = 1 .. Len(s) - 1
  /\ \A k \in 1 .. Len(s) - 1 : t[k] = IF k < i THEN s[k] ELSE s[k + 1]

LEMMA RemovedAt ==
  ASSUME NEW S, NEW s \in Seq(S), NEW i \in 1 .. Len(s), NEW t, t = RemoveAt(s, i)
  PROVE  t \in Seq(S) /\ ClosedUp(s, i, t)
<1>1. Len(s) \in Nat /\ i \in Nat /\ i >= 1 /\ i <= Len(s)
  OBVIOUS
<1>2. PICK a : a = SubSeq(s, 1, i - 1)
  OBVIOUS
<1>3. PICK b : b = SubSeq(s, i + 1, Len(s))
  OBVIOUS
<1>4. a \in Seq(S) /\ Len(a) = i - 1 /\ \A k \in 1 .. i - 1 : a[k] = s[k]
  BY <1>1, <1>2
<1>5. b \in Seq(S) /\ Len(b) = Len(s) - i /\ \A k \in 1 .. Len(s) - i : b[k] = s[i + k]
  BY <1>1, <1>3
<1>6. t = a \o b
  BY <1>2, <1>3 DEF RemoveAt
<1>7. /\ t \in Seq(S) /\ Len(t) = Len(s) - 1 /\ DOMAIN t = 1 .. Len(s) - 1
      /\ \A k \in 1 .. Len(s) - 1 : t[k] = IF k <= i - 1 THEN a[k] ELSE b[k - (i - 1)]
  BY <1>1, <1>4, <1>5, <1>6
<1>8. ASSUME NEW k \in 1 .. Len(s) - 1
      PROVE  t[k] = IF k < i THEN s[k] ELSE s[k + 1]
  <2>1. CASE k < i
    BY <1>1, <1>4, <1>7, <2>1
  <2>2. CASE ~(k < i)
    <3>1. k - (i - 1) \in 1 .. Len(s) - i /\ i + (k - (i - 1)) = k + 1
      BY <1>1, <2>2
    <3>2. b[k - (i - 1)] = s[i + (k - (i - 1))]
      BY <1>5, <3>1
    <3> QED BY <1>1, <1>7, <2>2, <3>1, <3>2
  <2> QED BY <2>1, <2>2
<1> QED
  BY <1>7, <1>8 DEF ClosedUp

LEMMA WithoutItem ==
  ASSUME NEW S, NEW s \in Seq(S), IsInjective(s), NEW e, e \in ToSet(s)
  PROVE  /\ Without(s, e) \in Seq(S)
         /\ IsInjective(Without(s, e))
         /\ ToSet(Without(s, e)) = ToSet(s) \ {e}
<1>1. PICK i \in 1 .. Len(s) : s[i] = e
  BY ItemsOf
<1>2. PICK t : t = RemoveAt(s, i)
  OBVIOUS
<1>3. Without(s, e) = t
  <2>1. (CHOOSE k \in DOMAIN s : s[k] = e) = i
    BY <1>1, PositionOf
  <2> QED BY <1>2, <2>1, Zenon DEF Without
<1>4. Len(s) \in Nat /\ DOMAIN s = 1 .. Len(s)
  OBVIOUS
<1>5. /\ t \in Seq(S) /\ Len(t) = Len(s) - 1 /\ DOMAIN t = 1 .. Len(s) - 1
      /\ \A k \in 1 .. Len(s) - 1 : t[k] = IF k < i THEN s[k] ELSE s[k + 1]
  <2>1. t \in Seq(S) /\ ClosedUp(s, i, t)
    BY <1>2, RemovedAt
  <2> QED BY <2>1 DEF ClosedUp
<1>6. IsInjective(t)
  <2> SUFFICES ASSUME NEW k \in 1 .. Len(s) - 1, NEW l \in 1 .. Len(s) - 1, t[k] = t[l]
               PROVE  k = l
    BY <1>5 DEF IsInjective
  <2>1. \A m, n \in 1 .. Len(s) : s[m] = s[n] => m = n
    BY <1>4 DEF IsInjective
  <2> QED BY <1>1, <1>4, <1>5, <2>1
<1>7. ASSUME NEW x
      PROVE  x \in ToSet(t) <=> x \in ToSet(s) /\ x # e
  <2>1. x \in ToSet(t) <=> \E k \in 1 .. Len(s) - 1 : t[k] = x
    BY <1>5 DEF ToSet
  <2>2. x \in ToSet(s) <=> \E k \in 1 .. Len(s) : s[k] = x
    BY <1>4 DEF ToSet
  <2>3. \A m \in 1 .. Len(s) : s[m] = e => m = i
    BY <1>1, <1>4 DEF IsInjective
  <2>4. ASSUME NEW k \in 1 .. Len(s) - 1, t[k] = x
        PROVE  x \in ToSet(s) /\ x # e
    BY <1>1, <1>4, <1>5, <2>2, <2>3, <2>4
  <2>5. ASSUME NEW k \in 1 .. Len(s), s[k] = x, x # e
        PROVE  \E l \in 1 .. Len(s) - 1 : t[l] = x
    <3>1. CASE k < i
      <4>1. k \in 1 .. Len(s) - 1 /\ t[k] = x
        BY <1>4, <1>5, <2>5, <3>1
      <4> QED BY <4>1
    <3>2. CASE k > i
      <4>1. k - 1 \in 1 .. Len(s) - 1 /\ t[k - 1] = x
        BY <1>4, <1>5, <2>5, <3>2
      <4> QED BY <4>1
    <3>3. k # i
      BY <1>1, <2>5
    <3> QED BY <1>4, <3>1, <3>2, <3>3
  <2> QED BY <2>1, <2>2, <2>4, <2>5
<1>8. ToSet(t) = ToSet(s) \ {e}
  BY <1>7
<1> QED
  BY <1>3, <1>5, <1>6, <1>8

(* list.Element.Next never gives the element itself. *)
LEMMA AfterItem ==
  ASSUME NEW S, NEW s \in Seq(S), IsInjective(s), NEW e
  PROVE  After(s, e) = Nil \/ (After(s, e) \in ToSet(s) /\ After(s, e) # e)
<1>1. CASE \E i \in 1 .. Len(s) - 1 : s[i] = e
  <2>1. PICK i \in 1 .. Len(s) - 1 : s[i] = e /\ After(s, e) = s[i + 1]
    BY <1>1 DEF After
  <2>2. Len(s) \in Nat /\ i \in 1 .. Len(s) /\ i + 1 \in 1 .. Len(s) /\ i # i + 1
    OBVIOUS
  <2>3. s[i + 1] \in ToSet(s)
    BY <2>2, ItemsOf
  <2>4. s[i + 1] # s[i]
    BY <2>2 DEF IsInjective
  <2> QED BY <2>1, <2>3, <2>4
<1>2. CASE ~ \E i \in 1 .. Len(s) - 1 : s[i] = e
  BY <1>2 DEF After
<1> QED
  BY <1>1, <1>2

LEMMA FrontItem ==
  ASSUME NEW S, NEW s \in Seq(S)
  PROVE  IF s = <<>> THEN FrontOf(s) = Nil ELSE FrontOf(s) \in ToSet(s)
<1>1. CASE s = <<>>
  BY <1>1 DEF FrontOf
<1>2. CASE s # <<>>
  <2>1. FrontOf(s) = s[1] /\ 1 \in 1 .. Len(s)
    BY <1>2 DEF FrontOf
  <2>2. s[1] \in ToSet(s)
    BY <2>1, ItemsOf
  <2> QED BY <1>2, <2>1, <2>2
<1> QED
  BY <1>1, <1>2

-----------------------------------------------------------------------------
(* The methods *)

(* NewRing gives an empty ring. *)
THEOREM NewIsRing ==
  ASSUME NEW S, Nil \notin S
  PROVE  IsRing(NewRing, S) /\ Members(NewRing) = {}
<1>1. NewRing.items = <<>> /\ NewRing.iter = Nil
  BY DEF NewRing
<1>2. ToSet(<<>>) = {}
  BY DEF ToSet
<1> QED
  BY <1>1, <1>2 DEF IsRing, RingOK, NewRing, Members, IsInjective

(* Append adds an element that was not there and leaves the iterator on an *)
(* element: it cannot stay nil.                                            *)
THEOREM AppendedIsRing ==
  ASSUME NEW S, NEW r, IsRing(r, S), NEW e \in S, e \notin Members(r)
  PROVE  /\ IsRing(Appended(r, e), S)
         /\ Members(Appended(r, e)) = Members(r) \cup {e}
<1>1. PICK s \in Seq(S) : s = r.items
  BY DEF IsRing
<1>2. PICK t : t = Append(s, e)
  OBVIOUS
<1>3. /\ t \in Seq(S) /\ Len(s) \in Nat /\ DOMAIN s = 1 .. Len(s) /\ DOMAIN t = 1 .. Len(s) + 1
      /\ \A k \in 1 .. Len(s) : t[k] = s[k]
      /\ t[Len(s) + 1] = e /\ t # <<>>
  BY <1>2
<1>4. ASSUME NEW x
      PROVE  x \in ToSet(t) <=> x \in ToSet(s) \/ x = e
  <2>1. x \in ToSet(t) <=> \E k \in 1 .. Len(s) + 1 : t[k] = x
    BY <1>3 DEF ToSet
  <2>2. x \in ToSet(s) <=> \E k \in 1 .. Len(s) : s[k] = x
    BY <1>3 DEF ToSet
  <2> QED BY <1>3, <2>1, <2>2
<1>5. \A k \in 1 .. Len(s) : s[k] # e
  BY <1>1, <1>3 DEF Members, ToSet
<1>6. IsInjective(t)
  <2>1. \A m, n \in 1 .. Len(s) : s[m] = s[n] => m = n
    BY <1>1, <1>3 DEF IsRing, RingOK, IsInjective
  <2> QED BY <1>3, <1>5, <2>1 DEF IsInjective
<1>7. PICK a : a = Appended(r, e)
  OBVIOUS
<1>8. a = [items |-> t, iter |-> IF r.iter = Nil THEN e ELSE r.iter]
  BY <1>1, <1>2, <1>7 DEF Appended
<1>9. a.items = t /\ a.iter = (IF r.iter = Nil THEN e ELSE r.iter)
      /\ a = [items |-> a.items, iter |-> a.iter]
  BY <1>8
<1>10. a.iter # Nil /\ a.iter \in ToSet(t)
  BY <1>1, <1>4, <1>9 DEF IsRing, RingOK
<1>11. IsRing(a, S)
  BY <1>3, <1>6, <1>9, <1>10 DEF IsRing, RingOK
<1>12. Members(a) = Members(r) \cup {e}
  BY <1>1, <1>4, <1>9 DEF Members
<1> QED
  BY <1>7, <1>11, <1>12

(* Next loses no element, and wraps round to one when the list ends.       *)
THEOREM AdvancedIsRing ==
  ASSUME NEW S, NEW r, IsRing(r, S)
  PROVE  IsRing(Advanced(r), S) /\ Members(Advanced(r)) = Members(r)
<1>1. PICK s \in Seq(S) : s = r.items /\ IsInjective(s)
  BY DEF IsRing, RingOK
<1>2. PICK i : i = IF r.iter = Nil THEN Nil
                   ELSE IF After(s, r.iter) # Nil THEN After(s, r.iter) ELSE FrontOf(s)
  OBVIOUS
<1>3. PICK a : a = Advanced(r)
  OBVIOUS
<1>4. a = [r EXCEPT !.iter = i]
  BY <1>1, <1>2, <1>3, Zenon DEF Advanced
<1>5. a = [items |-> s, iter |-> i]
  BY <1>1, <1>4 DEF IsRing
<1>6. a.items = s /\ a.iter = i /\ a = [items |-> a.items, iter |-> a.iter]
  BY <1>5
<1>7. /\ Nil \notin S /\ ToSet(s) \subseteq S
      /\ r.iter = Nil <=> s = <<>>
  BY <1>1, ItemsOf DEF IsRing, RingOK
<1>8. i = Nil <=> s = <<>>
  BY <1>1, <1>2, <1>7, FrontItem
<1>9. i # Nil => i \in ToSet(s)
  BY <1>1, <1>2, <1>7, AfterItem, FrontItem
<1> QED
  BY <1>1, <1>3, <1>6, <1>7, <1>8, <1>9 DEF IsRing, RingOK, Members

(* Remove takes the element out, from under the iterator too.              *)
THEOREM RemovedIsRing ==
  ASSUME NEW S, NEW r, IsRing(r, S), NEW e \in Members(r)
  PROVE  /\ IsRing(Removed(r, e), S)
         /\ Members(Removed(r, e)) = Members(r) \ {e}
<1>1. PICK s \in Seq(S) : s = r.items /\ IsInjective(s) /\ e \in ToSet(s)
  BY DEF IsRing, RingOK, Members
<1>2. PICK t : t = Without(s, e)
  OBVIOUS
<1>3. t \in Seq(S) /\ IsInjective(t) /\ ToSet(t) = ToSet(s) \ {e}
  BY <1>1, <1>2, WithoutItem
<1>4. PICK moved : moved = IF r.iter = e THEN After(s, e) ELSE r.iter
  OBVIOUS
<1>5. PICK i : i = IF moved = Nil THEN FrontOf(t) ELSE moved
  OBVIOUS
<1>6. PICK a : a = Removed(r, e)
  OBVIOUS
<1>7. s # <<>>
  BY <1>1 DEF ToSet
<1>8. a = [items |-> t, iter |-> i]
  BY <1>1, <1>2, <1>4, <1>5, <1>6, <1>7 DEF Removed
<1>9. a.items = t /\ a.iter = i /\ a = [items |-> a.items, iter |-> a.iter]
  BY <1>8
<1>10. Nil \notin S /\ ToSet(t) \subseteq S /\ ToSet(s) \subseteq S
  BY <1>1, <1>3, ItemsOf DEF IsRing
<1>11. moved = Nil \/ moved \in ToSet(t)
  <2>1. CASE r.iter = e
    BY <1>1, <1>3, <1>4, <2>1, AfterItem
  <2>2. CASE r.iter # e
    BY <1>1, <1>3, <1>4, <2>2 DEF IsRing, RingOK
  <2> QED BY <2>1, <2>2
<1>12. t = <<>> => ToSet(t) = {}
  BY DEF ToSet
<1>13. (i = Nil <=> t = <<>>) /\ (i # Nil => i \in ToSet(t))
  BY <1>3, <1>5, <1>10, <1>11, <1>12, FrontItem
<1> QED
  BY <1>1, <1>3, <1>6, <1>9, <1>10, <1>13 DEF IsRing, RingOK, Members

-----------------------------------------------------------------------------
(* Turns: the list, read from the iterator and round *)

(* t is s read from behind its first d elements. *)
Rotated(s, d, t) ==
  /\ Len(t) = Len(s) /\ DOMAIN t = 1 .. Len(s)
  /\ \A k \in 1 .. Len(s) : t[k] = IF k + d <= Len(s) THEN s[k + d] ELSE s[k + d - Len(s)]

LEMMA Rotation ==
  ASSUME NEW S, NEW s \in Seq(S), NEW d \in 0 .. Len(s) - 1, NEW t,
         t = SubSeq(s, d + 1, Len(s)) \o SubSeq(s, 1, d)
  PROVE  t \in Seq(S) /\ Rotated(s, d, t)
<1>1. PICK n \in Nat : n = Len(s)
  OBVIOUS
<1>2. d \in Nat /\ d < n
  BY <1>1
<1>3. PICK a : a = SubSeq(s, d + 1, Len(s))
  OBVIOUS
<1>4. PICK b : b = SubSeq(s, 1, d)
  OBVIOUS
<1>5. a \in Seq(S) /\ Len(a) = n - d /\ \A k \in 1 .. n - d : a[k] = s[k + d]
  <2>1. PICK i \in 1 .. n : i = d + 1
    BY <1>2
  <2>2. a \in Seq(S) /\ Len(a) = n - i + 1 /\ \A k \in 1 .. n - i + 1 : a[k] = s[i + k - 1]
    <3>1. i \in Int /\ n \in Int /\ i <= n /\ \A k \in i .. n : s[k] \in S
      BY <1>1, <1>2, <2>1
    <3>2. a = SubSeq(s, i, n)
      BY <1>1, <1>3, <2>1
    <3> QED BY <3>1, <3>2, SubSeqProperties
  <2>3. n - i + 1 = n - d /\ \A k \in 1 .. n - d : i + k - 1 = k + d
    BY <1>2, <2>1
  <2> QED BY <2>2, <2>3
<1>6. b \in Seq(S) /\ Len(b) = d /\ \A k \in 1 .. d : b[k] = s[k]
  BY <1>1, <1>2, <1>4
<1>7. t = a \o b
  BY <1>3, <1>4
<1>8. /\ t \in Seq(S) /\ Len(t) = Len(a) + Len(b)
      /\ \A k \in 1 .. Len(a) + Len(b) : t[k] = IF k <= Len(a) THEN a[k] ELSE b[k - Len(a)]
  <2>1. /\ a \o b \in Seq(S) /\ Len(a \o b) = Len(a) + Len(b)
        /\ \A k \in 1 .. Len(a) + Len(b) : (a \o b)[k] = IF k <= Len(a) THEN a[k] ELSE b[k - Len(a)]
    BY <1>5, <1>6, ConcatProperties
  <2> QED BY <1>7, <2>1
<1>9. Len(t) = n /\ DOMAIN t = 1 .. n
  BY <1>2, <1>5, <1>6, <1>8
<1>10. ASSUME NEW k \in 1 .. n
       PROVE  t[k] = IF k + d <= n THEN s[k + d] ELSE s[k + d - n]
  <2>1. CASE k + d <= n
    <3>1. k \in 1 .. n - d /\ k <= Len(a) /\ k \in 1 .. Len(a) + Len(b)
      BY <1>2, <1>5, <1>6, <2>1
    <3> QED BY <1>5, <1>8, <2>1, <3>1
  <2>2. CASE ~(k + d <= n)
    <3>1. /\ k + d - n \in 1 .. d /\ ~(k <= Len(a)) /\ k \in 1 .. Len(a) + Len(b)
          /\ k - Len(a) = k + d - n
      <4>1. Len(a) + Len(b) = n /\ Len(a) = n - d
        BY <1>2, <1>5, <1>6
      <4> QED BY <1>2, <2>2, <4>1
    <3>2. t[k] = b[k + d - n]
      BY <1>8, <3>1
    <3> QED BY <1>6, <2>2, <3>1, <3>2
  <2> QED BY <2>1, <2>2
<1> QED
  BY <1>1, <1>8, <1>9, <1>10 DEF Rotated

(* The iterator stands somewhere in the list, and nowhere else. *)
LEMMA Standing ==
  ASSUME NEW S, NEW r, IsRing(r, S)
  PROVE  /\ r.iter = Nil <=> r.items = <<>>
         /\ r.items # <<>> => \E i \in 1 .. Len(r.items) : r.items[i] = r.iter
<1>1. r.items \in Seq(S) /\ (r.iter = Nil <=> r.items = <<>>) /\ (r.iter # Nil => r.iter \in ToSet(r.items))
  BY DEF IsRing, RingOK
<1> QED
  BY <1>1, ItemsOf

LEMMA TurnsRotate ==
  ASSUME NEW S, NEW r, IsRing(r, S), NEW s, s = r.items, NEW d \in 0 .. Len(s) - 1, s[d + 1] = r.iter
  PROVE  Turns(r) \in Seq(S) /\ Rotated(s, d, Turns(r))
<1>1. s \in Seq(S) /\ IsInjective(s)
  BY DEF IsRing, RingOK
<1>2. PICK i \in 1 .. Len(s) : i = d + 1 /\ i - 1 = d
  BY <1>1
<1>3. r.iter # Nil
  <2>1. s[i] \in S /\ Nil \notin S
    BY <1>1 DEF IsRing
  <2> QED BY <1>2, <2>1
<1>4. (CHOOSE k \in DOMAIN r.items : r.items[k] = r.iter) = i
  BY <1>1, <1>2, PositionOf
<1>5. Turns(r) = SubSeq(s, i, Len(s)) \o SubSeq(s, 1, i - 1)
  BY <1>3, <1>4, Zenon DEF Turns
<1> QED
  BY <1>1, <1>2, <1>5, Rotation

(* Where the iterator of a ring that is not empty stands. *)
LEMMA StandsBehind ==
  ASSUME NEW S, NEW r, IsRing(r, S), NEW s, s = r.items, s # <<>>
  PROVE  \E d \in 0 .. Len(s) - 1 : s[d + 1] = r.iter
<1>1. s \in Seq(S)
  BY DEF IsRing
<1>2. PICK i \in 1 .. Len(s) : s[i] = r.iter
  BY Standing
<1>3. i - 1 \in 0 .. Len(s) - 1 /\ (i - 1) + 1 = i
  BY <1>1
<1> QED
  BY <1>2, <1>3

(* Everybody in the list has a turn. *)
LEMMA RotatedMembers ==
  ASSUME NEW S, NEW s \in Seq(S), NEW t \in Seq(S), NEW d \in 0 .. Len(s) - 1, Rotated(s, d, t)
  PROVE  ToSet(t) = ToSet(s)
<1>1. PICK n \in Nat : n = Len(s)
  OBVIOUS
<1>2. /\ d \in Nat /\ d < n /\ Len(t) = n
      /\ \A k \in 1 .. n : t[k] = IF k + d <= n THEN s[k + d] ELSE s[k + d - n]
  BY <1>1 DEF Rotated
<1>3. ASSUME NEW k \in 1 .. n
      PROVE  \E m \in 1 .. n : s[m] = t[k]
  <2>1. CASE k + d <= n
    <3>1. k + d \in 1 .. n /\ t[k] = s[k + d]
      BY <1>2, <2>1
    <3> QED BY <3>1
  <2>2. CASE ~(k + d <= n)
    <3>1. k + d - n \in 1 .. n /\ t[k] = s[k + d - n]
      BY <1>2, <2>2
    <3> QED BY <3>1
  <2> QED BY <2>1, <2>2
<1>4. ASSUME NEW m \in 1 .. n
      PROVE  \E k \in 1 .. n : t[k] = s[m]
  <2>1. CASE m > d
    <3>1. PICK k \in 1 .. n : k = m - d /\ k + d = m
      BY <1>2, <2>1
    <3>2. t[k] = s[k + d]
      BY <1>2, <3>1
    <3> QED BY <3>1, <3>2
  <2>2. CASE ~(m > d)
    <3>1. PICK k \in 1 .. n : k = m - d + n /\ k + d - n = m /\ ~(k + d <= n)
      BY <1>2, <2>2
    <3>2. t[k] = s[k + d - n]
      BY <1>2, <3>1
    <3> QED BY <3>1, <3>2
  <2> QED BY <2>1, <2>2
<1>5. \A x : x \in ToSet(s) <=> \E k \in 1 .. n : s[k] = x
  BY <1>1, ItemsOf
<1>6. \A x : x \in ToSet(t) <=> \E k \in 1 .. n : t[k] = x
  <2>1. \A x : x \in ToSet(t) <=> \E k \in 1 .. Len(t) : t[k] = x
    BY ItemsOf
  <2> QED BY <1>2, <2>1
<1>7. ASSUME NEW x \in ToSet(t) PROVE x \in ToSet(s)
  <2>1. PICK k \in 1 .. n : t[k] = x
    BY <1>6
  <2> QED BY <1>3, <1>5, <2>1
<1>8. ASSUME NEW x \in ToSet(s) PROVE x \in ToSet(t)
  <2>1. PICK m \in 1 .. n : s[m] = x
    BY <1>5
  <2> QED BY <1>4, <1>6, <2>1
<1> QED
  BY <1>7, <1>8

LEMMA TurnsMembers ==
  ASSUME NEW S, NEW r, IsRing(r, S)
  PROVE  /\ Turns(r) \in Seq(S) /\ ToSet(Turns(r)) = Members(r)
         /\ Turns(r) = <<>> <=> r.iter = Nil
<1>1. PICK s \in Seq(S) : s = r.items
  BY DEF IsRing
<1>2. CASE s = <<>>
  <2>1. Turns(r) = <<>> /\ r.iter = Nil
    BY <1>1, <1>2, Standing DEF Turns
  <2> QED BY <1>1, <1>2, <2>1 DEF Members
<1>3. CASE s # <<>>
  <2>1. PICK d \in 0 .. Len(s) - 1 : s[d + 1] = r.iter
    BY <1>1, <1>3, StandsBehind
  <2>2. PICK t : t = Turns(r)
    OBVIOUS
  <2>3. t \in Seq(S) /\ Rotated(s, d, t)
    BY <1>1, <2>1, <2>2, TurnsRotate
  <2>4. ToSet(t) = ToSet(s)
    BY <2>1, <2>3, RotatedMembers
  <2>5. t # <<>> /\ r.iter # Nil
    <3>1. Len(t) = Len(s) /\ Len(s) # 0
      BY <1>3, <2>3 DEF Rotated
    <3> QED BY <1>1, <1>3, <2>3, <3>1, Standing
  <2> QED BY <1>1, <2>2, <2>3, <2>4, <2>5 DEF Members
<1> QED
  BY <1>2, <1>3

LEMMA AfterAt ==
  ASSUME NEW S, NEW s \in Seq(S), IsInjective(s), NEW i \in 1 .. Len(s)
  PROVE  After(s, s[i]) = IF i < Len(s) THEN s[i + 1] ELSE Nil
<1>1. PICK n \in Nat : n = Len(s)
  OBVIOUS
<1>2. \A k, l \in 1 .. n : s[k] = s[l] => k = l
  BY <1>1 DEF IsInjective
<1>3. CASE i < n
  <2>1. i \in 1 .. n - 1
    BY <1>1, <1>3
  <2>2. \A k \in 1 .. n - 1 : s[k] = s[i] => k = i
    BY <1>1, <1>2
  <2>3. (CHOOSE k \in 1 .. Len(s) - 1 : s[k] = s[i]) = i
    BY <1>1, <2>1, <2>2
  <2>4. \E k \in 1 .. Len(s) - 1 : s[k] = s[i]
    BY <1>1, <2>1
  <2>5. After(s, s[i]) = s[i + 1]
    BY <2>3, <2>4 DEF After
  <2> QED BY <1>1, <1>3, <2>5
<1>4. CASE ~(i < n)
  <2>1. ~ \E k \in 1 .. Len(s) - 1 : s[k] = s[i]
    BY <1>1, <1>2, <1>4
  <2> QED BY <1>1, <1>4, <2>1 DEF After
<1> QED
  BY <1>1, <1>3, <1>4

(* Next serves the item whose turn it is. *)
THEOREM AdvancedServes ==
  ASSUME NEW S, NEW r, IsRing(r, S)
  PROVE  /\ r.iter = Nil => Advanced(r) = r
         /\ r.iter # Nil => /\ Turns(r) # <<>>
                            /\ Turns(Advanced(r)) = Append(Tail(Turns(r)), Head(Turns(r)))
<1>1. CASE r.iter = Nil
  <2>1. r = [items |-> r.items, iter |-> r.iter]
    BY DEF IsRing
  <2>2. Advanced(r) = [r EXCEPT !.iter = Nil]
    BY <1>1 DEF Advanced
  <2> QED BY <1>1, <2>1, <2>2
<1>2. CASE r.iter # Nil
  <2>1. PICK s \in Seq(S) : s = r.items /\ s # <<>> /\ IsInjective(s) /\ Nil \notin S
    BY <1>2, Standing DEF IsRing, RingOK
  <2>2. PICK d \in 0 .. Len(s) - 1 : s[d + 1] = r.iter
    BY <2>1, StandsBehind
  <2>3. PICK n \in Nat : n = Len(s)
    OBVIOUS
  <2>4. d \in Nat /\ d < n
    BY <2>2, <2>3
  <2>5. PICK e \in 0 .. n - 1 : e = IF d + 1 < n THEN d + 1 ELSE 0
    BY <2>4
  <2>6. PICK a : a = Advanced(r)
    OBVIOUS
  <2>7. IsRing(a, S)
    BY <2>6, AdvancedIsRing
  <2>8. a.items = s /\ a.iter = s[e + 1]
    <3>1. After(s, r.iter) = IF d + 1 < n THEN s[e + 1] ELSE Nil
      <4>1. d + 1 \in 1 .. Len(s) /\ (d + 1 < n => e = d + 1)
        BY <2>3, <2>4, <2>5
      <4>2. After(s, s[d + 1]) = IF d + 1 < Len(s) THEN s[(d + 1) + 1] ELSE Nil
        BY <2>1, <4>1, AfterAt
      <4> QED BY <2>2, <2>3, <4>1, <4>2
    <3>2. s[e + 1] \in S
      BY <2>3, <2>5
    <3>3. d + 1 >= n => FrontOf(s) = s[e + 1]
      BY <2>1, <2>4, <2>5 DEF FrontOf
    <3>4. a.iter = IF After(s, r.iter) # Nil THEN After(s, r.iter) ELSE FrontOf(s)
      <4>1. PICK i : i = IF After(s, r.iter) # Nil THEN After(s, r.iter) ELSE FrontOf(s)
        OBVIOUS
      <4>2. a = [r EXCEPT !.iter = i]
        BY <1>2, <2>1, <2>6, <4>1, Zenon DEF Advanced
      <4>3. r = [items |-> r.items, iter |-> r.iter]
        BY DEF IsRing
      <4> QED BY <4>1, <4>2, <4>3
    <3>5. a.items = s
      <4>1. r = [items |-> s, iter |-> r.iter]
        BY <2>1 DEF IsRing
      <4>2. PICK i : a = [r EXCEPT !.iter = i]
        BY <2>6 DEF Advanced
      <4> QED BY <4>1, <4>2
    <3> QED BY <2>1, <2>4, <3>1, <3>2, <3>3, <3>4, <3>5
  <2>9. PICK t \in Seq(S) : t = Turns(r) /\ Rotated(s, d, t)
    BY <2>1, <2>2, TurnsRotate
  <2>10. PICK u \in Seq(S) : u = Turns(a) /\ Rotated(s, e, u)
    BY <2>3, <2>5, <2>7, <2>8, TurnsRotate
  <2>11. /\ Len(t) = n /\ t # <<>>
         /\ \A k \in 1 .. n : t[k] = IF k + d <= n THEN s[k + d] ELSE s[k + d - n]
    BY <2>3, <2>4, <2>9 DEF Rotated
  <2>12. /\ Len(u) = n
         /\ \A k \in 1 .. n : u[k] = IF k + e <= n THEN s[k + e] ELSE s[k + e - n]
    BY <2>3, <2>10 DEF Rotated
  <2>13. PICK v : v = Append(Tail(t), Head(t))
    OBVIOUS
  <2>14. /\ v \in Seq(S) /\ Len(v) = n
         /\ \A k \in 1 .. n : v[k] = IF k < n THEN t[k + 1] ELSE t[1]
    <3>1. PICK w \in Seq(S) : w = Tail(t) /\ Len(w) = n - 1 /\ \A k \in 1 .. n - 1 : w[k] = t[k + 1]
      <4>1. /\ Tail(t) \in Seq(S) /\ Len(Tail(t)) = Len(t) - 1
            /\ \A k \in 1 .. Len(Tail(t)) : Tail(t)[k] = t[k + 1]
        BY <2>11, HeadTailProperties
      <4> QED BY <2>11, <4>1
    <3>2. PICK h \in S : h = Head(t) /\ h = t[1]
      BY <2>11
    <3>3. v = Append(w, h)
      BY <2>13, <3>1, <3>2
    <3>4. n >= 1
      BY <2>4
    <3> QED BY <3>1, <3>2, <3>3, <3>4
  <2>15. ASSUME NEW k \in 1 .. n
         PROVE  u[k] = v[k]
    <3>1. CASE k = n
      <4>1. t[1] = s[d + 1]
        BY <2>4, <2>11
      <4>2. u[n] = s[d + 1]
        BY <2>4, <2>5, <2>12
      <4> QED BY <2>14, <3>1, <4>1, <4>2
    <3>2. CASE k < n
      <4>1. v[k] = t[k + 1] /\ k + 1 \in 1 .. n
        BY <2>14, <3>2
      <4>2. t[k + 1] = IF k + 1 + d <= n THEN s[k + 1 + d] ELSE s[k + 1 + d - n]
        BY <2>11, <4>1
      <4>3. u[k] = IF k + e <= n THEN s[k + e] ELSE s[k + e - n]
        BY <2>12
      <4>4. CASE d + 1 < n
        BY <2>4, <2>5, <4>1, <4>2, <4>3, <4>4
      <4>5. CASE ~(d + 1 < n)
        <5>1. e = 0 /\ d + 1 = n
          BY <2>4, <2>5, <4>5
        <5> QED BY <3>2, <4>1, <4>2, <4>3, <5>1
      <4> QED BY <4>4, <4>5
    <3> QED BY <3>1, <3>2
  <2>16. u = v
    BY <2>12, <2>14, <2>15, SeqEqual
  <2> QED BY <1>2, <2>6, <2>9, <2>10, <2>11, <2>13, <2>16
<1> QED
  BY <1>1, <1>2

OpenedUp(s, i, e, t) ==
  /\ Len(t) = Len(s) + 1
  /\ \A k \in 1 .. Len(s) + 1 : t[k] = IF k < i THEN s[k] ELSE IF k = i THEN e ELSE s[k - 1]

LEMMA InsertedAt ==
  ASSUME NEW S, NEW s \in Seq(S), NEW e \in S, NEW i \in 1 .. Len(s) + 1, NEW t, t = InsertAt(s, i, e)
  PROVE  t \in Seq(S) /\ OpenedUp(s, i, e, t)
<1>1. PICK n \in Nat : n = Len(s)
  OBVIOUS
<1>2. i \in Nat /\ 1 <= i /\ i <= n + 1
  BY <1>1
<1>3. PICK a : a = SubSeq(s, 1, i - 1)
  OBVIOUS
<1>4. PICK b : b = SubSeq(s, i, Len(s))
  OBVIOUS
<1>5. PICK m : m = <<e>>
  OBVIOUS
<1>6. m \in Seq(S) /\ Len(m) = 1 /\ m[1] = e
  BY <1>5
<1>7. a \in Seq(S) /\ Len(a) = i - 1 /\ \A k \in 1 .. i - 1 : a[k] = s[k]
  BY <1>1, <1>2, <1>3
<1>8. b \in Seq(S) /\ Len(b) = n - i + 1 /\ \A k \in 1 .. n - i + 1 : b[k] = s[i + k - 1]
  BY <1>1, <1>2, <1>4
<1>9. PICK c : c = a \o m
  OBVIOUS
<1>10. /\ c \in Seq(S) /\ Len(c) = i
       /\ \A k \in 1 .. i : c[k] = IF k < i THEN a[k] ELSE e
  <2>1. /\ a \o m \in Seq(S) /\ Len(a \o m) = Len(a) + Len(m)
        /\ \A k \in 1 .. Len(a) + Len(m) : (a \o m)[k] = IF k <= Len(a) THEN a[k] ELSE m[k - Len(a)]
    BY <1>6, <1>7, ConcatProperties
  <2>2. Len(a) + Len(m) = i /\ \A k \in 1 .. i : (k <= Len(a) <=> k < i) /\ (~(k < i) => k - Len(a) = 1)
    BY <1>2, <1>6, <1>7
  <2> QED BY <1>6, <1>9, <2>1, <2>2
<1>11. t = c \o b
  BY <1>3, <1>4, <1>5, <1>9 DEF InsertAt
<1>12. /\ t \in Seq(S) /\ Len(t) = n + 1
       /\ \A k \in 1 .. n + 1 : t[k] = IF k <= i THEN c[k] ELSE b[k - i]
  <2>1. /\ c \o b \in Seq(S) /\ Len(c \o b) = Len(c) + Len(b)
        /\ \A k \in 1 .. Len(c) + Len(b) : (c \o b)[k] = IF k <= Len(c) THEN c[k] ELSE b[k - Len(c)]
    BY <1>8, <1>10, ConcatProperties
  <2>2. Len(c) + Len(b) = n + 1 /\ Len(c) = i
    BY <1>1, <1>2, <1>8, <1>10
  <2> QED BY <1>11, <2>1, <2>2
<1>13. ASSUME NEW k \in 1 .. n + 1
       PROVE  t[k] = IF k < i THEN s[k] ELSE IF k = i THEN e ELSE s[k - 1]
  <2>1. CASE k < i
    <3>1. k \in 1 .. i /\ k \in 1 .. i - 1
      BY <1>2, <2>1
    <3> QED BY <1>7, <1>10, <1>12, <2>1, <3>1
  <2>2. CASE k = i
    <3>1. k \in 1 .. i /\ ~(k < i) /\ k <= i
      BY <1>2, <2>2
    <3> QED BY <1>10, <1>12, <2>2, <3>1
  <2>3. CASE k > i
    <3>1. k - i \in 1 .. n - i + 1 /\ i + (k - i) - 1 = k - 1 /\ ~(k <= i) /\ ~(k < i) /\ k # i
      BY <1>2, <2>3
    <3>2. b[k - i] = s[i + (k - i) - 1]
      BY <1>8, <3>1
    <3> QED BY <1>12, <3>1, <3>2
  <2> QED BY <1>2, <2>1, <2>2, <2>3
<1> QED
  BY <1>1, <1>12, <1>13 DEF OpenedUp

(* Append puts the item behind one that has the turn, where there is one. *)
THEOREM AppendedJoins ==
  ASSUME NEW S, NEW r, IsRing(r, S), NEW e \in S, e \notin Members(r)
  PROVE  \E i \in (IF Turns(r) = <<>> THEN {1} ELSE 2 .. Len(Turns(r)) + 1) :
           Turns(Appended(r, e)) = InsertAt(Turns(r), i, e)
<1>1. PICK s \in Seq(S) : s = r.items /\ Nil \notin S
  BY DEF IsRing
<1>2. PICK n \in Nat : n = Len(s)
  OBVIOUS
<1>3. PICK t \in Seq(S) : t = Turns(r) /\ (t = <<>> <=> r.iter = Nil)
  BY TurnsMembers
<1>4. PICK d \in 0 .. n : /\ s = <<>> => d = 0
                          /\ s # <<>> => d < n /\ s[d + 1] = r.iter
  <2>1. CASE s = <<>>
    BY <1>2, <2>1
  <2>2. CASE s # <<>>
    <3>1. PICK d \in 0 .. n - 1 : s[d + 1] = r.iter
      BY <1>1, <1>2, <2>2, StandsBehind
    <3>2. d \in 0 .. n /\ d < n
      BY <3>1
    <3> QED BY <2>2, <3>1, <3>2
  <2> QED BY <2>1, <2>2
<1>5. s = <<>> <=> t = <<>>
  BY <1>1, <1>3, Standing
<1>6. /\ Len(t) = n
      /\ \A k \in 1 .. n : t[k] = IF k + d <= n THEN s[k + d] ELSE s[k + d - n]
  <2>1. CASE s = <<>>
    BY <1>2, <1>5, <2>1
  <2>2. CASE s # <<>>
    <3>1. Rotated(s, d, t)
      BY <1>1, <1>2, <1>3, <1>4, <2>2, TurnsRotate
    <3> QED BY <1>2, <3>1 DEF Rotated
  <2> QED BY <2>1, <2>2
<1>7. PICK a : a = Appended(r, e) /\ IsRing(a, S)
  BY AppendedIsRing
<1>8. PICK x : x = Append(s, e)
  OBVIOUS
<1>9. x \in Seq(S) /\ Len(x) = n + 1 /\ x[n + 1] = e /\ \A k \in 1 .. n : x[k] = s[k]
  BY <1>2, <1>8
<1>10. PICK iter : iter = IF r.iter = Nil THEN e ELSE r.iter
  OBVIOUS
<1>11. a.items = x /\ a.iter = iter
  <2>1. a = [items |-> x, iter |-> iter]
    BY <1>1, <1>7, <1>8, <1>10 DEF Appended
  <2> QED BY <2>1
<1>12. iter = x[d + 1]
  <2>1. CASE s = <<>>
    BY <1>2, <1>3, <1>4, <1>5, <1>9, <1>10, <2>1
  <2>2. CASE s # <<>>
    <3>1. d + 1 \in 1 .. n /\ s[d + 1] = r.iter /\ r.iter # Nil
      BY <1>3, <1>4, <1>5, <2>2
    <3> QED BY <1>9, <1>10, <3>1
  <2> QED BY <2>1, <2>2
<1>13. PICK u \in Seq(S) : u = Turns(a) /\ Rotated(x, d, u)
  <2>1. d \in 0 .. Len(x) - 1
    BY <1>9
  <2> QED BY <1>7, <1>11, <1>12, <2>1, TurnsRotate
<1>14. /\ Len(u) = n + 1
       /\ \A k \in 1 .. n + 1 : u[k] = IF k + d <= n + 1 THEN x[k + d] ELSE x[k + d - (n + 1)]
  BY <1>9, <1>13 DEF Rotated
<1>15. PICK i \in 1 .. n + 1 : i = n - d + 1
  BY <1>4
<1>16. i \in (IF t = <<>> THEN {1} ELSE 2 .. Len(t) + 1)
  <2>1. CASE s = <<>>
    BY <1>2, <1>4, <1>5, <1>15, <2>1
  <2>2. CASE s # <<>>
    BY <1>4, <1>5, <1>6, <1>15, <2>2
  <2> QED BY <2>1, <2>2
<1>17. PICK v : v = InsertAt(t, i, e)
  OBVIOUS
<1>18. /\ v \in Seq(S) /\ Len(v) = n + 1
       /\ \A k \in 1 .. n + 1 : v[k] = IF k < i THEN t[k] ELSE IF k = i THEN e ELSE t[k - 1]
  <2>1. i \in 1 .. Len(t) + 1
    BY <1>6
  <2>2. v \in Seq(S) /\ OpenedUp(t, i, e, v)
    BY <1>17, <2>1, InsertedAt
  <2> QED BY <1>6, <2>2 DEF OpenedUp
<1>19. ASSUME NEW k \in 1 .. n + 1
       PROVE  u[k] = v[k]
  <2>1. CASE k < i
    <3>1. k \in 1 .. n /\ k + d <= n /\ k + d \in 1 .. n /\ k + d <= n + 1
      BY <1>15, <2>1
    <3> QED BY <1>6, <1>9, <1>14, <1>18, <2>1, <3>1
  <2>2. CASE k = i
    <3>1. k + d = n + 1
      BY <1>15, <2>2
    <3> QED BY <1>9, <1>14, <1>18, <2>2, <3>1
  <2>3. CASE k > i
    <3>1. /\ k - 1 \in 1 .. n /\ ~((k - 1) + d <= n) /\ (k - 1) + d - n = k + d - (n + 1)
          /\ k + d - (n + 1) \in 1 .. n /\ ~(k + d <= n + 1) /\ ~(k < i) /\ k # i
      BY <1>4, <1>15, <2>3
    <3>2. t[k - 1] = s[k + d - (n + 1)]
      BY <1>6, <3>1
    <3>3. u[k] = s[k + d - (n + 1)]
      BY <1>9, <1>14, <3>1
    <3> QED BY <1>18, <3>1, <3>2, <3>3
  <2> QED BY <1>15, <2>1, <2>2, <2>3
<1>20. u = v
  BY <1>14, <1>18, <1>19, SeqEqual
<1> QED
  BY <1>3, <1>7, <1>13, <1>16, <1>17, <1>20

(* Where the iterator stands after a Remove, and whose turn is removed. *)
Follows(n, d, j, d2, m) ==
  \/ j > d + 1 /\ d2 = d /\ m = j - d
  \/ j = d + 1 /\ j < n /\ d2 = d /\ m = 1
  \/ j = d + 1 /\ j = n /\ d2 = 0 /\ m = 1
  \/ j < d + 1 /\ d2 = d - 1 /\ m = n - d + j

LEMMA RotationCloses ==
  ASSUME NEW n \in Nat, NEW d \in 0 .. n - 1, NEW j \in 1 .. n, NEW d2 \in 0 .. n - 2, NEW m \in 1 .. n,
         Follows(n, d, j, d2, m),
         NEW s, NEW x, NEW t, NEW u,
         Len(s) = n, ClosedUp(s, j, x), Rotated(s, d, t), Rotated(x, d2, u)
  PROVE  ClosedUp(t, m, u)
<1>a. /\ Len(x) = n - 1 /\ Len(t) = n /\ Len(u) = n - 1 /\ DOMAIN u = 1 .. n - 1
      /\ \A k \in 1 .. n - 1 : x[k] = IF k < j THEN s[k] ELSE s[k + 1]
      /\ \A k \in 1 .. n : t[k] = IF k + d <= n THEN s[k + d] ELSE s[k + d - n]
      /\ \A k \in 1 .. n - 1 : u[k] = IF k + d2 <= n - 1 THEN x[k + d2] ELSE x[k + d2 - (n - 1)]
  BY DEF ClosedUp, Rotated
<1> SUFFICES ASSUME NEW k \in 1 .. n - 1
             PROVE  u[k] = IF k < m THEN t[k] ELSE t[k + 1]
  BY <1>a DEF ClosedUp
<1>1. d \in Nat /\ j \in Nat /\ d2 \in Nat /\ m \in Nat /\ k \in Nat /\ k >= 1 /\ k <= n - 1
  OBVIOUS
<1>2. PICK p \in 1 .. n - 1 : /\ p = IF k + d2 <= n - 1 THEN k + d2 ELSE k + d2 - (n - 1)
                              /\ u[k] = x[p]
  <2>1. CASE k + d2 <= n - 1
    BY <1>a, <1>1, <2>1
  <2>2. CASE ~(k + d2 <= n - 1)
    BY <1>a, <1>1, <2>2
  <2> QED BY <2>1, <2>2
<1>3. PICK q \in 1 .. n : q = (IF p < j THEN p ELSE p + 1) /\ u[k] = s[q]
  <2>1. CASE p < j
    BY <1>a, <1>1, <1>2, <2>1
  <2>2. CASE ~(p < j)
    <3>1. p + 1 \in 1 .. n
      BY <1>1, <1>2
    <3> QED BY <1>a, <1>2, <2>2, <3>1
  <2> QED BY <2>1, <2>2
<1>4. PICK l \in 1 .. n : l = IF k < m THEN k ELSE k + 1
  BY <1>1
<1>5. t[l] = IF l + d <= n THEN s[l + d] ELSE s[l + d - n]
  BY <1>a
<1>6. q = IF l + d <= n THEN l + d ELSE l + d - n
  <2>1. CASE j > d + 1 /\ d2 = d /\ m = j - d
    <3>1. CASE k + d2 <= n - 1
      BY <1>1, <1>2, <1>3, <1>4, <2>1, <3>1
    <3>2. CASE ~(k + d2 <= n - 1)
      BY <1>1, <1>2, <1>3, <1>4, <2>1, <3>2
    <3> QED BY <3>1, <3>2
  <2>2. CASE j = d + 1 /\ j < n /\ d2 = d /\ m = 1
    <3>1. CASE k + d2 <= n - 1
      BY <1>1, <1>2, <1>3, <1>4, <2>2, <3>1
    <3>2. CASE ~(k + d2 <= n - 1)
      BY <1>1, <1>2, <1>3, <1>4, <2>2, <3>2
    <3> QED BY <3>1, <3>2
  <2>3. CASE j = d + 1 /\ j = n /\ d2 = 0 /\ m = 1
    <3>1. CASE k + d2 <= n - 1
      BY <1>1, <1>2, <1>3, <1>4, <2>3, <3>1
    <3>2. CASE ~(k + d2 <= n - 1)
      BY <1>1, <1>2, <1>3, <1>4, <2>3, <3>2
    <3> QED BY <3>1, <3>2
  <2>4. CASE j < d + 1 /\ d2 = d - 1 /\ m = n - d + j
    <3>1. CASE k + d2 <= n - 1
      BY <1>1, <1>2, <1>3, <1>4, <2>4, <3>1
    <3>2. CASE ~(k + d2 <= n - 1)
      BY <1>1, <1>2, <1>3, <1>4, <2>4, <3>2
    <3> QED BY <3>1, <3>2
  <2> QED BY <2>1, <2>2, <2>3, <2>4 DEF Follows
<1>7. u[k] = t[l]
  BY <1>3, <1>5, <1>6
<1> QED
  BY <1>4, <1>7

(* Remove takes a turn away, and the others keep their order. *)
THEOREM RemovedLeaves ==
  ASSUME NEW S, NEW r, IsRing(r, S), NEW e \in Members(r)
  PROVE  \E i \in DOMAIN Turns(r) : Turns(Removed(r, e)) = RemoveAt(Turns(r), i)
<1>1. PICK s \in Seq(S) : s = r.items /\ IsInjective(s) /\ e \in ToSet(s) /\ Nil \notin S
  BY DEF IsRing, RingOK, Members
<1>2. PICK n \in Nat : n = Len(s)
  OBVIOUS
<1>3. PICK j \in 1 .. n : s[j] = e
  BY <1>1, <1>2, ItemsOf
<1>4. s # <<>> /\ n >= 1
  BY <1>2, <1>3
<1>5. PICK d \in 0 .. n - 1 : s[d + 1] = r.iter
  BY <1>1, <1>2, <1>4, StandsBehind
<1>6. PICK t \in Seq(S) : t = Turns(r) /\ Rotated(s, d, t)
  BY <1>1, <1>2, <1>5, TurnsRotate
<1>7. /\ Len(t) = n /\ DOMAIN t = 1 .. n
      /\ \A k \in 1 .. n : t[k] = IF k + d <= n THEN s[k + d] ELSE s[k + d - n]
  BY <1>2, <1>6 DEF Rotated
<1>8. PICK x : x = Without(s, e)
  OBVIOUS
<1>9. /\ x \in Seq(S) /\ Len(x) = n - 1 /\ ClosedUp(s, j, x)
      /\ \A k \in 1 .. n - 1 : x[k] = IF k < j THEN s[k] ELSE s[k + 1]
  <2>1. (CHOOSE k \in DOMAIN s : s[k] = e) = j
    BY <1>1, <1>2, <1>3, PositionOf
  <2>2. x = RemoveAt(s, j)
    BY <1>1, <1>8, <2>1, Zenon DEF Without
  <2>3. x \in Seq(S) /\ ClosedUp(s, j, x)
    BY <1>2, <2>2, RemovedAt
  <2> QED BY <1>2, <2>3 DEF ClosedUp
<1>10. PICK a : a = Removed(r, e) /\ IsRing(a, S)
  BY RemovedIsRing
<1>11. PICK moved : moved = IF r.iter = e THEN After(s, e) ELSE r.iter
  OBVIOUS
<1>12. PICK iter : iter = IF moved = Nil THEN FrontOf(x) ELSE moved
  OBVIOUS
<1>13. a.items = x /\ a.iter = iter
  <2>1. a = [items |-> x, iter |-> iter]
    BY <1>1, <1>4, <1>8, <1>10, <1>11, <1>12 DEF Removed
  <2> QED BY <2>1
<1>14. \A k, l \in 1 .. n : s[k] = s[l] => k = l
  BY <1>1, <1>2 DEF IsInjective
<1>15. r.iter = e <=> j = d + 1
  BY <1>3, <1>5, <1>14
<1>16. After(s, e) = IF j < n THEN s[j + 1] ELSE Nil
  BY <1>1, <1>2, <1>3, AfterAt
<1>17. CASE n = 1
  <2>1. x = <<>>
    BY <1>9, <1>17
  <2>2. Turns(a) = <<>>
    BY <1>10, <1>13, <2>1, Standing, TurnsMembers
  <2>3. PICK w : w = RemoveAt(t, 1)
    OBVIOUS
  <2>4. w \in Seq(S) /\ Len(w) = 0
    <3>1. 1 \in 1 .. Len(t)
      BY <1>7, <1>17
    <3>2. w \in Seq(S) /\ ClosedUp(t, 1, w)
      BY <2>3, <3>1, RemovedAt
    <3> QED BY <1>7, <1>17, <3>2 DEF ClosedUp
  <2>5. w = <<>>
    BY <2>4
  <2>6. 1 \in DOMAIN t
    BY <1>7, <1>17
  <2> QED BY <1>6, <1>10, <2>2, <2>3, <2>5, <2>6
<1>18. CASE n > 1
  <2>1. PICK d2 \in 0 .. n - 2, m \in 1 .. n : Follows(n, d, j, d2, m)
    <3>1. CASE j > d + 1
      <4>1. d \in 0 .. n - 2 /\ j - d \in 1 .. n
        BY <3>1
      <4> QED BY <3>1, <4>1 DEF Follows
    <3>2. CASE j = d + 1 /\ j < n
      <4>1. d \in 0 .. n - 2 /\ 1 \in 1 .. n
        BY <3>2
      <4> QED BY <3>2, <4>1 DEF Follows
    <3>3. CASE j = d + 1 /\ j = n
      <4>1. 0 \in 0 .. n - 2 /\ 1 \in 1 .. n
        BY <1>18
      <4> QED BY <3>3, <4>1 DEF Follows
    <3>4. CASE j < d + 1
      <4>1. d - 1 \in 0 .. n - 2 /\ n - d + j \in 1 .. n
        BY <3>4
      <4> QED BY <3>4, <4>1 DEF Follows
    <3> QED BY <3>1, <3>2, <3>3, <3>4
  <2>2. iter = x[d2 + 1]
    <3>0. d2 + 1 \in 1 .. n - 1 /\ FrontOf(x) = x[1]
      BY <1>9, <1>18 DEF FrontOf
    <3>1. CASE j > d + 1
      <4>1. d2 = d /\ moved = s[d + 1] /\ moved # Nil
        BY <1>1, <1>2, <1>5, <1>11, <1>15, <2>1, <3>1 DEF Follows
      <4> QED BY <1>9, <1>12, <3>0, <3>1, <4>1
    <3>2. CASE j = d + 1 /\ j < n
      <4>1. d2 = d /\ j + 1 \in 1 .. n /\ moved = s[j + 1] /\ moved # Nil
        <5>1. d2 = d
          BY <2>1, <3>2 DEF Follows
        <5>2. j + 1 \in 1 .. n
          BY <3>2
        <5>3. moved = s[j + 1]
          BY <1>11, <1>15, <1>16, <3>2
        <5>4. s[j + 1] \in S
          BY <1>2, <5>2
        <5> QED BY <1>1, <5>1, <5>2, <5>3, <5>4
      <4> QED BY <1>9, <1>12, <3>0, <3>2, <4>1
    <3>3. CASE j = d + 1 /\ j = n
      <4>1. d2 = 0 /\ moved = Nil
        BY <1>11, <1>15, <1>16, <1>18, <2>1, <3>3 DEF Follows
      <4> QED BY <1>12, <3>0, <4>1
    <3>4. CASE j < d + 1
      <4>1. d2 = d - 1
        BY <2>1, <3>4 DEF Follows
      <4>2. d \in 1 .. n - 1 /\ ~(d < j) /\ d + 1 \in 1 .. n /\ d2 + 1 = d
        BY <3>4, <4>1
      <4>3. moved = s[d + 1]
        BY <1>5, <1>11, <1>15, <3>4
      <4>4. s[d + 1] \in S
        BY <1>2, <4>2
      <4>5. x[d] = s[d + 1]
        BY <1>9, <4>2
      <4> QED BY <1>1, <1>12, <4>2, <4>3, <4>4, <4>5
    <3> QED BY <3>1, <3>2, <3>3, <3>4
  <2>3. PICK u \in Seq(S) : u = Turns(a) /\ Rotated(x, d2, u)
    <3>1. d2 \in 0 .. Len(x) - 1
      BY <1>9
    <3> QED BY <1>10, <1>13, <2>2, <3>1, TurnsRotate
  <2>4. ClosedUp(t, m, u)
    BY <1>2, <1>6, <1>9, <2>1, <2>3, RotationCloses
  <2>5. PICK w : w = RemoveAt(t, m)
    OBVIOUS
  <2>6. w \in Seq(S) /\ ClosedUp(t, m, w)
    <3>1. m \in 1 .. Len(t)
      BY <1>7
    <3> QED BY <2>5, <3>1, RemovedAt
  <2>7. /\ Len(u) = n - 1 /\ Len(w) = n - 1
        /\ \A k \in 1 .. n - 1 : u[k] = w[k]
    BY <1>7, <2>4, <2>6 DEF ClosedUp
  <2>8. u = w
    BY <2>6, <2>7, SeqEqual
  <2> QED BY <1>6, <1>7, <1>10, <2>3, <2>5, <2>8
<1> QED
  BY <1>4, <1>17, <1>18
=============================================================================
