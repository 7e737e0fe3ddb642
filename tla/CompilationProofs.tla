-------------------------- MODULE CompilationProofs -------------------------
(***************************************************************************)
(* The compilation queue takes up exactly the locations reachable over     *)
(* $refs, each once, and nothing that is not allowed, in every world.      *)
(* A locator that runs a command passes on whole answers only.             *)
(***************************************************************************)
EXTENDS Pipeline, Subprocess, SequenceTheorems, NaturalsInduction, WellFoundedInduction, TLAPS

-----------------------------------------------------------------------------
(* Cleaning and walking paths *)

(* Induction with a set for the property. *)
LEMMA Numbers ==
  ASSUME NEW S, 0 \in S, \A n \in Nat : n \in S => n + 1 \in S
  PROVE  Nat \subseteq S
<1> DEFINE C == Nat \ S
<1>1. SUFFICES ASSUME C # {}
               PROVE  FALSE
  OBVIOUS
<1>2. PICK n \in C : \A m \in C : ~(<<m, n>> \in OpToRel(<, Nat))
  BY <1>1, NatLessThanWellFounded, WFMin
<1>3. \A m \in Nat : m < n => m \in S
  BY <1>2, Zenon DEF OpToRel
<1>4. n \in Nat /\ n # 0
  OBVIOUS
<1>5. n - 1 \in Nat /\ n - 1 < n /\ (n - 1) + 1 = n
  BY <1>4
<1> QED
  BY <1>3, <1>5

LEMMA Paths ==
  ASSUME NEW X, NEW S, <<>> \in S,
         \A s \in Seq(X), x \in X : s \in S => Append(s, x) \in S
  PROVE  Seq(X) \subseteq S
<1> DEFINE T == {n \in Nat : \A s \in Seq(X) : Len(s) = n => s \in S}
<1>1. 0 \in T
  OBVIOUS
<1>2. ASSUME NEW n \in Nat, n \in T
      PROVE  n + 1 \in T
  <2> SUFFICES ASSUME NEW t \in Seq(X), Len(t) = n + 1
               PROVE  t \in S
    OBVIOUS
  <2>1. PICK s, x : s \in Seq(X) /\ x \in X /\ t = Append(s, x) /\ Len(s) = n
    <3>1. t # <<>>
      BY <1>2
    <3>2. PICK f : f = [i \in 1 .. n |-> t[i]]
      OBVIOUS
    <3>3. f \in Seq(X) /\ Len(f) = n
      BY <1>2, <3>2
    <3>4. t[n + 1] \in X
      BY <1>2
    <3>5. t = Append(f, t[n + 1])
      BY <1>2, <3>2, <3>3, <3>4
    <3> QED BY <3>3, <3>4, <3>5
  <2>2. s \in S
    BY <1>2, <2>1
  <2> QED BY <2>1, <2>2
<1> HIDE DEF T
<1>3. Nat \subseteq T
  BY <1>1, <1>2, Numbers
<1>4. ASSUME NEW s \in Seq(X)
      PROVE  s \in S
  BY <1>3 DEF T
<1> QED
  BY <1>4

LEMMA Longer ==
  ASSUME NEW X, NEW s \in Seq(X), NEW x \in X
  PROVE  /\ Append(s, x) \in Seq(X)
         /\ Len(s) \in Nat /\ Len(Append(s, x)) = Len(s) + 1
         /\ \A i \in 1 .. Len(s) : Append(s, x)[i] = s[i]
         /\ Append(s, x)[Len(s) + 1] = x
OBVIOUS

IsRun(f, a, d, s) ==
  f = [n \in 0 .. Len(s) |-> IF n = 0 THEN d ELSE CleanStep(a, f[n - 1], s[n])]

LEMMA SomeRun ==
  ASSUME NEW a, NEW d, NEW s, NEW h, IsRun(h, a, d, s)
  PROVE  \E f : IsRun(f, a, d, s) /\ CleanFrom(a, d, s) = f[Len(s)]
BY Zenon DEF CleanFrom, IsRun

LEMMA RunAppended ==
  ASSUME NEW a, NEW d, NEW s \in Seq(STRING), NEW x \in STRING, NEW f, IsRun(f, a, d, s)
  PROVE  \E h : IsRun(h, a, d, Append(s, x))
<1>1. PICK n \in Nat : n = Len(s)
  OBVIOUS
<1>2. PICK t : t = Append(s, x) /\ Len(t) = n + 1 /\ (\A i \in 1 .. n : t[i] = s[i]) /\ t[n + 1] = x
  BY <1>1, Longer
<1>3. PICK y : y = CleanStep(a, f[n], x)
  OBVIOUS
<1>4. PICK h : h = [i \in 0 .. n + 1 |-> IF i = n + 1 THEN y ELSE f[i]]
  OBVIOUS
<1>5. /\ \A i \in 0 .. n : h[i] = f[i]
      /\ \A i \in 1 .. n : f[i] = CleanStep(a, f[i - 1], s[i])
      /\ f[0] = d
      /\ h[n + 1] = y
  BY <1>1, <1>4 DEF IsRun
<1>6. \A i \in 1 .. n + 1 : h[i] = CleanStep(a, h[i - 1], t[i])
  <2> SUFFICES ASSUME NEW i \in 1 .. n + 1
               PROVE  h[i] = CleanStep(a, h[i - 1], t[i])
    OBVIOUS
  <2>1. CASE i = n + 1
    <3>1. i - 1 = n /\ n \in 0 .. n
      BY <2>1
    <3>2. h[n] = f[n] /\ h[i] = y /\ t[i] = x
      BY <1>2, <1>5, <2>1, <3>1
    <3> QED BY <1>3, <3>1, <3>2
  <2>2. CASE i \in 1 .. n
    <3>1. i - 1 \in 0 .. n /\ i \in 0 .. n
      BY <2>2
    <3>2. h[i - 1] = f[i - 1] /\ h[i] = f[i]
      BY <1>5, <3>1
    <3>3. t[i] = s[i]
      BY <1>2, <2>2
    <3> QED BY <1>5, <2>2, <3>2, <3>3
  <2> QED BY <2>1, <2>2
<1>7. IsRun(h, a, d, t)
  <2>1. h = [i \in 0 .. n + 1 |-> h[i]]
    BY <1>4
  <2>2. \A i \in 0 .. n + 1 : h[i] = IF i = 0 THEN d ELSE CleanStep(a, h[i - 1], t[i])
    BY <1>5, <1>6
  <2> QED BY <1>2, <2>1, <2>2 DEF IsRun
<1> QED
  BY <1>2, <1>7

LEMMA RunExists ==
  ASSUME NEW a, NEW d
  PROVE  \A s \in Seq(STRING) : \E f : IsRun(f, a, d, s)
<1> DEFINE S == {s \in Seq(STRING) : \E f : IsRun(f, a, d, s)}
<1>1. <<>> \in S
  <2>1. PICK f : f = [n \in 0 .. 0 |-> d]
    OBVIOUS
  <2>2. IsRun(f, a, d, <<>>)
    BY <2>1 DEF IsRun
  <2> QED BY <2>2
<1>2. ASSUME NEW s \in Seq(STRING), NEW x \in STRING, s \in S
      PROVE  Append(s, x) \in S
  <2>1. PICK f : IsRun(f, a, d, s)
    BY <1>2
  <2>2. \E h : IsRun(h, a, d, Append(s, x))
    BY <2>1, RunAppended
  <2> QED BY <2>2, Longer
<1> HIDE DEF S
<1>3. Seq(STRING) \subseteq S
  BY <1>1, <1>2, Paths
<1> QED
  BY <1>3 DEF S

LEMMA CleanEmpty ==
  ASSUME NEW a, NEW d
  PROVE  CleanFrom(a, d, <<>>) = d
<1>1. <<>> \in Seq(STRING) /\ Len(<<>>) = 0
  OBVIOUS
<1>2. PICK f : IsRun(f, a, d, <<>>) /\ CleanFrom(a, d, <<>>) = f[Len(<<>>)]
  BY <1>1, RunExists, SomeRun
<1> QED
  BY <1>1, <1>2 DEF IsRun

LEMMA CleanAppend ==
  ASSUME NEW a, NEW d, NEW s \in Seq(STRING), NEW x \in STRING
  PROVE  CleanFrom(a, d, Append(s, x)) = CleanStep(a, CleanFrom(a, d, s), x)
<1>1. PICK n \in Nat : n = Len(s)
  OBVIOUS
<1>2. PICK t : /\ t = Append(s, x) /\ t \in Seq(STRING) /\ Len(t) = n + 1
               /\ \A i \in 1 .. n : t[i] = s[i]
               /\ t[n + 1] = x
  BY <1>1, Longer
<1>3. PICK f : IsRun(f, a, d, s) /\ CleanFrom(a, d, s) = f[n]
  BY <1>1, RunExists, SomeRun
<1>4. PICK h : IsRun(h, a, d, t) /\ CleanFrom(a, d, t) = h[n + 1]
  BY <1>2, RunExists, SomeRun
<1>5. /\ f[0] = d /\ h[0] = d
      /\ \A i \in 1 .. n : f[i] = CleanStep(a, f[i - 1], s[i])
      /\ \A i \in 1 .. n + 1 : h[i] = CleanStep(a, h[i - 1], t[i])
  <2>1. f = [i \in 0 .. n |-> IF i = 0 THEN d ELSE CleanStep(a, f[i - 1], s[i])]
    BY <1>1, <1>3 DEF IsRun
  <2>2. h = [i \in 0 .. n + 1 |-> IF i = 0 THEN d ELSE CleanStep(a, h[i - 1], t[i])]
    BY <1>2, <1>4 DEF IsRun
  <2> QED BY <2>1, <2>2
<1> DEFINE S == {i \in Nat : i <= n => f[i] = h[i]}
<1>6. 0 \in S
  BY <1>5
<1>7. ASSUME NEW i \in Nat, i \in S
      PROVE  i + 1 \in S
  <2> SUFFICES ASSUME i + 1 <= n
               PROVE  f[i + 1] = h[i + 1]
    OBVIOUS
  <2>1. f[i] = h[i] /\ i + 1 \in 1 .. n /\ i + 1 \in 1 .. n + 1 /\ (i + 1) - 1 = i
    BY <1>7
  <2>2. f[i + 1] = CleanStep(a, f[i], s[i + 1]) /\ h[i + 1] = CleanStep(a, h[i], t[i + 1])
    BY <1>5, <2>1
  <2> QED BY <1>2, <2>1, <2>2
<1> HIDE DEF S
<1>8. n \in S
  BY <1>6, <1>7, Numbers
<1>9. f[n] = h[n]
  BY <1>8 DEF S
<1>10. h[n + 1] = CleanStep(a, h[n], x)
  <2>1. n + 1 \in 1 .. n + 1 /\ (n + 1) - 1 = n
    OBVIOUS
  <2> QED BY <1>2, <1>5, <2>1
<1> QED
  BY <1>2, <1>3, <1>4, <1>9, <1>10
Ordinary == STRING \ {".", ".."}

LEMMA Shorter ==
  ASSUME NEW X, NEW s \in Seq(X), s # <<>>
  PROVE  /\ Front(s) \in Seq(X) /\ s[Len(s)] \in X
         /\ s = Append(Front(s), s[Len(s)])
         /\ Len(s) \in Nat /\ Len(s) > 0 /\ Len(Front(s)) = Len(s) - 1
         /\ \A i \in 1 .. Len(s) - 1 : Front(s)[i] = s[i]
<1>1. Len(s) \in Nat /\ Len(s) > 0 /\ \A i \in 1 .. Len(s) : s[i] \in X
  OBVIOUS
<1>2. PICK n \in Nat : Len(s) = n + 1
  <2>1. Len(s) - 1 \in Nat /\ Len(s) = (Len(s) - 1) + 1
    BY <1>1
  <2> QED BY <2>1
<1>3. PICK f : f = Front(s)
  OBVIOUS
<1>4. f \in Seq(X) /\ Len(f) = n /\ \A i \in 1 .. n : f[i] = s[i]
  BY <1>1, <1>2, <1>3 DEF Front
<1>5. s[n + 1] \in X
  BY <1>1, <1>2
<1>6. s = Append(f, s[n + 1])
  BY <1>1, <1>2, <1>4, <1>5
<1> QED
  BY <1>1, <1>2, <1>3, <1>4, <1>5, <1>6

LEMMA LongerPath ==
  ASSUME NEW s \in Seq(STRING), NEW x \in STRING
  PROVE  /\ Append(s, x) \in Seq(STRING)
         /\ Len(s) \in Nat /\ Len(Append(s, x)) = Len(s) + 1
         /\ \A i \in 1 .. Len(s) : Append(s, x)[i] = s[i]
         /\ Append(s, x)[Len(s) + 1] = x
<1>1. PICK X : X = STRING
  OBVIOUS
<1>2. s \in Seq(X) /\ x \in X
  BY <1>1
<1> QED
  BY <1>1, <1>2, Longer

LEMMA FrontOfAppend ==
  ASSUME NEW X, NEW s \in Seq(X), NEW x \in X
  PROVE  Front(Append(s, x)) = s /\ Append(s, x) # <<>>
<1>1. PICK t : t = Append(s, x)
  OBVIOUS
<1>2. /\ t \in Seq(X) /\ Len(t) = Len(s) + 1 /\ Len(s) \in Nat /\ t # <<>>
      /\ \A i \in 1 .. Len(s) : t[i] = s[i]
  <2>1. /\ t \in Seq(X) /\ Len(t) = Len(s) + 1 /\ Len(s) \in Nat
        /\ \A i \in 1 .. Len(s) : t[i] = s[i]
    BY <1>1, Longer
  <2> QED BY <2>1
<1>3. PICK f : f = Front(t)
  OBVIOUS
<1>4. f \in Seq(X) /\ Len(f) = Len(t) - 1 /\ \A i \in 1 .. Len(t) - 1 : f[i] = t[i]
  BY <1>2, <1>3, Shorter
<1>5. Len(f) = Len(s) /\ \A i \in 1 .. Len(s) : f[i] = s[i]
  BY <1>2, <1>4
<1>6. f = s
  BY <1>4, <1>5, SeqEqual
<1> QED
  BY <1>1, <1>2, <1>3, <1>6

LEMMA Names ==
  /\ "." # ".."
  /\ Ordinary \subseteq STRING /\ Seq(Ordinary) \subseteq Seq(STRING)
  /\ \A x \in STRING : x \in Ordinary \/ x = "." \/ x = ".."
  /\ \A x \in Ordinary : x # "." /\ x # ".."
<1>1. Ordinary \subseteq STRING
  BY DEF Ordinary
<1>2. Seq(Ordinary) \subseteq Seq(STRING)
  BY <1>1, SeqMonotonic
<1>4. "." # ".."
  OBVIOUS
<1>5. /\ \A x \in STRING : x \in Ordinary \/ x = "." \/ x = ".."
      /\ \A x \in Ordinary : x # "." /\ x # ".."
  BY DEF Ordinary
<1> QED
  BY <1>1, <1>2, <1>4, <1>5

LEMMA StepTo ==
  ASSUME NEW a, NEW d, NEW x
  PROVE  /\ x = "." => CleanStep(a, d, x) = d
         /\ x = ".." /\ d # <<>> /\ d[Len(d)] # ".." => CleanStep(a, d, x) = Front(d)
         /\ x = ".." /\ (d = <<>> \/ d[Len(d)] = "..") =>
              CleanStep(a, d, x) = IF a THEN d ELSE Append(d, x)
         /\ x # "." /\ x # ".." => CleanStep(a, d, x) = Append(d, x)
BY DEF CleanStep

LEMMA RelativeStepTo ==
  ASSUME NEW d, NEW x
  PROVE  /\ x = "." => CleanStep(FALSE, d, x) = d
         /\ x = ".." /\ d # <<>> /\ d[Len(d)] # ".." => CleanStep(FALSE, d, x) = Front(d)
         /\ x = ".." /\ (d = <<>> \/ d[Len(d)] = "..") => CleanStep(FALSE, d, x) = Append(d, x)
         /\ x # "." /\ x # ".." => CleanStep(FALSE, d, x) = Append(d, x)
BY DEF CleanStep

LEMMA StepTyped ==
  ASSUME NEW a, NEW d \in Seq(STRING), NEW x \in STRING
  PROVE  CleanStep(a, d, x) \in Seq(STRING)
<1>1. CASE x = "."
  BY <1>1, StepTo
<1>2. CASE x = ".." /\ d # <<>> /\ d[Len(d)] # ".."
  BY <1>2, StepTo, Shorter
<1>3. CASE x = ".." /\ (d = <<>> \/ d[Len(d)] = "..")
  BY <1>3, StepTo, Longer
<1>4. CASE x # "." /\ x # ".."
  BY <1>4, StepTo, Longer
<1> QED
  BY <1>1, <1>2, <1>3, <1>4

LEMMA StepOrdinary ==
  ASSUME NEW d \in Seq(Ordinary), NEW x \in STRING
  PROVE  CleanStep(TRUE, d, x) \in Seq(Ordinary)
<1>1. CASE x = "."
  BY <1>1, StepTo
<1>2. CASE x = ".." /\ d # <<>> /\ d[Len(d)] # ".."
  BY <1>2, StepTo, Shorter
<1>3. CASE x = ".." /\ (d = <<>> \/ d[Len(d)] = "..")
  BY <1>3, StepTo
<1>4. CASE x # "." /\ x # ".."
  BY <1>4, StepTo, Longer, Names
<1> QED
  BY <1>1, <1>2, <1>3, <1>4

LEMMA CleanTyped ==
  ASSUME NEW a, NEW d \in Seq(STRING)
  PROVE  \A s \in Seq(STRING) : CleanFrom(a, d, s) \in Seq(STRING)
<1> DEFINE S == {s \in Seq(STRING) : CleanFrom(a, d, s) \in Seq(STRING)}
<1>1. <<>> \in S
  <2>1. <<>> \in Seq(STRING)
    OBVIOUS
  <2> QED BY <2>1, CleanEmpty
<1>2. ASSUME NEW s \in Seq(STRING), NEW x \in STRING, s \in S
      PROVE  Append(s, x) \in S
  <2>1. CleanFrom(a, d, Append(s, x)) = CleanStep(a, CleanFrom(a, d, s), x)
    BY CleanAppend
  <2>2. CleanFrom(a, d, s) \in Seq(STRING)
    BY <1>2
  <2>3. CleanFrom(a, d, Append(s, x)) \in Seq(STRING)
    BY <2>1, <2>2, StepTyped
  <2> QED BY <2>3, Longer
<1> HIDE DEF S
<1>3. Seq(STRING) \subseteq S
  BY <1>1, <1>2, Paths
<1> QED
  BY <1>3 DEF S

LEMMA CleanPlain ==
  ASSUME NEW d \in Seq(Ordinary)
  PROVE  \A s \in Seq(STRING) : CleanFrom(TRUE, d, s) \in Seq(Ordinary)
<1> DEFINE S == {s \in Seq(STRING) : CleanFrom(TRUE, d, s) \in Seq(Ordinary)}
<1>1. <<>> \in S
  <2>1. <<>> \in Seq(STRING)
    OBVIOUS
  <2> QED BY <2>1, CleanEmpty
<1>2. ASSUME NEW s \in Seq(STRING), NEW x \in STRING, s \in S
      PROVE  Append(s, x) \in S
  <2>1. CleanFrom(TRUE, d, Append(s, x)) = CleanStep(TRUE, CleanFrom(TRUE, d, s), x)
    BY CleanAppend
  <2>2. CleanFrom(TRUE, d, s) \in Seq(Ordinary)
    BY <1>2
  <2> QED BY <2>1, <2>2, StepOrdinary, Longer
<1> HIDE DEF S
<1>3. Seq(STRING) \subseteq S
  BY <1>1, <1>2, Paths
<1> QED
  BY <1>3 DEF S

LEMMA JoinAppend ==
  ASSUME NEW X, NEW s \in Seq(X), NEW t \in Seq(X), NEW x \in X
  PROVE  s \o Append(t, x) = Append(s \o t, x) /\ s \o t \in Seq(X)
OBVIOUS

LEMMA CleanConcat ==
  ASSUME NEW a, NEW d, NEW s \in Seq(STRING)
  PROVE  \A t \in Seq(STRING) : CleanFrom(a, d, s \o t) = CleanFrom(a, CleanFrom(a, d, s), t)
<1> DEFINE S == {t \in Seq(STRING) : CleanFrom(a, d, s \o t) = CleanFrom(a, CleanFrom(a, d, s), t)}
<1>1. <<>> \in S
  BY CleanEmpty, ConcatEmptySeq
<1>2. ASSUME NEW t \in Seq(STRING), NEW x \in STRING, t \in S
      PROVE  Append(t, x) \in S
  <2>1. s \o Append(t, x) = Append(s \o t, x) /\ s \o t \in Seq(STRING)
    BY JoinAppend
  <2>2. CleanFrom(a, d, Append(s \o t, x)) = CleanStep(a, CleanFrom(a, d, s \o t), x)
    BY <2>1, CleanAppend
  <2>3. CleanFrom(a, CleanFrom(a, d, s), Append(t, x))
          = CleanStep(a, CleanFrom(a, CleanFrom(a, d, s), t), x)
    BY CleanAppend
  <2> QED BY <1>2, <2>1, <2>2, <2>3, Longer
<1> HIDE DEF S
<1>3. Seq(STRING) \subseteq S
  BY <1>1, <1>2, Paths
<1> QED
  BY <1>3 DEF S

LEMMA RootConcat ==
  ASSUME NEW d, NEW s \in Seq(STRING), NEW t \in Seq(STRING)
  PROVE  CleanFrom(TRUE, d, s \o t) = CleanFrom(TRUE, CleanFrom(TRUE, d, s), t)
<1>1. PICK a : a = TRUE
  OBVIOUS
<1>2. PICK u : u = s \o t
  OBVIOUS
<1>3. CleanFrom(a, d, s \o t) = CleanFrom(a, CleanFrom(a, d, s), t)
  BY CleanConcat
<1> QED
  BY <1>1, <1>2, <1>3

LEMMA RootAppend ==
  ASSUME NEW d, NEW s \in Seq(STRING), NEW x \in STRING, NEW t, t = Append(s, x)
  PROVE  CleanFrom(TRUE, d, t) = CleanStep(TRUE, CleanFrom(TRUE, d, s), x)
<1>1. PICK a : a = TRUE
  OBVIOUS
<1>2. CleanFrom(a, d, Append(s, x)) = CleanStep(a, CleanFrom(a, d, s), x)
  BY CleanAppend
<1> QED
  BY <1>1, <1>2

LEMMA CleanOrdinary ==
  ASSUME NEW a, NEW d \in Seq(STRING)
  PROVE  \A s \in Seq(Ordinary) : CleanFrom(a, d, s) = d \o s
<1> DEFINE S == {s \in Seq(Ordinary) : CleanFrom(a, d, s) = d \o s}
<1>1. <<>> \in S
  BY CleanEmpty, ConcatEmptySeq
<1>2. ASSUME NEW s \in Seq(Ordinary), NEW x \in Ordinary, s \in S
      PROVE  Append(s, x) \in S
  <2>1. s \in Seq(STRING) /\ x \in STRING /\ x # "." /\ x # ".."
    BY Names
  <2>2. CleanFrom(a, d, Append(s, x)) = Append(CleanFrom(a, d, s), x)
    <3>1. CleanFrom(a, d, Append(s, x)) = CleanStep(a, CleanFrom(a, d, s), x)
      BY <2>1, CleanAppend
    <3> QED BY <2>1, <3>1, StepTo
  <2>3. d \o Append(s, x) = Append(d \o s, x)
    BY <2>1, JoinAppend
  <2> QED BY <1>2, <2>2, <2>3, Longer
<1> HIDE DEF S
<1>3. Seq(Ordinary) \subseteq S
  BY <1>1, <1>2, Paths
<1> QED
  BY <1>3 DEF S

(* Climbing first, if at all: what path.Clean makes of a relative path. *)
Relatives ==
  {e \in Seq(STRING) : \A i \in 1 .. Len(e) :
     e[i] # "." /\ (e[i] = ".." => \A j \in 1 .. i : e[j] = "..")}

LEMMA StepRelative ==
  ASSUME NEW d \in Relatives, NEW x \in STRING
  PROVE  CleanStep(FALSE, d, x) \in Relatives
<1>1. d \in Seq(STRING) /\ Len(d) \in Nat
  BY DEF Relatives
<1>2. CASE x = "."
  BY <1>2, RelativeStepTo
<1>3. CASE x = ".." /\ d # <<>> /\ d[Len(d)] # ".."
  <2>1. CleanStep(FALSE, d, x) = Front(d)
    BY <1>3, RelativeStepTo
  <2>2. PICK f : f = Front(d)
    OBVIOUS
  <2>3. f \in Seq(STRING) /\ Len(f) = Len(d) - 1 /\ \A i \in 1 .. Len(d) - 1 : f[i] = d[i]
    BY <1>1, <1>3, <2>2, Shorter
  <2>4. f \in Relatives
    BY <1>1, <2>3 DEF Relatives
  <2> QED BY <2>1, <2>2, <2>4
<1>4. CASE (x = ".." /\ (d = <<>> \/ d[Len(d)] = "..")) \/ (x # "." /\ x # "..")
  <2>1. CleanStep(FALSE, d, x) = Append(d, x)
    BY <1>4, RelativeStepTo
  <2>2. PICK t : t = Append(d, x)
    OBVIOUS
  <2>3. /\ t \in Seq(STRING) /\ Len(t) = Len(d) + 1
        /\ \A i \in 1 .. Len(d) : t[i] = d[i]
        /\ t[Len(d) + 1] = x
    <3>1. d \in Seq(STRING)
      BY <1>1
    <3>2. /\ Append(d, x) \in Seq(STRING) /\ Len(Append(d, x)) = Len(d) + 1
          /\ \A i \in 1 .. Len(d) : Append(d, x)[i] = d[i]
          /\ Append(d, x)[Len(d) + 1] = x
      BY <3>1, LongerPath
    <3> QED BY <2>2, <3>2
  <2>4. ASSUME NEW i \in 1 .. Len(t)
        PROVE  t[i] # "." /\ (t[i] = ".." => \A j \in 1 .. i : t[j] = "..")
    <3>1. CASE i \in 1 .. Len(d)
      BY <1>1, <2>3, <3>1 DEF Relatives
    <3>2. CASE i = Len(d) + 1
      <4>1. t[i] = x /\ x # "."
        BY <1>4, <2>3, <3>2
      <4>2. ASSUME x = "..", NEW j \in 1 .. Len(d)
            PROVE  d[j] = ".."
        <5>1. d # <<>> /\ Len(d) \in 1 .. Len(d)
          BY <1>1, <4>2
        <5>2. d[Len(d)] = ".."
          BY <1>4, <4>2, <5>1
        <5> QED BY <5>1, <5>2 DEF Relatives
      <4> QED BY <1>1, <2>3, <3>2, <4>1, <4>2
    <3> QED BY <1>1, <2>3, <3>1, <3>2
  <2>5. t \in Relatives
    BY <2>3, <2>4 DEF Relatives
  <2> QED BY <2>1, <2>2, <2>5
<1> QED
  BY <1>2, <1>3, <1>4

LEMMA CleanRelative == \A s \in Seq(STRING) : CleanFrom(FALSE, <<>>, s) \in Relatives
<1> DEFINE S == {s \in Seq(STRING) : CleanFrom(FALSE, <<>>, s) \in Relatives}
<1>1. <<>> \in S
  <2>1. <<>> \in Relatives
    BY DEF Relatives
  <2>2. <<>> \in Seq(STRING)
    OBVIOUS
  <2>3. CleanFrom(FALSE, <<>>, <<>>) = <<>>
    BY CleanEmpty
  <2> QED BY <2>1, <2>2, <2>3
<1>2. ASSUME NEW s \in Seq(STRING), NEW x \in STRING, s \in S
      PROVE  Append(s, x) \in S
  <2>1. CleanFrom(FALSE, <<>>, Append(s, x)) = CleanStep(FALSE, CleanFrom(FALSE, <<>>, s), x)
    BY CleanAppend
  <2>2. CleanFrom(FALSE, <<>>, Append(s, x)) \in Relatives
    BY <1>2, <2>1, StepRelative
  <2> QED BY <2>2, Longer
<1> HIDE DEF S
<1>3. Seq(STRING) \subseteq S
  BY <1>1, <1>2, Paths
<1> QED
  BY <1>3 DEF S

LEMMA StepTwice ==
  ASSUME NEW c \in Seq(Ordinary), NEW e \in Relatives, NEW x \in STRING
  PROVE  CleanFrom(TRUE, c, CleanStep(FALSE, e, x)) = CleanStep(TRUE, CleanFrom(TRUE, c, e), x)
<1>1. e \in Seq(STRING) /\ Len(e) \in Nat
  BY DEF Relatives
<1>2. CASE x = "."
  <2>1. CleanStep(FALSE, e, x) = e
    BY <1>2, RelativeStepTo
  <2>2. CleanStep(TRUE, CleanFrom(TRUE, c, e), x) = CleanFrom(TRUE, c, e)
    BY <1>2, StepTo
  <2> QED BY <2>1, <2>2
<1>3. CASE x = ".." /\ e # <<>> /\ e[Len(e)] # ".."
  <2>1. CleanStep(FALSE, e, x) = Front(e)
    BY <1>3, RelativeStepTo
  <2>2. PICK f, y : f = Front(e) /\ y = e[Len(e)]
    OBVIOUS
  <2>3. f \in Seq(STRING) /\ y \in STRING /\ e = Append(f, y) /\ Len(e) \in 1 .. Len(e)
    BY <1>1, <1>3, <2>2, Shorter
  <2>4. y # "." /\ y # ".."
    BY <1>3, <2>2, <2>3 DEF Relatives
  <2>5. PICK b : b = CleanFrom(TRUE, c, f)
    OBVIOUS
  <2>6. b \in Seq(Ordinary) /\ y \in Ordinary
    BY <2>3, <2>4, <2>5, CleanPlain, Names
  <2>7. CleanFrom(TRUE, c, e) = Append(b, y)
    <3>1. CleanFrom(TRUE, c, e) = CleanStep(TRUE, b, y)
      BY <2>3, <2>5, CleanAppend
    <3> QED BY <2>4, <3>1, StepTo
  <2>8. PICK t : t = Append(b, y)
    OBVIOUS
  <2>9. Front(t) = b /\ t # <<>> /\ t[Len(t)] = y
    <3>1. Front(t) = b /\ t # <<>>
      BY <2>6, <2>8, FrontOfAppend
    <3>2. t[Len(b) + 1] = y /\ Len(t) = Len(b) + 1
      BY <2>6, <2>8, Longer
    <3> QED BY <3>1, <3>2
  <2>10. CleanStep(TRUE, t, x) = b
    BY <1>3, <2>4, <2>9, StepTo
  <2> QED BY <2>1, <2>2, <2>5, <2>7, <2>8, <2>10
<1>4. CASE (x = ".." /\ (e = <<>> \/ e[Len(e)] = "..")) \/ (x # "." /\ x # "..")
  <2>1. CleanStep(FALSE, e, x) = Append(e, x)
    BY <1>4, RelativeStepTo
  <2> QED BY <1>1, <2>1, CleanAppend
<1> QED
  BY <1>2, <1>3, <1>4

LEMMA CleanTwice ==
  ASSUME NEW c \in Seq(Ordinary)
  PROVE  \A s \in Seq(STRING) : CleanFrom(TRUE, c, CleanFrom(FALSE, <<>>, s)) = CleanFrom(TRUE, c, s)
<1> DEFINE S == {s \in Seq(STRING) : CleanFrom(TRUE, c, CleanFrom(FALSE, <<>>, s)) = CleanFrom(TRUE, c, s)}
<1>1. <<>> \in S
  <2>1. <<>> \in Seq(STRING)
    OBVIOUS
  <2> QED BY <2>1, CleanEmpty
<1>2. ASSUME NEW s \in Seq(STRING), NEW x \in STRING, s \in S
      PROVE  Append(s, x) \in S
  <2>1. PICK e : e = CleanFrom(FALSE, <<>>, s)
    OBVIOUS
  <2>2. e \in Relatives /\ CleanFrom(TRUE, c, e) = CleanFrom(TRUE, c, s)
    BY <1>2, <2>1, CleanRelative
  <2>3. CleanFrom(FALSE, <<>>, Append(s, x)) = CleanStep(FALSE, e, x)
    BY <2>1, CleanAppend
  <2>4. CleanFrom(TRUE, c, Append(s, x)) = CleanStep(TRUE, CleanFrom(TRUE, c, s), x)
    BY CleanAppend
  <2>5. CleanFrom(TRUE, c, CleanStep(FALSE, e, x)) = CleanStep(TRUE, CleanFrom(TRUE, c, e), x)
    BY <2>2, StepTwice
  <2> QED BY <2>2, <2>3, <2>4, <2>5, Longer
<1> HIDE DEF S
<1>3. Seq(STRING) \subseteq S
  BY <1>1, <1>2, Paths
<1> QED
  BY <1>3 DEF S

(* Climbing from a directory comes to one it lies under. *)
LEMMA ClimbEnds ==
  ASSUME NEW c \in Seq(Ordinary)
  PROVE  \A e \in Seq({".."} \cap STRING) : \E n \in 0 .. Len(c) : CleanFrom(TRUE, c, e) = SubSeq(c, 1, n)
<1> DEFINE X == {".."} \cap STRING
           S == {e \in Seq(X) : \E n \in 0 .. Len(c) : CleanFrom(TRUE, c, e) = SubSeq(c, 1, n)}
<1>1. <<>> \in S
  <2>1. <<>> \in Seq(X)
    OBVIOUS
  <2>2. SubSeq(c, 1, Len(c)) = c /\ Len(c) \in 0 .. Len(c)
    BY SubSeqFull
  <2> QED BY <2>1, <2>2, CleanEmpty
<1>2. ASSUME NEW e \in Seq(X), NEW x \in X, e \in S
      PROVE  Append(e, x) \in S
  <2>1. PICK n \in 0 .. Len(c) : CleanFrom(TRUE, c, e) = SubSeq(c, 1, n)
    BY <1>2
  <2>2. e \in Seq(STRING) /\ x \in STRING /\ x = ".."
    <3>1. X \subseteq STRING
      OBVIOUS
    <3> QED BY <3>1, SeqMonotonic
  <2>4. PICK b : b = SubSeq(c, 1, n)
    OBVIOUS
  <2>3. CleanFrom(TRUE, c, Append(e, x)) = CleanStep(TRUE, b, x)
    <3>1. CleanFrom(TRUE, c, Append(e, x)) = CleanStep(TRUE, CleanFrom(TRUE, c, e), x)
      BY <2>2, CleanAppend
    <3> QED BY <2>1, <2>4, <3>1
  <2>5. b \in Seq(Ordinary) /\ Len(b) = n /\ \A i \in 1 .. n : b[i] = c[i]
    BY <2>4
  <2>6. \E k \in 0 .. Len(c) : CleanStep(TRUE, b, x) = SubSeq(c, 1, k)
    <3>1. CASE n = 0
      <4>1. b = <<>>
        BY <2>5, <3>1
      <4>2. CleanStep(TRUE, b, x) = b
        BY <2>2, <4>1, StepTo
      <4> QED BY <2>4, <4>2
    <3>2. CASE n # 0
      <4>1. b # <<>>
        BY <2>5, <3>2
      <4>2. b[Len(b)] # ".."
        BY <2>5, <4>1, Shorter, Names
      <4>3. CleanStep(TRUE, b, x) = Front(b)
        BY <2>2, <4>1, <4>2, StepTo
      <4>4. PICK f : f = Front(b)
        OBVIOUS
      <4>5. f \in Seq(Ordinary) /\ Len(f) = n - 1 /\ \A i \in 1 .. n - 1 : f[i] = b[i]
        BY <2>5, <4>1, <4>4, Shorter
      <4>6. n - 1 \in 0 .. Len(c) /\ n - 1 <= Len(c)
        BY <3>2
      <4>7. PICK g : g = SubSeq(c, 1, n - 1)
        OBVIOUS
      <4>8. g \in Seq(Ordinary) /\ Len(g) = n - 1 /\ \A i \in 1 .. n - 1 : g[i] = c[i]
        BY <4>6, <4>7
      <4>9. f = g
        <5>1. \A i \in 1 .. n - 1 : f[i] = g[i]
          <6>1. \A i \in 1 .. n - 1 : i \in 1 .. n
            OBVIOUS
          <6> QED BY <2>5, <4>5, <4>8, <6>1
        <5> QED BY <4>5, <4>8, <5>1, SeqEqual
      <4> QED BY <4>3, <4>4, <4>6, <4>7, <4>9
    <3> QED BY <3>1, <3>2
  <2>7. Append(e, x) \in Seq(X)
    BY Longer
  <2> QED BY <2>3, <2>4, <2>6, <2>7
<1> HIDE DEF S
<1>3. Seq(X) \subseteq S
  BY <1>1, <1>2, Paths
<1> QED
  BY <1>3 DEF S

(* A path is walked as it is cleaned. *)
IsWalk(f, d, s) ==
  f = [n \in 0 .. Len(s) |->
         IF n = 0 THEN d
         ELSE CASE s[n] = "."  -> f[n - 1]
                [] s[n] = ".." -> SubSeq(f[n - 1], 1, Len(f[n - 1]) - 1)
                [] OTHER -> Append(f[n - 1], s[n])]

LEMMA SomeWalk ==
  ASSUME NEW d, NEW s, NEW h, IsWalk(h, d, s)
  PROVE  \E f : IsWalk(f, d, s) /\ Walk(d, s) = f[Len(s)]
BY Zenon DEF Walk, IsWalk

LEMMA OneWalk ==
  ASSUME NEW d, NEW s \in Seq(STRING), NEW f, NEW h, IsWalk(f, d, s), IsWalk(h, d, s)
  PROVE  f[Len(s)] = h[Len(s)]
<1>1. PICK n \in Nat : n = Len(s)
  OBVIOUS
<1> DEFINE S == {i \in Nat : i <= n => f[i] = h[i]}
<1>2. f[0] = d /\ h[0] = d
  BY <1>1 DEF IsWalk
<1>3. ASSUME NEW i \in 1 .. n, f[i - 1] = h[i - 1]
      PROVE  f[i] = h[i]
  <2>1. i \in 0 .. Len(s) /\ i # 0
    BY <1>1
  <2>2. f[i] = CASE s[i] = "."  -> f[i - 1]
                 [] s[i] = ".." -> SubSeq(f[i - 1], 1, Len(f[i - 1]) - 1)
                 [] OTHER -> Append(f[i - 1], s[i])
    BY <2>1 DEF IsWalk
  <2>3. h[i] = CASE s[i] = "."  -> h[i - 1]
                 [] s[i] = ".." -> SubSeq(h[i - 1], 1, Len(h[i - 1]) - 1)
                 [] OTHER -> Append(h[i - 1], s[i])
    BY <2>1 DEF IsWalk
  <2> QED BY <1>3, <2>2, <2>3
<1>4. ASSUME NEW i \in Nat, i \in S
      PROVE  i + 1 \in S
  <2> SUFFICES ASSUME i + 1 <= n
               PROVE  f[i + 1] = h[i + 1]
    OBVIOUS
  <2>1. i + 1 \in 1 .. n /\ (i + 1) - 1 = i /\ f[i] = h[i]
    BY <1>4
  <2> QED BY <1>3, <2>1
<1>5. 0 \in S
  BY <1>2
<1> HIDE DEF S
<1>6. n \in S
  BY <1>4, <1>5, Numbers
<1> QED
  BY <1>1, <1>6 DEF S

LEMMA StepWalks ==
  ASSUME NEW d \in Seq(Ordinary), NEW x \in STRING
  PROVE  CleanStep(TRUE, d, x) = CASE x = "."  -> d
                                   [] x = ".." -> SubSeq(d, 1, Len(d) - 1)
                                   [] OTHER -> Append(d, x)
<1>1. CASE x = "."
  BY <1>1, StepTo
<1>2. CASE x = ".." /\ d # <<>>
  <2>1. d[Len(d)] # ".."
    BY <1>2, Shorter, Names
  <2> QED BY <1>2, <2>1, StepTo DEF Front
<1>3. CASE x = ".." /\ d = <<>>
  <2>1. CleanStep(TRUE, d, x) = d
    BY <1>3, StepTo
  <2>2. SubSeq(d, 1, Len(d) - 1) = d
    <3>1. Len(d) - 1 = 0 - 1
      BY <1>3
    <3>2. SubSeq(d, 1, 0 - 1) = <<>>
      BY SubSeqEmpty
    <3> QED BY <1>3, <3>1, <3>2
  <2> QED BY <1>3, <2>1, <2>2
<1>4. CASE x # "." /\ x # ".."
  BY <1>4, StepTo
<1> QED
  BY <1>1, <1>2, <1>3, <1>4

LEMMA WalkIsClean ==
  ASSUME NEW d \in Seq(Ordinary), NEW s \in Seq(STRING)
  PROVE  Walk(d, s) = CleanFrom(TRUE, d, s)
<1>1. PICK n \in Nat : n = Len(s)
  OBVIOUS
<1>2. PICK f : IsRun(f, TRUE, d, s) /\ CleanFrom(TRUE, d, s) = f[n]
  BY <1>1, RunExists, SomeRun
<1>3. /\ f = [i \in 0 .. n |-> IF i = 0 THEN d ELSE CleanStep(TRUE, f[i - 1], s[i])]
  BY <1>1, <1>2 DEF IsRun
<1>4. f[0] = d /\ \A i \in 1 .. n : f[i] = CleanStep(TRUE, f[i - 1], s[i])
  BY <1>3
<1> DEFINE S == {i \in Nat : i <= n => f[i] \in Seq(Ordinary)}
<1>5. 0 \in S
  BY <1>4
<1>6. ASSUME NEW i \in Nat, i \in S
      PROVE  i + 1 \in S
  <2> SUFFICES ASSUME i + 1 <= n
               PROVE  f[i + 1] \in Seq(Ordinary)
    OBVIOUS
  <2>1. i + 1 \in 1 .. n /\ (i + 1) - 1 = i /\ f[i] \in Seq(Ordinary) /\ s[i + 1] \in STRING
    BY <1>1, <1>6
  <2>2. f[i + 1] = CleanStep(TRUE, f[i], s[i + 1])
    BY <1>4, <2>1
  <2> QED BY <2>1, <2>2, StepOrdinary
<1> HIDE DEF S
<1>7. \A i \in 0 .. n : f[i] \in Seq(Ordinary)
  <2>1. Nat \subseteq S
    BY <1>5, <1>6, Numbers
  <2> QED BY <2>1 DEF S
<1>8. IsWalk(f, d, s)
  <2>1. ASSUME NEW i \in 1 .. n
        PROVE  f[i] = CASE s[i] = "."  -> f[i - 1]
                        [] s[i] = ".." -> SubSeq(f[i - 1], 1, Len(f[i - 1]) - 1)
                        [] OTHER -> Append(f[i - 1], s[i])
    <3>1. i - 1 \in 0 .. n /\ s[i] \in STRING
      BY <1>1
    <3>2. PICK b, x : b = f[i - 1] /\ x = s[i]
      OBVIOUS
    <3>3. b \in Seq(Ordinary) /\ x \in STRING
      BY <1>7, <3>1, <3>2
    <3>4. f[i] = CleanStep(TRUE, b, x)
      BY <1>4, <3>2
    <3>5. f[i] = CASE x = "."  -> b
                   [] x = ".." -> SubSeq(b, 1, Len(b) - 1)
                   [] OTHER -> Append(b, x)
      BY <3>3, <3>4, StepWalks
    <3> QED BY <3>2, <3>5
  <2>2. f = [i \in 0 .. n |-> f[i]]
    BY <1>3
  <2>3. \A i \in 0 .. n : f[i] = IF i = 0 THEN d
                                ELSE CASE s[i] = "."  -> f[i - 1]
                                       [] s[i] = ".." -> SubSeq(f[i - 1], 1, Len(f[i - 1]) - 1)
                                       [] OTHER -> Append(f[i - 1], s[i])
    <3> SUFFICES ASSUME NEW i \in 0 .. n, i # 0
                 PROVE  f[i] = CASE s[i] = "."  -> f[i - 1]
                                 [] s[i] = ".." -> SubSeq(f[i - 1], 1, Len(f[i - 1]) - 1)
                                 [] OTHER -> Append(f[i - 1], s[i])
      BY <1>4
    <3>1. i \in 1 .. n
      OBVIOUS
    <3> QED BY <2>1, <3>1
  <2> HIDE <2>1
  <2> QED BY <1>1, <2>2, <2>3 DEF IsWalk
<1>9. PICK h : IsWalk(h, d, s) /\ Walk(d, s) = h[Len(s)]
  BY <1>8, SomeWalk
<1> QED
  BY <1>1, <1>2, <1>8, <1>9, OneWalk

-----------------------------------------------------------------------------
(* Files *)

LEMMA WorkingDirectory == Cwd \in Seq(Ordinary)
<1>1. Cwd \in Seq(STRING) /\ ToSet(Cwd) \cap {".", ".."} = {}
  BY CompilationAssumption
<1>2. \A i \in 1 .. Len(Cwd) : Cwd[i] \in Ordinary
  BY <1>1 DEF ToSet, Ordinary
<1>3. Len(Cwd) \in Nat /\ Cwd = [i \in 1 .. Len(Cwd) |-> Cwd[i]]
  BY <1>1
<1> QED
  BY <1>2, <1>3

LEMMA Parts ==
  ASSUME NEW u \in Locations
  PROVE  u.host \in STRING \cup {NoHost} /\ u.abs \in BOOLEAN /\ u.segs \in Seq(STRING)
BY DEF Locations

LEMMA Empty == <<>> \in Seq(STRING) /\ <<>> \in Seq(Ordinary)
OBVIOUS

(* Where a path leads, from the working directory or from the root.        *)
LEMMA Opens ==
  ASSUME NEW u \in Locations
  PROVE  /\ u.abs  => FileOf(Cwd, u).path = CleanFrom(TRUE, <<>>, u.segs)
         /\ ~u.abs => FileOf(Cwd, u).path = CleanFrom(TRUE, Cwd, u.segs)
         /\ FileOf(Cwd, u).host = u.host
<1>1. u.segs \in Seq(STRING) /\ Cwd \in Seq(STRING) /\ Cwd \in Seq(Ordinary)
  BY Parts, WorkingDirectory, Names
<1>2. ASSUME u.abs
      PROVE  FileOf(Cwd, u).path = CleanFrom(TRUE, <<>>, u.segs)
  BY <1>2 DEF FileOf, Clean
<1>3. ASSUME ~u.abs
      PROVE  FileOf(Cwd, u).path = CleanFrom(TRUE, Cwd, u.segs)
  <2>1. FileOf(Cwd, u).path = CleanFrom(TRUE, <<>>, Cwd \o u.segs)
    BY <1>3 DEF FileOf, Clean
  <2>2. CleanFrom(TRUE, <<>>, Cwd \o u.segs) = CleanFrom(TRUE, CleanFrom(TRUE, <<>>, Cwd), u.segs)
    BY <1>1, RootConcat
  <2>3. CleanFrom(TRUE, <<>>, Cwd) = <<>> \o Cwd
    BY <1>1, Empty, CleanOrdinary
  <2>4. <<>> \o Cwd = Cwd
    BY <1>1, ConcatEmptySeq
  <2> QED BY <2>1, <2>2, <2>3, <2>4
<1>4. FileOf(Cwd, u).host = u.host
  BY DEF FileOf
<1> QED
  BY <1>2, <1>3, <1>4

(* A path that was cleaned leads where it led before.                      *)
LEMMA OpensCleaned ==
  ASSUME NEW a \in BOOLEAN, NEW s \in Seq(STRING)
  PROVE  /\ FSPath(a, Clean(a, s)) \in Locations
         /\ a  => FileOf(Cwd, FSPath(a, Clean(a, s))).path = CleanFrom(TRUE, <<>>, s)
         /\ ~a => FileOf(Cwd, FSPath(a, Clean(a, s))).path = CleanFrom(TRUE, Cwd, s)
<1>1. PICK u : u = FSPath(a, Clean(a, s))
  OBVIOUS
<1>2. u.host = NoHost /\ u.abs = a /\ u.segs = CleanFrom(a, <<>>, s)
  BY <1>1 DEF FSPath, Clean
<1>3. u \in Locations
  <2>1. CleanFrom(a, <<>>, s) \in Seq(STRING)
    BY Empty, CleanTyped
  <2> QED BY <1>1, <2>1 DEF FSPath, Clean, Locations
<1>4. ASSUME a
      PROVE  FileOf(Cwd, u).path = CleanFrom(TRUE, <<>>, s)
  <2>1. PICK p : p = CleanFrom(TRUE, <<>>, s)
    OBVIOUS
  <2>2. u.segs = p
    BY <1>2, <1>4, <2>1
  <2>3. p \in Seq(Ordinary)
    BY <2>1, Empty, CleanPlain
  <2>4. CleanFrom(TRUE, <<>>, p) = p
    BY <2>3, Empty, CleanOrdinary, ConcatEmptySeq
  <2> QED BY <1>2, <1>3, <1>4, <2>1, <2>2, <2>4, Opens
<1>5. ASSUME ~a
      PROVE  FileOf(Cwd, u).path = CleanFrom(TRUE, Cwd, s)
  <2>1. a = FALSE
    BY <1>5
  <2>2. u.segs = CleanFrom(FALSE, <<>>, s)
    BY <1>2, <2>1
  <2>3. FileOf(Cwd, u).path = CleanFrom(TRUE, Cwd, u.segs)
    BY <1>2, <1>3, <1>5, Opens
  <2> QED BY <2>2, <2>3, WorkingDirectory, CleanTwice
<1> QED
  BY <1>1, <1>3, <1>4, <1>5

(* joinBase without a root directory, of a document named by its file.     *)
LEMMA JoinOpens ==
  ASSUME NEW u \in Locations, NamesFile(u), NEW s \in Seq(STRING),
         NEW v, v = FSPath(u.abs, Clean(u.abs, Dir(u.abs, u.segs) \o s))
  PROVE  FileOf(Cwd, v).path = Walk(DirOf(FileOf(Cwd, u).path), s)
<1>1. PICK a : a = u.abs
  OBVIOUS
<1>2. PICK f, x : f = Front(u.segs) /\ x = u.segs[Len(u.segs)]
  OBVIOUS
<1>3. /\ a \in BOOLEAN /\ f \in Seq(STRING) /\ x \in Ordinary /\ x \in STRING
      /\ u.segs = Append(f, x) /\ u.segs # <<>>
  <2>1. u.segs \in Seq(STRING) /\ u.segs # <<>> /\ u.abs \in BOOLEAN
    BY Parts DEF NamesFile
  <2>2. f \in Seq(STRING) /\ x \in STRING /\ u.segs = Append(f, x)
    BY <1>2, <2>1, Shorter
  <2>3. x # "." /\ x # ".."
    BY <1>2 DEF NamesFile
  <2> QED BY <1>1, <2>1, <2>2, <2>3, Names
<1>4. PICK e : e = CleanFrom(a, <<>>, f)
  OBVIOUS
<1>5. e \in Seq(STRING)
  BY <1>3, <1>4, Empty, CleanTyped
<1>6. v = FSPath(a, Clean(a, e \o s))
  BY <1>1, <1>2, <1>3, <1>4 DEF Dir, Clean
<1>7. PICK c : c = IF a THEN <<>> ELSE Cwd
  OBVIOUS
<1>8. c \in Seq(Ordinary) /\ c \in Seq(STRING)
  BY <1>7, Empty, WorkingDirectory, Names
<1>9. PICK d : d = CleanFrom(TRUE, c, f)
  OBVIOUS
<1>10. d \in Seq(Ordinary)
  BY <1>3, <1>8, <1>9, CleanPlain
<1>11. FileOf(Cwd, u).path = Append(d, x)
  <2>1. FileOf(Cwd, u).path = CleanFrom(TRUE, c, u.segs)
    BY <1>1, <1>7, Opens
  <2>2. CleanFrom(TRUE, c, u.segs) = CleanStep(TRUE, d, x)
    BY <1>3, <1>9, RootAppend
  <2>3. CleanStep(TRUE, d, x) = Append(d, x)
    BY <1>3, StepTo, Names
  <2> QED BY <2>1, <2>2, <2>3
<1>12. DirOf(FileOf(Cwd, u).path) = d
  BY <1>3, <1>10, <1>11, FrontOfAppend DEF DirOf, Front
<1>13. CleanFrom(TRUE, c, e) = d
  <2>1. CASE a
    <3>1. c = <<>> /\ e = d
      BY <1>3, <1>4, <1>7, <1>9, <2>1
    <3> QED BY <1>10, <3>1, Empty, CleanOrdinary, ConcatEmptySeq
  <2>2. CASE ~a
    <3>1. a = FALSE
      BY <1>3, <2>2
    <3>2. e = CleanFrom(FALSE, <<>>, f)
      BY <1>4, <3>1
    <3> QED BY <1>3, <1>8, <1>9, <3>2, CleanTwice
  <2> QED BY <2>1, <2>2
<1>14. FileOf(Cwd, v).path = CleanFrom(TRUE, c, e \o s)
  <2>1. e \o s \in Seq(STRING)
    BY <1>5
  <2> QED BY <1>3, <1>6, <1>7, <2>1, OpensCleaned
<1>15. CleanFrom(TRUE, c, e \o s) = CleanFrom(TRUE, d, s)
  <2>1. CleanFrom(TRUE, c, e \o s) = CleanFrom(TRUE, CleanFrom(TRUE, c, e), s)
    BY <1>5, RootConcat
  <2> QED BY <1>13, <2>1
<1> QED
  BY <1>10, <1>12, <1>14, <1>15, WalkIsClean

(* joinBase with one: what is put under it was cleaned as from the root.   *)
LEMMA JoinStays ==
  ASSUME NEW t \in Locations, ~IsRemote(t), NEW s \in Seq(STRING),
         NEW v, v = FSPath(t.abs, Clean(t.abs, t.segs \o Clean(TRUE, s)))
  PROVE  IsPrefix(FileOf(Cwd, t).path, FileOf(Cwd, v).path)
<1>1. PICK a : a = t.abs
  OBVIOUS
<1>2. PICK p : p = Clean(TRUE, s)
  OBVIOUS
<1>3. p \in Seq(Ordinary) /\ p \in Seq(STRING) /\ a \in BOOLEAN /\ t.segs \in Seq(STRING)
  BY <1>1, <1>2, Empty, CleanPlain, Names, Parts DEF Clean
<1>4. PICK c : c = IF a THEN <<>> ELSE Cwd
  OBVIOUS
<1>5. c \in Seq(Ordinary)
  BY <1>4, Empty, WorkingDirectory
<1>6. PICK d : d = CleanFrom(TRUE, c, t.segs)
  OBVIOUS
<1>7. FileOf(Cwd, t).path = d
  BY <1>1, <1>4, <1>6, Opens
<1>8. d \in Seq(Ordinary) /\ d \in Seq(STRING)
  BY <1>3, <1>5, <1>6, CleanPlain, Names
<1>9. FileOf(Cwd, v).path = CleanFrom(TRUE, c, t.segs \o p)
  <2>1. v = FSPath(a, Clean(a, t.segs \o p)) /\ t.segs \o p \in Seq(STRING)
    <3>1. v = FSPath(a, Clean(a, t.segs \o p))
      BY <1>1, <1>2
    <3>2. t.segs \o p \in Seq(STRING)
      BY <1>3, ConcatProperties
    <3> QED BY <3>1, <3>2
  <2>2. PICK w : w = t.segs \o p
    OBVIOUS
  <2>3. v = FSPath(a, Clean(a, w)) /\ w \in Seq(STRING)
    BY <2>1, <2>2
  <2>4. FileOf(Cwd, v).path = CleanFrom(TRUE, c, w)
    BY <1>3, <1>4, <2>3, OpensCleaned
  <2> QED BY <2>2, <2>4
<1>10. FileOf(Cwd, v).path = d \o p
  <2>1. CleanFrom(TRUE, c, t.segs \o p) = CleanFrom(TRUE, d, p)
    <3>1. CleanFrom(TRUE, c, t.segs \o p) = CleanFrom(TRUE, CleanFrom(TRUE, c, t.segs), p)
      BY <1>3, RootConcat
    <3> QED BY <1>6, <3>1
  <2>2. CleanFrom(TRUE, d, p) = d \o p
    BY <1>3, <1>8, CleanOrdinary
  <2> QED BY <1>9, <2>1, <2>2
<1>11. IsPrefix(d, d \o p)
  <2>1. PICK q : q = d \o p
    OBVIOUS
  <2>2. /\ q \in Seq(Ordinary) /\ Len(q) = Len(d) + Len(p) /\ Len(d) \in Nat /\ Len(p) \in Nat
        /\ \A i \in 1 .. Len(d) : q[i] = d[i]
    BY <1>3, <1>8, <2>1
  <2>3. SubSeq(d, 1, Len(d)) = SubSeq(q, 1, Len(d))
    BY <1>8, <2>2
  <2> QED BY <2>1, <2>2, <2>3 DEF IsPrefix
<1> QED
  BY <1>7, <1>10, <1>11

LEMMA PathTyped ==
  ASSUME NEW a \in BOOLEAN, NEW s \in Seq(STRING)
  PROVE  FSPath(a, Clean(a, s)) \in Locations
BY OpensCleaned

LEMMA DirTyped ==
  ASSUME NEW a \in BOOLEAN, NEW s \in Seq(STRING)
  PROVE  Dir(a, s) \in Seq(STRING)
<1>1. CASE s = <<>>
  <2>1. Dir(a, s) = CleanFrom(a, <<>>, s)
    BY <1>1 DEF Dir, Clean
  <2> QED BY <2>1, Empty, CleanTyped
<1>2. CASE s # <<>>
  <2>1. Dir(a, s) = CleanFrom(a, <<>>, Front(s))
    BY <1>2 DEF Dir, Clean
  <2>2. Front(s) \in Seq(STRING)
    BY <1>2, Shorter
  <2> QED BY <2>1, <2>2, Empty, CleanTyped
<1> QED
  BY <1>1, <1>2

LEMMA Joining ==
  ASSUME NEW s \in Seq(STRING), NEW t \in Seq(STRING)
  PROVE  s \o t \in Seq(STRING)
BY ConcatProperties

(* A URL stays one; so does what a document on a server refers to.         *)
LEMMA RemoteTyped ==
  ASSUME NEW h \in STRING, NEW s \in Seq(STRING)
  PROVE  URI(h, Clean(TRUE, s)) \in Locations
<1>1. CleanFrom(TRUE, <<>>, s) \in Seq(STRING)
  BY Empty, CleanTyped
<1> QED
  BY <1>1 DEF URI, Clean, Locations

LEMMA ResolveTyped ==
  ASSUME NEW t \in Locations, NEW u \in Locations, NEW r \in Locations
  PROVE  ResolveURL(t, u, r) \in Locations
<1>1. /\ t.abs \in BOOLEAN /\ u.abs \in BOOLEAN
      /\ t.segs \in Seq(STRING) /\ u.segs \in Seq(STRING) /\ r.segs \in Seq(STRING)
  BY Parts
<1>2. CASE IsRemote(u) /\ IsRemote(r)
  <2>1. r.host \in STRING
    BY <1>2, Parts DEF IsRemote
  <2>2. ResolveURL(t, u, r) = URI(r.host, Clean(TRUE, r.segs))
    BY <1>2 DEF ResolveURL
  <2> QED BY <1>1, <2>1, <2>2, RemoteTyped
<1>3. CASE IsRemote(u) /\ ~IsRemote(r)
  <2>1. u.host \in STRING
    BY <1>3, Parts DEF IsRemote
  <2>2. PICK s : s = IF r.abs \/ u.segs = <<>> THEN r.segs ELSE Front(u.segs) \o r.segs
    OBVIOUS
  <2>3. s \in Seq(STRING)
    <3>1. ASSUME u.segs # <<>>
          PROVE  Front(u.segs) \o r.segs \in Seq(STRING)
      BY <1>1, <3>1, Shorter, Joining
    <3> QED BY <1>1, <2>2, <3>1
  <2>4. ResolveURL(t, u, r) = URI(u.host, Clean(TRUE, s))
    BY <1>3, <2>2 DEF ResolveURL, ResolveReference
  <2> QED BY <2>1, <2>3, <2>4, RemoteTyped
<1>4. CASE ~IsRemote(u) /\ (IsRemote(r) \/ r.abs)
  BY <1>4 DEF ResolveURL
<1>5. CASE ~IsRemote(u) /\ ~IsRemote(r) /\ ~r.abs
  <2>1. ResolveURL(t, u, r) = JoinPaths(t, u, r)
    BY <1>5 DEF ResolveURL
  <2>2. CASE t = NoRoot
    <3>1. PICK s : s = Dir(u.abs, u.segs) \o r.segs
      OBVIOUS
    <3>2. s \in Seq(STRING)
      BY <1>1, <3>1, DirTyped, Joining
    <3>3. JoinPaths(t, u, r) = FSPath(u.abs, Clean(u.abs, s))
      BY <2>2, <3>1 DEF JoinPaths
    <3> QED BY <1>1, <2>1, <3>2, <3>3, PathTyped
  <2>3. CASE t # NoRoot
    <3>1. PICK s : s = t.segs \o Clean(TRUE, r.segs)
      OBVIOUS
    <3>2. s \in Seq(STRING)
      <4>1. Clean(TRUE, r.segs) \in Seq(STRING)
        BY <1>1, Empty, CleanTyped DEF Clean
      <4> QED BY <1>1, <3>1, <4>1, Joining
    <3>3. JoinPaths(t, u, r) = FSPath(t.abs, Clean(t.abs, s))
      BY <2>3, <3>1 DEF JoinPaths, UnderRoot
    <3> QED BY <1>1, <2>1, <3>2, <3>3, PathTyped
  <2> QED BY <2>2, <2>3
<1> QED
  BY <1>2, <1>3, <1>4, <1>5

(* A cleaned path without a name leads to the working directory, one it    *)
(* lies in, or the root.                                                   *)
LEMMA NamelessIsDirectory ==
  ASSUME NEW a \in BOOLEAN, NEW s \in Seq(STRING),
         NEW v, v = FSPath(a, Clean(a, s)), ~NamesFile(v)
  PROVE  IsPrefix(FileOf(Cwd, v).path, Cwd)
<1>1. PICK e : e = CleanFrom(a, <<>>, s)
  OBVIOUS
<1>2. v \in Locations /\ v.abs = a /\ v.segs = e /\ e \in Seq(STRING)
  BY <1>1, Empty, CleanTyped, PathTyped DEF FSPath, Clean
<1>3. e # <<>> => e[Len(e)] = "." \/ e[Len(e)] = ".."
  BY <1>2 DEF NamesFile
<1>4. Cwd \in Seq(Ordinary) /\ Len(Cwd) \in Nat
  BY WorkingDirectory
<1>5. ASSUME NEW n \in 0 .. Len(Cwd), FileOf(Cwd, v).path = SubSeq(Cwd, 1, n)
      PROVE  IsPrefix(FileOf(Cwd, v).path, Cwd)
  <2>1. PICK p : p = SubSeq(Cwd, 1, n)
    OBVIOUS
  <2>2. p \in Seq(Ordinary) /\ Len(p) = n /\ \A i \in 1 .. n : p[i] = Cwd[i]
    BY <1>4, <2>1
  <2>3. SubSeq(p, 1, Len(p)) = SubSeq(Cwd, 1, Len(p)) /\ Len(p) <= Len(Cwd)
    BY <1>4, <2>1, <2>2, SubSeqFull
  <2> QED BY <1>5, <2>1, <2>3 DEF IsPrefix
<1>6. CASE a
  <2>1. PICK b : b = CleanFrom(TRUE, <<>>, s)
    OBVIOUS
  <2>2. e = b /\ b \in Seq(Ordinary)
    BY <1>1, <1>6, <2>1, Empty, CleanPlain
  <2>3. e = <<>>
    <3>1. ASSUME e # <<>>
          PROVE  FALSE
      <4>1. e[Len(e)] \in Ordinary
        BY <2>2, <3>1, Shorter
      <4> QED BY <1>3, <3>1, <4>1, Names
    <3> QED BY <3>1
  <2>4. FileOf(Cwd, v).path = <<>>
    <3>1. FileOf(Cwd, v).path = CleanFrom(TRUE, <<>>, v.segs)
      BY <1>2, <1>6, Opens
    <3>2. CleanFrom(TRUE, <<>>, <<>>) = <<>>
      BY CleanEmpty
    <3> QED BY <1>2, <2>3, <3>1, <3>2
  <2>5. SubSeq(Cwd, 1, 0) = <<>> /\ 0 \in 0 .. Len(Cwd)
    BY <1>4, SubSeqEmpty
  <2> QED BY <1>5, <2>4, <2>5
<1>7. CASE ~a
  <2>1. e = CleanFrom(FALSE, <<>>, s)
    <3>1. a = FALSE
      BY <1>7
    <3> QED BY <1>1, <3>1
  <2>2. e \in Relatives
    BY <2>1, CleanRelative
  <2>3. ASSUME NEW i \in 1 .. Len(e)
        PROVE  e[i] = ".."
    <3>1. e # <<>> /\ Len(e) \in 1 .. Len(e)
      BY <1>2, <2>3
    <3>2. e[Len(e)] = ".."
      BY <1>3, <2>2, <3>1 DEF Relatives
    <3> QED BY <2>2, <3>1, <3>2 DEF Relatives
  <2>4. e \in Seq({".."} \cap STRING)
    <3>1. Len(e) \in Nat /\ e = [i \in 1 .. Len(e) |-> e[i]] /\ \A i \in 1 .. Len(e) : e[i] \in STRING
      BY <1>2
    <3>2. \A i \in 1 .. Len(e) : e[i] \in {".."} \cap STRING
      BY <2>3, <3>1
    <3> QED BY <3>1, <3>2
  <2>5. PICK n \in 0 .. Len(Cwd) : CleanFrom(TRUE, Cwd, e) = SubSeq(Cwd, 1, n)
    BY <1>4, <2>4, ClimbEnds
  <2>6. FileOf(Cwd, v).path = CleanFrom(TRUE, Cwd, e)
    BY <1>2, <1>7, Opens
  <2> QED BY <1>5, <2>5, <2>6
<1> QED
  BY <1>6, <1>7

-----------------------------------------------------------------------------
(* The inductive invariant *)

(* S is any set of locations, not only one of those met so far. *)
Reaches(S) == world.root \in S /\ ClosedUnderRefs(S)

QueueInv ==
  /\ world \in Worlds
  /\ queue \in Seq(ToSet(queue))
  /\ fetched \in Seq(docs)
  /\ status \in {"running", "compiled", "forbidden", "unreadable"}

(* What was taken up was loaded, and its $refs are at least in the queue;  *)
(* the location that ends the stage is among the documents.                *)
ClosedInv ==
  /\ world.root \in Met
  /\ status \in {"running", "compiled"} =>
       /\ ToSet(fetched) = docs
       /\ \A u \in docs : ~Bad(u) /\ ToSet(JoinedRefs(u)) \subseteq Met
  /\ status = "compiled" => queue = <<>>
  /\ status \in {"forbidden", "unreadable"} => \E u \in docs : Bad(u)

MetInv == \A S : Reaches(S) => Met \subseteq S

LoadInv ==
  /\ LoadedOnce
  /\ \A i \in DOMAIN fetched : Allowed(fetched[i])

Inv == QueueInv /\ ClosedInv /\ MetInv /\ LoadInv

-----------------------------------------------------------------------------
(* Sequences *)

LEMMA QueueParts ==
  ASSUME NEW s, s \in Seq(ToSet(s)), s # <<>>
  PROVE  /\ Head(s) \in ToSet(s)
         /\ Tail(s) \in Seq(ToSet(Tail(s)))
         /\ ToSet(s) = {Head(s)} \cup ToSet(Tail(s))
<1> DEFINE S == ToSet(s)
<1>1. s \in Seq(S)
  OBVIOUS
<1>2. S = {s[k] : k \in DOMAIN s}
  BY DEF ToSet
<1> HIDE DEF S
<1>3. /\ Len(s) \in Nat /\ Len(s) > 0 /\ DOMAIN s = 1 .. Len(s)
      /\ Head(s) = s[1] /\ Head(s) \in S
      /\ Tail(s) \in Seq(S) /\ Len(Tail(s)) = Len(s) - 1 /\ DOMAIN Tail(s) = 1 .. Len(s) - 1
      /\ \A k \in 1 .. Len(s) - 1 : Tail(s)[k] = s[k + 1]
  BY <1>1
<1>4. PICK t : t = Tail(s)
  OBVIOUS
<1>5. ToSet(t) = {t[k] : k \in 1 .. Len(s) - 1}
  BY <1>3, <1>4 DEF ToSet
<1>6. S = {s[1]} \cup ToSet(t)
  <2>1. ASSUME NEW k \in 1 .. Len(s) - 1
        PROVE  t[k] \in S
    BY <1>2, <1>3, <1>4
  <2>2. ASSUME NEW k \in 1 .. Len(s), k # 1
        PROVE  s[k] \in ToSet(t)
    <3>1. k - 1 \in 1 .. Len(s) - 1 /\ t[k - 1] = s[k]
      BY <1>3, <1>4, <2>2
    <3> QED BY <1>5, <3>1
  <2>3. ToSet(t) \subseteq S /\ s[1] \in S
    BY <1>2, <1>3, <1>5, <2>1
  <2>4. ASSUME NEW k \in 1 .. Len(s)
        PROVE  s[k] \in {s[1]} \cup ToSet(t)
    BY <2>2
  <2>5. S \subseteq {s[1]} \cup ToSet(t)
    BY <1>2, <1>3, <2>4
  <2> QED BY <2>3, <2>5
<1>7. t \in Seq(ToSet(t))
  <2>1. /\ t \in Seq(S) /\ Len(t) \in Nat /\ DOMAIN t = 1 .. Len(t)
    BY <1>3, <1>4
  <2>2. \A k \in 1 .. Len(t) : t[k] \in ToSet(t)
    BY <2>1 DEF ToSet
  <2>3. t = [k \in 1 .. Len(t) |-> t[k]]
    BY <2>1
  <2> QED BY <2>1, <2>2, <2>3
<1> QED
  BY <1>3, <1>4, <1>6, <1>7 DEF S

LEMMA Concatenated ==
  ASSUME NEW s, s \in Seq(ToSet(s)), NEW t, t \in Seq(ToSet(t))
  PROVE  s \o t \in Seq(ToSet(s \o t)) /\ ToSet(s \o t) = ToSet(s) \cup ToSet(t)
<1> DEFINE S == ToSet(s) \cup ToSet(t)
<1>1. ToSet(s) \subseteq S /\ ToSet(t) \subseteq S
  OBVIOUS
<1> HIDE DEF S
<1>2. s \in Seq(S) /\ t \in Seq(S)
  BY <1>1, SeqMonotonic
<1>3. PICK u : u = s \o t
  OBVIOUS
<1>4. /\ u \in Seq(S) /\ Len(s) \in Nat /\ Len(t) \in Nat /\ Len(u) = Len(s) + Len(t)
      /\ DOMAIN s = 1 .. Len(s) /\ DOMAIN t = 1 .. Len(t) /\ DOMAIN u = 1 .. Len(s) + Len(t)
      /\ \A k \in 1 .. Len(s) : u[k] = s[k]
      /\ \A k \in 1 .. Len(t) : u[Len(s) + k] = t[k]
  BY <1>2, <1>3
<1>5. ToSet(u) = ToSet(s) \cup ToSet(t)
  <2>1. ToSet(u) = {u[k] : k \in 1 .. Len(s) + Len(t)}
    BY <1>4 DEF ToSet
  <2>2. ToSet(s) = {s[k] : k \in 1 .. Len(s)} /\ ToSet(t) = {t[k] : k \in 1 .. Len(t)}
    BY <1>4 DEF ToSet
  <2>3. ASSUME NEW k \in 1 .. Len(s) + Len(t)
        PROVE  u[k] \in ToSet(s) \cup ToSet(t)
    <3>1. CASE k \in 1 .. Len(s)
      BY <1>4, <2>2, <3>1
    <3>2. CASE k \notin 1 .. Len(s)
      <4>1. k - Len(s) \in 1 .. Len(t) /\ u[Len(s) + (k - Len(s))] = t[k - Len(s)]
        BY <1>4, <3>2
      <4>2. Len(s) + (k - Len(s)) = k
        BY <1>4
      <4> QED BY <2>2, <4>1, <4>2
    <3> QED BY <3>1, <3>2
  <2>4. ASSUME NEW k \in 1 .. Len(s)
        PROVE  s[k] \in ToSet(u)
    BY <1>4, <2>1
  <2>5. ASSUME NEW k \in 1 .. Len(t)
        PROVE  t[k] \in ToSet(u)
    <3>1. Len(s) + k \in 1 .. Len(s) + Len(t)
      BY <1>4
    <3> QED BY <1>4, <2>1, <3>1
  <2> QED BY <2>1, <2>2, <2>3, <2>4, <2>5
<1>6. u \in Seq(ToSet(u))
  BY <1>4, <1>5 DEF S
<1> QED
  BY <1>3, <1>5, <1>6

LEMMA Appended ==
  ASSUME NEW S, NEW s \in Seq(S), NEW u, NEW t, t = Append(s, u)
  PROVE  /\ t \in Seq(S \cup {u})
         /\ DOMAIN s = 1 .. Len(s) /\ Len(s) \in Nat
         /\ DOMAIN t = 1 .. Len(s) + 1
         /\ \A k \in 1 .. Len(s) : t[k] = s[k] /\ s[k] \in S
         /\ t[Len(s) + 1] = u
<1>1. PICK T : T = S \cup {u}
  OBVIOUS
<1>2. S \subseteq T /\ u \in T
  BY <1>1
<1>3. s \in Seq(T)
  BY <1>2, SeqMonotonic
<1>4. /\ t \in Seq(T)
      /\ DOMAIN s = 1 .. Len(s) /\ Len(s) \in Nat
      /\ DOMAIN t = 1 .. Len(s) + 1
      /\ \A k \in 1 .. Len(s) : t[k] = s[k]
      /\ t[Len(s) + 1] = u
  BY <1>2, <1>3
<1>5. \A k \in 1 .. Len(s) : s[k] \in S
  OBVIOUS
<1> QED
  BY <1>1, <1>4, <1>5

LEMMA EmptyQueue == ToSet(<<>>) = {}
BY DEF ToSet

-----------------------------------------------------------------------------
(* Steps *)

LEMMA RefsAreText ==
  ASSUME world \in Worlds, NEW u, Readable(u)
  PROVE  JoinedRefs(u) \in Seq(ToSet(JoinedRefs(u)))
<1>1. PICK n \in Nat : n = Len(RefsOf(u))
  BY CompilationAssumption DEF Readable, RefsOf
<1>2. PICK t : t = JoinedRefs(u)
  OBVIOUS
<1>3. t = [i \in 1 .. n |-> ResolveURL(world.rootDir, u, RefsOf(u)[i])]
  BY <1>1, <1>2 DEF JoinedRefs
<1>4. DOMAIN t = 1 .. n /\ t = [i \in 1 .. n |-> t[i]]
  BY <1>3
<1>5. \A i \in 1 .. n : t[i] \in ToSet(t)
  BY <1>4 DEF ToSet
<1> QED
  BY <1>2, <1>4, <1>5

(* What is said of a location depends on the world only. *)
LEMMA SameWorld ==
  ASSUME UNCHANGED world
  PROVE  /\ \A u : Readable(u)' = Readable(u) /\ Allowed(u)' = Allowed(u) /\ Bad(u)' = Bad(u)
         /\ \A u : JoinedRefs(u)' = JoinedRefs(u)
         /\ \A S : Reaches(S)' = Reaches(S)
<1>1. \A u : Readable(u)' = Readable(u) /\ JoinedRefs(u)' = JoinedRefs(u)
  BY DEF Readable, File, JoinedRefs, RefsOf
<1>2. \A u : Allowed(u)' = Allowed(u)
  BY DEF Allowed
<1>3. \A u : Bad(u)' = Bad(u)
  BY <1>1, <1>2 DEF Bad
<1>4. \A S : Reaches(S)' = Reaches(S)
  BY <1>1, <1>2 DEF Reaches, ClosedUnderRefs
<1> QED
  BY <1>1, <1>2, <1>3, <1>4

LEMMA InitInv == Init => Inv
<1> SUFFICES ASSUME Init
             PROVE  Inv
  OBVIOUS
<1>1. ToSet(<<world.root>>) = {world.root} /\ ToSet(fetched) = {}
  BY EmptyQueue DEF Init, ToSet
<1>2. QueueInv
  BY <1>1 DEF Init, QueueInv
<1>3. Met = {world.root} /\ docs = {}
  BY <1>1 DEF Init, Met
<1>4. ClosedInv
  BY <1>1, <1>3 DEF Init, ClosedInv
<1>5. MetInv
  BY <1>3 DEF MetInv, Reaches
<1>6. LoadInv
  BY DEF Init, LoadInv, LoadedOnce
<1> QED
  BY <1>2, <1>4, <1>5, <1>6 DEF Inv

(* The location at the head is loaded for the first time. *)
LEMMA LoadStep ==
  ASSUME Inv, UNCHANGED world, status = "running", NEW u, u \notin docs, Allowed(u),
         docs' = docs \cup {u}, fetched' = Append(fetched, u)
  PROVE  fetched' \in Seq(docs') /\ ToSet(fetched') = docs' /\ LoadInv'
<1>1. fetched \in Seq(docs) /\ ToSet(fetched) = docs /\ LoadInv
  BY DEF Inv, QueueInv, ClosedInv
<1>2. /\ fetched' \in Seq(docs')
      /\ ToSet(fetched') = ToSet(fetched) \cup {u}
      /\ DOMAIN fetched = 1 .. Len(fetched) /\ Len(fetched) \in Nat
      /\ DOMAIN fetched' = 1 .. Len(fetched) + 1
      /\ \A k \in 1 .. Len(fetched) : fetched'[k] = fetched[k] /\ fetched[k] \in docs
      /\ fetched'[Len(fetched) + 1] = u
  <2>1. fetched \in Seq(docs)
    BY <1>1
  <2>2. PICK t : t = Append(fetched, u)
    OBVIOUS
  <2>3. /\ t \in Seq(docs \cup {u})
        /\ DOMAIN fetched = 1 .. Len(fetched) /\ Len(fetched) \in Nat
        /\ DOMAIN t = 1 .. Len(fetched) + 1
        /\ \A k \in 1 .. Len(fetched) : t[k] = fetched[k] /\ fetched[k] \in docs
        /\ t[Len(fetched) + 1] = u
    BY <2>1, <2>2, Appended
  <2>4. /\ ToSet(fetched) = {fetched[k] : k \in DOMAIN fetched}
        /\ ToSet(t) = {t[k] : k \in DOMAIN t}
    BY DEF ToSet
  <2>5. ToSet(t) = ToSet(fetched) \cup {u}
    BY <2>3, <2>4
  <2> QED BY <2>2, <2>3, <2>5
<1>3. LoadedOnce'
  BY <1>1, <1>2 DEF LoadInv, LoadedOnce
<1>4. \A i \in DOMAIN fetched' : world'.allowRemote \/ ~IsRemote(fetched'[i])
  BY <1>1, <1>2 DEF LoadInv, Allowed
<1> QED
  BY <1>1, <1>2, <1>3, <1>4 DEF LoadInv, Allowed

LEMMA NextInv ==
  ASSUME Inv, [Next]_vars
  PROVE  Inv'
<1>1. /\ queue # <<>> =>
           /\ Tail(queue) \in Seq(ToSet(Tail(queue)))
           /\ ToSet(queue) = {Head(queue)} \cup ToSet(Tail(queue))
      /\ world \in Worlds
      /\ ToSet(<<>>) = {}
  BY QueueParts, EmptyQueue DEF Inv, QueueInv
<1>2. CASE SkipCompiled
  <2>1. UNCHANGED <<world, docs, fetched, status>> /\ queue # <<>> /\ Head(queue) \in docs
        /\ queue' = Tail(queue) /\ status = "running"
    BY <1>2 DEF SkipCompiled, Popping
  <2>2. Met' = Met
    BY <1>1, <2>1 DEF Met
  <2>3. QueueInv'
    BY <1>1, <2>1 DEF Inv, QueueInv
  <2>4. ClosedInv'
    BY <2>1, <2>2, SameWorld DEF Inv, ClosedInv
  <2>5. MetInv'
    BY <2>1, <2>2, SameWorld DEF Inv, MetInv
  <2>6. LoadInv'
    BY <2>1 DEF Inv, LoadInv, LoadedOnce, Allowed
  <2> QED BY <2>3, <2>4, <2>5, <2>6 DEF Inv
<1>3. CASE Compile
  <2>1. PICK u : u = Head(queue)
    OBVIOUS
  <2>2. UNCHANGED <<world, status>> /\ status = "running" /\ queue # <<>>
        /\ u \notin docs /\ Allowed(u) /\ Readable(u)
        /\ docs' = docs \cup {u} /\ fetched' = Append(fetched, u)
        /\ queue' = Tail(queue) \o JoinedRefs(u)
    BY <1>3, <2>1 DEF Compile, Popping
  <2>3. fetched' \in Seq(docs') /\ ToSet(fetched') = docs' /\ LoadInv'
    BY <2>2, LoadStep
  <2>4. JoinedRefs(u) \in Seq(ToSet(JoinedRefs(u)))
    BY <1>1, <2>2, RefsAreText
  <2>5. queue' \in Seq(ToSet(queue'))
        /\ ToSet(queue') = ToSet(Tail(queue)) \cup ToSet(JoinedRefs(u))
    BY <1>1, <2>2, <2>4, Concatenated
  <2>6. Met' = Met \cup ToSet(JoinedRefs(u)) /\ u \in Met
    BY <1>1, <2>1, <2>2, <2>5 DEF Met
  <2>7. QueueInv'
    BY <1>1, <2>2, <2>3, <2>5 DEF Inv, QueueInv
  <2>8. ClosedInv'
    <3>1. ~Bad(u)
      BY <2>2 DEF Bad
    <3>2. \A v \in docs' : ~Bad(v) /\ ToSet(JoinedRefs(v)) \subseteq Met'
      BY <2>2, <2>6, <3>1 DEF Inv, ClosedInv
    <3>3. \A v \in docs' : ~Bad(v)' /\ ToSet(JoinedRefs(v)') \subseteq Met'
      BY <2>2, <3>2, SameWorld
    <3>4. world'.root \in Met'
      BY <2>2, <2>6 DEF Inv, ClosedInv
    <3> QED BY <2>2, <2>3, <3>3, <3>4 DEF ClosedInv
  <2>9. MetInv'
    <3>1. ASSUME NEW S, Reaches(S)
          PROVE  Met' \subseteq S
      BY <2>2, <2>6, <3>1 DEF Inv, MetInv, Reaches, ClosedUnderRefs
    <3> QED BY <2>2, <3>1, SameWorld DEF MetInv
  <2> QED BY <2>3, <2>7, <2>8, <2>9 DEF Inv
<1>4. CASE Forbidden
  <2>1. PICK u : u = Head(queue)
    OBVIOUS
  <2>2. UNCHANGED <<world, fetched>> /\ queue # <<>> /\ ~Allowed(u)
        /\ docs' = docs \cup {u} /\ queue' = Tail(queue) /\ status' = "forbidden"
    BY <1>4, <2>1 DEF Forbidden, Popping
  <2>3. Met' = Met
    BY <1>1, <2>1, <2>2 DEF Met
  <2>4. QueueInv'
    <3>1. fetched \in Seq(docs')
      BY <2>2, SeqMonotonic DEF Inv, QueueInv
    <3> QED BY <1>1, <2>2, <3>1 DEF QueueInv
  <2>5. ClosedInv'
    <3>1. Bad(u)' /\ u \in docs'
      BY <2>2, SameWorld DEF Bad
    <3>2. world'.root \in Met'
      BY <2>2, <2>3 DEF Inv, ClosedInv
    <3> QED BY <2>2, <3>1, <3>2 DEF ClosedInv
  <2>6. MetInv'
    BY <2>2, <2>3, SameWorld DEF Inv, MetInv
  <2>7. LoadInv'
    BY <2>2 DEF Inv, LoadInv, LoadedOnce, Allowed
  <2> QED BY <2>4, <2>5, <2>6, <2>7 DEF Inv
<1>5. CASE LoadFails
  <2>1. PICK u : u = Head(queue)
    OBVIOUS
  <2>2. UNCHANGED world /\ status = "running" /\ queue # <<>>
        /\ u \notin docs /\ Allowed(u) /\ ~Readable(u)
        /\ docs' = docs \cup {u} /\ fetched' = Append(fetched, u)
        /\ queue' = Tail(queue) /\ status' = "unreadable"
    BY <1>5, <2>1 DEF LoadFails, Popping
  <2>3. Met' = Met
    BY <1>1, <2>1, <2>2 DEF Met
  <2>4. fetched' \in Seq(docs') /\ LoadInv'
    BY <2>2, LoadStep
  <2>5. QueueInv'
    BY <1>1, <2>2, <2>4 DEF QueueInv
  <2>6. ClosedInv'
    <3>1. Bad(u)' /\ u \in docs'
      BY <2>2, SameWorld DEF Bad
    <3>2. world'.root \in Met'
      BY <2>2, <2>3 DEF Inv, ClosedInv
    <3> QED BY <2>2, <3>1, <3>2 DEF ClosedInv
  <2>7. MetInv'
    BY <2>2, <2>3, SameWorld DEF Inv, MetInv
  <2> QED BY <2>4, <2>5, <2>6, <2>7 DEF Inv
<1>6. ASSUME UNCHANGED <<world, queue, docs, fetched>>,
             \/ UNCHANGED status
             \/ status = "running" /\ queue = <<>> /\ status' = "compiled"
      PROVE  Inv'
  <2>1. Met' = Met
    BY <1>6 DEF Met
  <2>2. QueueInv'
    BY <1>6 DEF Inv, QueueInv
  <2>3. ClosedInv'
    BY <1>6, <2>1, SameWorld DEF Inv, ClosedInv
  <2>4. MetInv'
    BY <1>6, <2>1, SameWorld DEF Inv, MetInv
  <2>5. LoadInv'
    BY <1>6 DEF Inv, LoadInv, LoadedOnce, Allowed
  <2> QED BY <2>2, <2>3, <2>4, <2>5 DEF Inv
<1>7. CASE Finish
  BY <1>6, <1>7 DEF Finish
<1>8. CASE UNCHANGED vars
  BY <1>6, <1>8 DEF vars
<1> QED
  BY <1>2, <1>3, <1>4, <1>5, <1>7, <1>8 DEF Next

LEMMA Invariance == Init /\ [][Next]_vars => []Inv
BY InitInv, NextInv, PTL

-----------------------------------------------------------------------------
(* The locations that are met *)

LocationsInv ==
  /\ Met \subseteq Locations
  /\ world.rootDir = NoRoot => \A u \in Met : ~IsRemote(u) /\ Readable(u) => NamesFile(u)

LEMMA RefParts ==
  ASSUME world \in Worlds, NEW u, Readable(u), NEW i \in DOMAIN RefsOf(u)
  PROVE  /\ RefsOf(u)[i] \in Locations
         /\ JoinedRefs(u)[i] = ResolveURL(world.rootDir, u, RefsOf(u)[i])
         /\ RefsOf(u)[i].abs => RefsOf(u)[i] \in Given(world)
<1>1. PICK s : s = RefsOf(u)
  OBVIOUS
<1>2. s = world.files[File(u)] /\ File(u) \in DOMAIN world.files
  BY <1>1 DEF RefsOf, Readable
<1>3. s \in Seq(Locations)
  BY <1>2, CompilationAssumption
<1>4. i \in 1 .. Len(s) /\ s[i] \in Locations
  BY <1>1, <1>3
<1>5. JoinedRefs(u)[i] = ResolveURL(world.rootDir, u, s[i])
  BY <1>1, <1>4 DEF JoinedRefs
<1>6. s[i] \in ToSet(s)
  BY <1>1 DEF ToSet
<1>7. ASSUME s[i].abs
      PROVE  s[i] \in Given(world)
  <2>1. s[i] \in UNION {ToSet(world.files[f]) : f \in DOMAIN world.files}
    BY <1>2, <1>6
  <2> QED BY <1>7, <2>1 DEF Given
<1> QED
  BY <1>1, <1>4, <1>5, <1>7

LEMMA InJoined ==
  ASSUME world \in Worlds, NEW u, Readable(u), NEW v \in ToSet(JoinedRefs(u))
  PROVE  \E i \in DOMAIN RefsOf(u) : v = JoinedRefs(u)[i]
<1>1. PICK s : s = RefsOf(u)
  OBVIOUS
<1>2. s \in Seq(Locations)
  BY <1>1, CompilationAssumption DEF RefsOf, Readable
<1>3. DOMAIN s = 1 .. Len(s) /\ DOMAIN JoinedRefs(u) = 1 .. Len(s)
  BY <1>1, <1>2 DEF JoinedRefs
<1> QED
  BY <1>1, <1>3 DEF ToSet

LEMMA TargetNamed ==
  ASSUME world \in Worlds, world.rootDir = NoRoot,
         NEW u \in Locations, Readable(u), NEW i \in DOMAIN RefsOf(u),
         NEW v, v = JoinedRefs(u)[i], ~IsRemote(v), Readable(v)
  PROVE  NamesFile(v)
<1>1. PICK r : r = RefsOf(u)[i]
  OBVIOUS
<1>2. r \in Locations /\ v = ResolveURL(world.rootDir, u, r) /\ (r.abs => r \in Given(world))
  BY <1>1, RefParts
<1>3. NoDirectoryIsFile(world)
  BY CompilationAssumption
<1>4. ~IsRemote(u) \/ ~IsRemote(r)
  <2> SUFFICES ASSUME IsRemote(u), IsRemote(r)
               PROVE  FALSE
    OBVIOUS
  <2>1. v = URI(r.host, Clean(TRUE, r.segs))
    BY <1>2 DEF ResolveURL
  <2> QED BY <2>1 DEF URI, IsRemote
<1>5. ~IsRemote(u)
  <2> SUFFICES ASSUME IsRemote(u)
               PROVE  FALSE
    OBVIOUS
  <2>1. v.host = u.host
    BY <1>2, <1>4 DEF ResolveURL, ResolveReference, URI
  <2> QED BY <2>1 DEF IsRemote
<1>6. CASE IsRemote(r) \/ r.abs
  <2>1. v = r
    BY <1>2, <1>5, <1>6 DEF ResolveURL
  <2>2. v \in Given(world)
    BY <1>2, <1>6, <2>1
  <2> QED BY <1>3, <2>2 DEF NoDirectoryIsFile, Readable, File
<1>7. CASE ~IsRemote(r) /\ ~r.abs
  <2>1. v = JoinPaths(NoRoot, u, r)
    BY <1>2, <1>5, <1>7 DEF ResolveURL
  <2>2. PICK s : s = Dir(u.abs, u.segs) \o r.segs
    OBVIOUS
  <2>3. s \in Seq(STRING) /\ u.abs \in BOOLEAN
    BY <1>2, <2>2, DirTyped, Joining, Parts
  <2>4. v = FSPath(u.abs, Clean(u.abs, s))
    BY <2>1, <2>2 DEF JoinPaths
  <2>5. File(v).host = NoHost /\ File(v) \in DOMAIN world.files
    BY <2>4 DEF FSPath, File, FileOf, Readable
  <2>6. ~IsPrefix(File(v).path, Cwd)
    BY <1>3, <2>5 DEF NoDirectoryIsFile
  <2> QED BY <2>3, <2>4, <2>6, NamelessIsDirectory DEF File
<1> QED
  BY <1>6, <1>7

LEMMA InitLocations == Init => LocationsInv
<1> SUFFICES ASSUME Init
             PROVE  LocationsInv
  OBVIOUS
<1>1. Met = {world.root}
  BY DEF Init, Met, ToSet
<1>2. world \in Worlds
  BY DEF Init
<1>3. world.root \in Locations /\ NoDirectoryIsFile(world) /\ world.root \in Given(world)
  BY <1>2, CompilationAssumption DEF Given
<1> QED
  BY <1>1, <1>3 DEF LocationsInv, NoDirectoryIsFile, Readable, File

LEMMA NextLocations == Inv /\ LocationsInv /\ [Next]_vars => LocationsInv'
<1> SUFFICES ASSUME Inv, LocationsInv, [Next]_vars
             PROVE  LocationsInv'
  OBVIOUS
<1>1. world \in Worlds /\ world' = world
  BY DEF Inv, QueueInv, Next, SkipCompiled, Compile, Forbidden, LoadFails, Finish, vars
<1>2. ASSUME NEW v \in Met'
      PROVE  \/ v \in Met
             \/ \E u \in Met : Readable(u) /\ v \in ToSet(JoinedRefs(u))
  <2>1. queue # <<>> => /\ Head(queue) \in ToSet(queue)
                        /\ Tail(queue) \in Seq(ToSet(Tail(queue)))
                        /\ ToSet(queue) = {Head(queue)} \cup ToSet(Tail(queue))
    BY QueueParts DEF Inv, QueueInv
  <2>2. CASE Compile
    <3>1. PICK u : u = Head(queue)
      OBVIOUS
    <3>2. queue # <<>> /\ Readable(u) /\ docs' = docs \cup {u} /\ queue' = Tail(queue) \o JoinedRefs(u)
      BY <2>2, <3>1 DEF Compile, Popping
    <3>3. JoinedRefs(u) \in Seq(ToSet(JoinedRefs(u)))
      BY <1>1, <3>2, RefsAreText
    <3>4. ToSet(queue') = ToSet(Tail(queue)) \cup ToSet(JoinedRefs(u))
      BY <2>1, <3>2, <3>3, Concatenated
    <3> QED BY <1>2, <2>1, <3>1, <3>2, <3>4 DEF Met
  <2>3. CASE SkipCompiled
    BY <1>2, <2>1, <2>3 DEF SkipCompiled, Popping, Met
  <2>4. CASE Forbidden
    BY <1>2, <2>1, <2>4 DEF Forbidden, Popping, Met
  <2>5. CASE LoadFails
    BY <1>2, <2>1, <2>5 DEF LoadFails, Popping, Met
  <2>6. CASE UNCHANGED <<docs, queue>>
    BY <1>2, <2>6 DEF Met
  <2> QED BY <2>2, <2>3, <2>4, <2>5, <2>6 DEF Next, Finish, vars
<1>3. ASSUME NEW v \in Met'
      PROVE  v \in Locations
  <2>1. CASE v \in Met
    BY <2>1 DEF LocationsInv
  <2>2. CASE \E u \in Met : Readable(u) /\ v \in ToSet(JoinedRefs(u))
    <3>1. PICK u \in Met : Readable(u) /\ v \in ToSet(JoinedRefs(u))
      BY <2>2
    <3>2. PICK i \in DOMAIN RefsOf(u) : v = JoinedRefs(u)[i]
      BY <1>1, <3>1, InJoined
    <3>3. u \in Locations /\ world.rootDir \in Locations
      BY <1>1, CompilationAssumption DEF LocationsInv
    <3> QED BY <1>1, <3>1, <3>2, <3>3, RefParts, ResolveTyped
  <2> QED BY <1>2, <2>1, <2>2
<1>4. ASSUME world.rootDir = NoRoot, NEW v \in Met', ~IsRemote(v), Readable(v)
      PROVE  NamesFile(v)
  <2>1. CASE v \in Met
    BY <1>4, <2>1 DEF LocationsInv
  <2>2. CASE \E u \in Met : Readable(u) /\ v \in ToSet(JoinedRefs(u))
    <3>1. PICK u \in Met : Readable(u) /\ v \in ToSet(JoinedRefs(u))
      BY <2>2
    <3>2. PICK i \in DOMAIN RefsOf(u) : v = JoinedRefs(u)[i]
      BY <1>1, <3>1, InJoined
    <3>3. u \in Locations
      BY DEF LocationsInv
    <3> QED BY <1>1, <1>4, <3>1, <3>2, <3>3, TargetNamed
  <2> QED BY <1>2, <1>4, <2>1, <2>2
<1>5. \A v : Readable(v)' = Readable(v)
  BY <1>1 DEF Readable, File
<1> QED
  BY <1>1, <1>3, <1>4, <1>5 DEF LocationsInv

-----------------------------------------------------------------------------
(* Linking *)

(* Two graphs, and a map of the artifacts of the one onto those of the     *)
(* other that takes objects to objects, $refs to $refs and hops to hops.   *)
Arts(g) == ObjectsOf(g) \cup DOMAIN g.loc

FoldsOnto(f, g, h) ==
  /\ f \in [Arts(g) -> Arts(h)]
  /\ \A b \in Arts(h) : \E a \in Arts(g) : f[a] = b
  /\ \A a \in Arts(g) : /\ a \in ObjectsOf(g) <=> f[a] \in ObjectsOf(h)
                        /\ a \in DOMAIN g.loc <=> f[a] \in DOMAIN h.loc
  /\ \A r \in DOMAIN g.loc :
       Links(h)!Hop(h, f[r]) = {f[a] : a \in Links(g)!Hop(g, r)}

LEMMA LinkParts ==
  ASSUME NEW g
  PROVE  /\ Links(g)!Artifacts = Arts(g) /\ Links(g)!Promises = DOMAIN g.loc
         /\ \A p : Links(g)!Hop(g, p) \subseteq Arts(g)
         /\ \A X : Links(g)!Closed(g, X)
                     <=> \A r \in X \cap DOMAIN g.loc : Links(g)!Hop(g, r) \subseteq X
         /\ \A p, o : Links(g)!Leads(g, p, o)
                        <=> \A X \in SUBSET Arts(g) :
                              Links(g)!Hop(g, p) \subseteq X /\ Links(g)!Closed(g, X) => o \in X
         /\ \A p : Links(g)!Resolvable(g, p)
                     <=> \E o \in ObjectsOf(g) : Links(g)!Leads(g, p, o)
<1>1. Links(g)!Artifacts = Arts(g) /\ Links(g)!Promises = DOMAIN g.loc
  BY DEF Links!Artifacts, Links!Promises, Arts
<1>2. \A p : Links(g)!Hop(g, p) \subseteq Arts(g)
  BY <1>1 DEF Links!Hop, Links!Matches
<1>3. \A X : Links(g)!Closed(g, X)
               <=> \A r \in X \cap DOMAIN g.loc : Links(g)!Hop(g, r) \subseteq X
  BY DEF Links!Closed
<1>4. \A p, o : Links(g)!Leads(g, p, o)
                  <=> \A X \in SUBSET Arts(g) :
                        Links(g)!Hop(g, p) \subseteq X /\ Links(g)!Closed(g, X) => o \in X
  BY <1>1 DEF Links!Leads
<1>5. \A p : Links(g)!Resolvable(g, p)
               <=> \E o \in ObjectsOf(g) : Links(g)!Leads(g, p, o)
  BY DEF Links!Resolvable
<1> QED
  BY <1>1, <1>2, <1>3, <1>4, <1>5

LEMMA FoldedLeads ==
  ASSUME NEW g, NEW h, NEW f, FoldsOnto(f, g, h),
         NEW p \in DOMAIN g.loc, NEW o \in Arts(g), Links(g)!Leads(g, p, o)
  PROVE  Links(h)!Leads(h, f[p], f[o])
<1> SUFFICES ASSUME NEW Y \in SUBSET Arts(h), Links(h)!Hop(h, f[p]) \subseteq Y,
                    Links(h)!Closed(h, Y)
             PROVE  f[o] \in Y
  BY LinkParts
<1> DEFINE X == {a \in Arts(g) : f[a] \in Y}
<1>1. \A r \in DOMAIN g.loc : Links(g)!Hop(g, r) \subseteq Arts(g)
  BY LinkParts
<1>2. Links(g)!Hop(g, p) \subseteq X
  BY <1>1 DEF FoldsOnto
<1>3. Links(g)!Closed(g, X)
  <2> SUFFICES ASSUME NEW r \in X \cap DOMAIN g.loc
               PROVE  Links(g)!Hop(g, r) \subseteq X
    BY LinkParts
  <2>1. r \in Arts(g) /\ f[r] \in Y \cap DOMAIN h.loc
    BY DEF FoldsOnto
  <2>2. Links(h)!Hop(h, f[r]) \subseteq Y
    BY <2>1, LinkParts
  <2> QED BY <1>1, <2>2 DEF FoldsOnto
<1> HIDE DEF X
<1>4. X \in SUBSET Arts(g)
  BY DEF X
<1>5. o \in X
  BY <1>2, <1>3, <1>4, LinkParts
<1> QED
  BY <1>5 DEF X

LEMMA FoldedResolves ==
  ASSUME NEW g, NEW h, NEW f, FoldsOnto(f, g, h), NEW p \in DOMAIN g.loc
  PROVE  Links(g)!Resolvable(g, p) <=> Links(h)!Resolvable(h, f[p])
<1>1. \A r \in DOMAIN g.loc : r \in Arts(g) /\ Links(g)!Hop(g, r) \subseteq Arts(g)
  BY LinkParts DEF Arts
<1>2. ASSUME Links(g)!Resolvable(g, p)
      PROVE  Links(h)!Resolvable(h, f[p])
  <2>1. PICK o \in ObjectsOf(g) : Links(g)!Leads(g, p, o)
    BY <1>2, LinkParts
  <2>2. o \in Arts(g)
    BY DEF Arts
  <2>3. Links(h)!Leads(h, f[p], f[o]) /\ f[o] \in ObjectsOf(h)
    BY <2>1, <2>2, FoldedLeads DEF FoldsOnto
  <2> QED BY <2>3, LinkParts
<1>3. ASSUME Links(h)!Resolvable(h, f[p])
      PROVE  Links(g)!Resolvable(g, p)
  <2>1. PICK b \in ObjectsOf(h) : Links(h)!Leads(h, f[p], b)
    BY <1>3, LinkParts
  <2> DEFINE R == {a \in Arts(g) : Links(g)!Leads(g, p, a)}
             Y == {f[a] : a \in R}
  <2>2. \A a \in R, c \in Arts(g) :
          a \in DOMAIN g.loc /\ c \in Links(g)!Hop(g, a) => c \in R
    <3> SUFFICES ASSUME NEW a \in R, NEW c \in Arts(g), a \in DOMAIN g.loc, c \in Links(g)!Hop(g, a),
                        NEW X \in SUBSET Arts(g), Links(g)!Hop(g, p) \subseteq X, Links(g)!Closed(g, X)
                 PROVE  c \in X
      BY LinkParts
    <3>1. a \in X
      BY LinkParts
    <3>2. Links(g)!Hop(g, a) \subseteq X
      BY <3>1, LinkParts
    <3> QED BY <3>2
  <2>3. Links(g)!Hop(g, p) \subseteq R
    BY <1>1, LinkParts
  <2> HIDE DEF R
  <2>4. R \subseteq Arts(g)
    BY DEF R
  <2>5. Y \in SUBSET Arts(h)
    BY <2>4 DEF FoldsOnto
  <2>6. Links(h)!Hop(h, f[p]) \subseteq Y
    BY <2>3 DEF FoldsOnto
  <2>7. Links(h)!Closed(h, Y)
    <3> SUFFICES ASSUME NEW r \in Y \cap DOMAIN h.loc
                 PROVE  Links(h)!Hop(h, r) \subseteq Y
      BY LinkParts
    <3>1. PICK a \in R : r = f[a]
      OBVIOUS
    <3>2. a \in DOMAIN g.loc
      BY <2>4, <3>1 DEF FoldsOnto
    <3>3. Links(g)!Hop(g, a) \subseteq R
      BY <1>1, <2>2, <3>2
    <3> QED BY <3>1, <3>2, <3>3 DEF FoldsOnto
  <2> HIDE DEF Y
  <2>8. b \in Y
    BY <2>1, <2>5, <2>6, <2>7, LinkParts
  <2>9. PICK a \in R : b = f[a]
    BY <2>8 DEF Y
  <2>10. a \in ObjectsOf(g)
    BY <2>4, <2>9 DEF FoldsOnto
  <2>11. Links(g)!Leads(g, p, a)
    BY DEF R
  <2> QED BY <2>10, <2>11, LinkParts
<1> QED
  BY <1>2, <1>3

(* Every $ref of the graph names one of its documents, and at most one     *)
(* artifact there; any object will do.                                     *)
Known(g) ==
  \A r \in DOMAIN g.loc :
    /\ Links(g)!Target(g, r) \in g.docs
    /\ \A a, b \in Links(g)!Hop(g, r) : a = b
    /\ g.accepts[r] = ObjectsOf(g)

LEMMA FoldedVerdict ==
  ASSUME NEW g, NEW h, NEW f, FoldsOnto(f, g, h), Known(g), Known(h)
  PROVE  Links(g)!Verdict(g) = Links(h)!Verdict(h)
<1>1. ASSUME NEW k, Known(k)
      PROVE  Links(k)!Defective(k) <=> \E r \in DOMAIN k.loc : Links(k)!Hop(k, r) = {}
  <2>1. ASSUME NEW r \in DOMAIN k.loc
        PROVE  /\ ~Links(k)!IllTyped(k, r)
               /\ Links(k)!Ambiguous(k, r) <=> Links(k)!Hop(k, r) = {}
    <3>1. ~Links(k)!IllTyped(k, r)
      BY <1>1 DEF Known, Links!IllTyped
    <3>2. Links(k)!Hop(k, r) = Links(k)!Matches(k, r) /\ Links(k)!Hop(k, r) \subseteq Arts(k)
      BY <1>1, LinkParts DEF Known, Links!Hop
    <3>3. Links(k)!Ambiguous(k, r) <=> ~ \E a \in Arts(k) : Links(k)!Hop(k, r) = {a}
      BY <1>1, <3>2, LinkParts DEF Known, Links!Ambiguous
    <3>4. ASSUME Links(k)!Hop(k, r) # {}
          PROVE  \E a \in Arts(k) : Links(k)!Hop(k, r) = {a}
      <4>1. PICK a \in Links(k)!Hop(k, r) : TRUE
        BY <3>4
      <4>2. Links(k)!Hop(k, r) = {a}
        BY <1>1 DEF Known
      <4> QED BY <3>2, <4>1, <4>2
    <3> QED BY <3>1, <3>3, <3>4
  <2> QED BY <2>1, LinkParts DEF Links!Defective
<1>2. (\E r \in DOMAIN g.loc : Links(g)!Hop(g, r) = {})
        <=> (\E r \in DOMAIN h.loc : Links(h)!Hop(h, r) = {})
  <2>1. ASSUME NEW r \in DOMAIN g.loc
        PROVE  /\ f[r] \in DOMAIN h.loc
               /\ Links(g)!Hop(g, r) = {} <=> Links(h)!Hop(h, f[r]) = {}
    BY DEF FoldsOnto, Arts
  <2>2. ASSUME NEW s \in DOMAIN h.loc
        PROVE  \E r \in DOMAIN g.loc : s = f[r]
    BY DEF FoldsOnto, Arts
  <2> QED BY <2>1, <2>2
<1>3. Links(g)!Dangling(g) <=> Links(h)!Dangling(h)
  <2>1. ASSUME NEW r \in DOMAIN g.loc
        PROVE  /\ f[r] \in DOMAIN h.loc
               /\ Links(g)!Resolvable(g, r) <=> Links(h)!Resolvable(h, f[r])
    BY FoldedResolves DEF FoldsOnto, Arts
  <2>2. ASSUME NEW s \in DOMAIN h.loc
        PROVE  \E r \in DOMAIN g.loc : s = f[r]
    BY DEF FoldsOnto, Arts
  <2>3. /\ Links(g)!Dangling(g) <=> \E r \in DOMAIN g.loc : ~Links(g)!Resolvable(g, r)
        /\ Links(h)!Dangling(h) <=> \E r \in DOMAIN h.loc : ~Links(h)!Resolvable(h, r)
    BY LinkParts DEF Links!Dangling
  <2> QED BY <2>1, <2>2, <2>3
<1> QED
  BY <1>1, <1>2, <1>3 DEF Links!Verdict

-----------------------------------------------------------------------------
(* The graphs of a project *)

LEMMA InRefs ==
  ASSUME NEW ds, NEW e
  PROVE  e \in RefsIn(ds) <=> \E d \in ds : \E i \in 1 .. Len(RefsOf(d)) : e = <<d, i>>
BY DEF RefsIn, Elements

LEMMA GraphParts ==
  ASSUME NEW ds, NEW key, NEW goesTo, NEW g, g = GraphOf(ds, key, goesTo),
         \A d \in ds : Len(RefsOf(d)) \in Nat
  PROVE  /\ g.docs = {key[d] : d \in ds}
         /\ ObjectsOf(g) = {<<key[d], 0>> : d \in ds}
         /\ DOMAIN g.loc = {<<key[e[1]], e[2]>> : e \in RefsIn(ds)}
         /\ \A a \in Arts(g) : g.home[a] = a[1] /\ g.pos[a] = a[2]
         /\ \A r \in DOMAIN g.loc :
              /\ g.ptr[r] = r[2] - 1 /\ r \notin g.byCb /\ g.accepts[r] = ObjectsOf(g)
              /\ \E e \in RefsIn(ds) : <<key[e[1]], e[2]>> = r /\ g.loc[r] = goesTo[e]
<1> DEFINE element(e) == <<key[e[1]], e[2]>>
           objects == {<<key[d], 0>> : d \in ds}
           refs    == {element(e) : e \in RefsIn(ds)}
           spelled(r) == CHOOSE t \in {goesTo[e] : e \in {x \in RefsIn(ds) : element(x) = r}} : TRUE
<1>1. /\ g.docs = {key[d] : d \in ds}
      /\ g.home = [a \in objects \cup refs |-> a[1]]
      /\ g.pos = [a \in objects \cup refs |-> a[2]]
      /\ g.loc = [r \in refs |-> spelled(r)]
      /\ g.ptr = [r \in refs |-> r[2] - 1]
      /\ g.byCb = {}
      /\ g.accepts = [r \in refs |-> objects]
  BY DEF GraphOf
<1>2. \A r \in refs : spelled(r) \in {goesTo[e] : e \in {x \in RefsIn(ds) : element(x) = r}}
  <2> SUFFICES ASSUME NEW r \in refs
               PROVE  \E t : t \in {goesTo[e] : e \in {x \in RefsIn(ds) : element(x) = r}}
    OBVIOUS
  <2> QED OBVIOUS
<1> HIDE DEF spelled
<1>3. \A r \in refs : r[2] # 0
  BY InRefs
<1>4. ObjectsOf(g) = objects
  <2>1. ObjectsOf(g) = {a \in objects \cup refs : a[2] = 0}
    BY <1>1 DEF ObjectsOf
  <2>2. \A a \in objects : a[2] = 0
    OBVIOUS
  <2> QED BY <1>3, <2>1, <2>2
<1>5. DOMAIN g.loc = refs
  BY <1>1
<1>6. Arts(g) = objects \cup refs
  BY <1>4, <1>5 DEF Arts
<1>7. \A r \in refs :
        \E e \in RefsIn(ds) : element(e) = r /\ g.loc[r] = goesTo[e]
  <2> SUFFICES ASSUME NEW r \in refs
               PROVE  \E e \in RefsIn(ds) : element(e) = r /\ g.loc[r] = goesTo[e]
    OBVIOUS
  <2>1. g.loc[r] = spelled(r)
    BY <1>1
  <2> QED BY <1>2, <2>1
<1>8. \A a \in Arts(g) : g.home[a] = a[1] /\ g.pos[a] = a[2]
  BY <1>1, <1>6
<1>9. \A r \in DOMAIN g.loc : g.ptr[r] = r[2] - 1 /\ r \notin g.byCb /\ g.accepts[r] = ObjectsOf(g)
  BY <1>1, <1>4, <1>5
<1>10. \A r \in DOMAIN g.loc :
         \E e \in RefsIn(ds) : <<key[e[1]], e[2]>> = r /\ g.loc[r] = goesTo[e]
  BY <1>5, <1>7
<1> HIDE DEF objects
<1>11. g.docs = {key[d] : d \in ds}
  BY <1>1
<1> QED
  BY <1>4, <1>5, <1>8, <1>9, <1>10, <1>11 DEF objects

LEMMA GraphHop ==
  ASSUME NEW ds, NEW key, NEW goesTo, NEW g, g = GraphOf(ds, key, goesTo),
         \A d \in ds : Len(RefsOf(d)) \in Nat,
         NEW r \in DOMAIN g.loc, g.loc[r] # Here, g.loc[r] \in g.docs
  PROVE  /\ Links(g)!Target(g, r) \in g.docs
         /\ Links(g)!Hop(g, r) = {a \in Arts(g) : a[1] = g.loc[r] /\ a[2] = r[2] - 1}
<1>1. Links(g)!Target(g, r) = g.loc[r]
  BY DEF Links!Target
<1>2. Links(g)!Hop(g, r) = Links(g)!Matches(g, r)
  BY <1>1 DEF Links!Hop
<1>3. /\ \A a \in Arts(g) : g.home[a] = a[1] /\ g.pos[a] = a[2]
      /\ g.ptr[r] = r[2] - 1 /\ r \notin g.byCb
  BY GraphParts
<1>4. Links(g)!Matches(g, r) = {a \in Arts(g) : g.home[a] = g.loc[r] /\ g.pos[a] = g.ptr[r]}
  BY <1>1, <1>3, LinkParts DEF Links!Matches
<1> QED
  BY <1>1, <1>2, <1>3, <1>4

-----------------------------------------------------------------------------
(* What is known of the documents once they are compiled. *)
Compiled ==
  /\ world \in Worlds
  /\ \A d \in docs : /\ d \in Locations /\ Readable(d)
                      /\ Len(RefsOf(d)) \in Nat /\ DOMAIN RefsOf(d) = 1 .. Len(RefsOf(d))
                      /\ \A i \in 1 .. Len(RefsOf(d)) :
                           /\ RefsOf(d)[i] \in Locations
                           /\ JoinedRefs(d)[i] = ResolveURL(world.rootDir, d, RefsOf(d)[i])
                           /\ JoinedRefs(d)[i] \in docs
  /\ world.rootDir = NoRoot => \A d \in docs : ~IsRemote(d) => NamesFile(d)

LEMMA WhenCompiled == Inv /\ LocationsInv /\ status = "compiled" => Compiled
<1> SUFFICES ASSUME Inv, LocationsInv, status = "compiled"
             PROVE  Compiled
  OBVIOUS
<1>1. world \in Worlds
  BY DEF Inv, QueueInv
<1>2. Met = docs
  BY EmptyQueue DEF Met, Inv, ClosedInv
<1>3. ASSUME NEW d \in docs
      PROVE  d \in Locations /\ Readable(d) /\ ToSet(JoinedRefs(d)) \subseteq docs
  BY <1>2 DEF LocationsInv, Inv, ClosedInv, Bad
<1>4. ASSUME NEW d \in docs
      PROVE  /\ Len(RefsOf(d)) \in Nat /\ DOMAIN RefsOf(d) = 1 .. Len(RefsOf(d))
             /\ \A i \in 1 .. Len(RefsOf(d)) :
                  /\ RefsOf(d)[i] \in Locations
                  /\ JoinedRefs(d)[i] = ResolveURL(world.rootDir, d, RefsOf(d)[i])
                  /\ JoinedRefs(d)[i] \in docs
  <2>1. PICK s : s = RefsOf(d)
    OBVIOUS
  <2>2. s \in Seq(Locations)
    BY <1>1, <1>3, <2>1, CompilationAssumption DEF RefsOf, Readable
  <2>3. DOMAIN s = 1 .. Len(s) /\ Len(s) \in Nat
    BY <2>2
  <2>4. ASSUME NEW i \in 1 .. Len(s)
        PROVE  JoinedRefs(d)[i] \in ToSet(JoinedRefs(d))
    <3>1. DOMAIN JoinedRefs(d) = 1 .. Len(s)
      BY <2>1 DEF JoinedRefs
    <3> QED BY <3>1 DEF ToSet
  <2> QED BY <1>1, <1>3, <2>1, <2>3, <2>4, RefParts
<1>5. world.rootDir = NoRoot => \A d \in docs : ~IsRemote(d) => NamesFile(d)
  BY <1>2, <1>3 DEF LocationsInv
<1> QED
  BY <1>1, <1>3, <1>4, <1>5 DEF Compiled

(* Cleaning a path of one segment leaves a name as it is. *)
LEMMA CleanName ==
  ASSUME NEW s \in Seq(STRING), Len(s) = 1, NEW v, v = FSPath(FALSE, Clean(FALSE, s)), NamesFile(v)
  PROVE  Clean(FALSE, s) = s
<1>1. PICK x : x = s[1]
  OBVIOUS
<1>2. x \in STRING /\ s = Append(<<>>, x) /\ <<>> \in Seq(STRING)
  BY <1>1
<1>3. PICK c : c = Clean(FALSE, s)
  OBVIOUS
<1>4. c = CleanStep(FALSE, <<>>, x)
  <2>1. PICK a : a = FALSE
    OBVIOUS
  <2>2. CleanFrom(a, <<>>, s) = CleanStep(a, CleanFrom(a, <<>>, <<>>), x)
    BY <1>2, CleanAppend
  <2>3. CleanFrom(a, <<>>, <<>>) = <<>>
    BY CleanEmpty
  <2> QED BY <1>3, <2>1, <2>2, <2>3 DEF Clean
<1>5. c # <<>> /\ c[Len(c)] # "." /\ c[Len(c)] # ".."
  BY <1>3 DEF NamesFile, FSPath
<1>6. x # "."
  BY <1>4, <1>5, RelativeStepTo
<1>7. x # ".."
  <2> SUFFICES ASSUME x = ".."
               PROVE  FALSE
    OBVIOUS
  <2>1. c = Append(<<>>, x)
    BY <1>4, RelativeStepTo
  <2>2. c = s
    BY <1>2, <2>1
  <2> QED BY <1>1, <1>5, <2>2
<1>8. c = Append(<<>>, x)
  BY <1>4, <1>6, <1>7, RelativeStepTo
<1> QED
  BY <1>2, <1>3, <1>8

(* In a flat project a $ref spells the key of its document, and means its  *)
(* file.                                                                   *)
LEMMA FlatTarget ==
  ASSUME Compiled, Flat, NEW d \in docs, NEW i \in 1 .. Len(RefsOf(d)), NEW r, r = RefsOf(d)[i]
  PROVE  r \in docs /\ r # Here /\ MeantFile(d, r) = File(r) /\ d.host = NoHost
<1>1. d \in Locations /\ r \in Locations /\ JoinedRefs(d)[i] = ResolveURL(NoRoot, d, r) /\ JoinedRefs(d)[i] \in docs
  BY DEF Compiled, Flat
<1>2. /\ world.rootDir = NoRoot /\ ~IsRemote(d) /\ ~d.abs /\ Dir(d.abs, d.segs) = <<>>
      /\ ~IsRemote(r) /\ ~r.abs /\ Len(r.segs) = 1
  <2>1. i \in DOMAIN RefsOf(d)
    BY DEF Compiled
  <2> QED BY <2>1 DEF Flat
<1>3. PICK v : v = JoinedRefs(d)[i]
  OBVIOUS
<1>4. d.abs = FALSE /\ r.abs = FALSE /\ r.segs \in Seq(STRING) /\ d.segs \in Seq(STRING)
  BY <1>1, <1>2, Parts
<1>5. v = FSPath(FALSE, Clean(FALSE, <<>> \o r.segs))
  BY <1>1, <1>2, <1>3, <1>4 DEF ResolveURL, JoinPaths
<1>6. v = FSPath(FALSE, Clean(FALSE, r.segs))
  BY <1>4, <1>5, ConcatEmptySeq
<1>7. NamesFile(v)
  <2>1. v \in docs /\ ~IsRemote(v)
    BY <1>1, <1>3, <1>6 DEF FSPath, IsRemote
  <2> QED BY <1>2, <2>1 DEF Compiled
<1>8. Clean(FALSE, r.segs) = r.segs
  BY <1>2, <1>4, <1>6, <1>7, CleanName
<1>9. v = r
  <2>1. r = [host |-> r.host, abs |-> r.abs, segs |-> r.segs]
    BY <1>1 DEF Locations
  <2> QED BY <1>2, <1>4, <1>6, <1>8, <2>1 DEF FSPath, IsRemote
<1>10. r # Here
  <2>1. Here.segs = <<>> /\ Len(<<>>) = 0
    BY DEF Here, FSPath
  <2> QED BY <1>2, <2>1
<1>11. NamesFile(d) /\ d.host = NoHost
  BY <1>2 DEF Compiled, IsRemote
<1>12. File(v).path = Walk(DirOf(File(d).path), r.segs)
  <2>1. v = FSPath(d.abs, Clean(d.abs, Dir(d.abs, d.segs) \o r.segs))
    BY <1>2, <1>4, <1>5
  <2> QED BY <1>1, <1>4, <1>11, <2>1, JoinOpens DEF File
<1>13. File(r) = [host |-> NoHost, path |-> File(r).path]
  BY <1>2 DEF File, FileOf, IsRemote
<1>14. MeantFile(d, r) = [host |-> d.host, path |-> Walk(DirOf(File(d).path), r.segs)]
  BY <1>2 DEF MeantFile
<1> QED
  BY <1>1, <1>3, <1>9, <1>10, <1>11, <1>12, <1>13, <1>14

LEMMA FilesAreNoLocations == \A u : File(u) # Here
<1> SUFFICES ASSUME NEW u, File(u) = Here
             PROVE  FALSE
  OBVIOUS
<1>1. "path" \in DOMAIN File(u)
  BY DEF File, FileOf
<1>2. DOMAIN Here = {"host", "abs", "segs"}
  BY DEF Here, FSPath
<1> QED
  BY <1>1, <1>2

(* The graph as spelled, *)
LEMMA SpelledGraph ==
  ASSUME Compiled, Flat, NEW g, g = CompiledGraph
  PROVE  /\ ObjectsOf(g) = {<<d, 0>> : d \in docs}
         /\ \A x : x \in DOMAIN g.loc <=> \E d \in docs : \E i \in 1 .. Len(RefsOf(d)) : x = <<d, i>>
         /\ Known(g)
         /\ \A d \in docs : \A i \in 1 .. Len(RefsOf(d)) :
              Links(g)!Hop(g, <<d, i>>) = {a \in Arts(g) : a[1] = RefsOf(d)[i] /\ a[2] = i - 1}
<1>1. PICK key, goesTo : key = [d \in docs |-> d] /\ goesTo = [e \in RefsIn(docs) |-> Spelled(e)]
  OBVIOUS
<1>2. g = GraphOf(docs, key, goesTo)
  BY <1>1 DEF CompiledGraph
<1>3. \A d \in docs : Len(RefsOf(d)) \in Nat
  BY DEF Compiled
<1>4. /\ g.docs = {key[d] : d \in docs}
      /\ ObjectsOf(g) = {<<key[d], 0>> : d \in docs}
      /\ DOMAIN g.loc = {<<key[e[1]], e[2]>> : e \in RefsIn(docs)}
      /\ \A r \in DOMAIN g.loc :
           /\ g.accepts[r] = ObjectsOf(g)
           /\ \E e \in RefsIn(docs) : <<key[e[1]], e[2]>> = r /\ g.loc[r] = goesTo[e]
  BY <1>2, <1>3, GraphParts
<1>5. g.docs = docs
  BY <1>1, <1>4
<1>6. ObjectsOf(g) = {<<d, 0>> : d \in docs}
  BY <1>1, <1>4
<1>7. \A x : x \in DOMAIN g.loc <=> \E d \in docs : \E i \in 1 .. Len(RefsOf(d)) : x = <<d, i>>
  <2>1. \A e \in RefsIn(docs) : <<key[e[1]], e[2]>> = e
    BY <1>1, InRefs
  <2>2. DOMAIN g.loc = RefsIn(docs)
    BY <1>4, <2>1
  <2> QED BY <2>2, InRefs
<1>8. ASSUME NEW d \in docs, NEW i \in 1 .. Len(RefsOf(d))
      PROVE  /\ <<d, i>> \in DOMAIN g.loc
             /\ g.loc[<<d, i>>] = RefsOf(d)[i]
             /\ RefsOf(d)[i] \in docs /\ RefsOf(d)[i] # Here
  <2>1. PICK x : x = <<d, i>>
    OBVIOUS
  <2>2. x \in DOMAIN g.loc
    BY <1>7, <2>1
  <2>3. PICK e \in RefsIn(docs) : <<key[e[1]], e[2]>> = x /\ g.loc[x] = goesTo[e]
    BY <1>4, <2>2
  <2>4. PICK dd, j : dd \in docs /\ j \in 1 .. Len(RefsOf(dd)) /\ e = <<dd, j>>
    BY InRefs
  <2>5. dd = d /\ j = i
    BY <1>1, <2>1, <2>3, <2>4
  <2>6. goesTo[e] = RefsOf(d)[i]
    BY <1>1, <2>4, <2>5 DEF Spelled
  <2>7. RefsOf(d)[i] \in docs /\ RefsOf(d)[i] # Here
    BY FlatTarget
  <2> QED BY <2>1, <2>2, <2>3, <2>6, <2>7
<1>9. ASSUME NEW d \in docs, NEW i \in 1 .. Len(RefsOf(d))
      PROVE  /\ Links(g)!Target(g, <<d, i>>) \in g.docs
             /\ Links(g)!Hop(g, <<d, i>>) = {a \in Arts(g) : a[1] = RefsOf(d)[i] /\ a[2] = i - 1}
  <2>1. PICK x : x = <<d, i>>
    OBVIOUS
  <2>2. x \in DOMAIN g.loc /\ g.loc[x] = RefsOf(d)[i] /\ g.loc[x] # Here /\ g.loc[x] \in g.docs
    BY <1>5, <1>8, <2>1
  <2>3. /\ Links(g)!Target(g, x) \in g.docs
        /\ Links(g)!Hop(g, x) = {a \in Arts(g) : a[1] = g.loc[x] /\ a[2] = x[2] - 1}
    BY <1>2, <1>3, <2>2, GraphHop
  <2>4. x[2] = i
    BY <2>1
  <2> QED BY <2>1, <2>2, <2>3, <2>4
<1>10. \A a \in Arts(g) : a = <<a[1], a[2]>>
  BY <1>6, <1>7 DEF Arts
<1>11. Known(g)
  <2> SUFFICES ASSUME NEW r \in DOMAIN g.loc
               PROVE  /\ Links(g)!Target(g, r) \in g.docs
                      /\ \A a, b \in Links(g)!Hop(g, r) : a = b
                      /\ g.accepts[r] = ObjectsOf(g)
    BY DEF Known
  <2>1. PICK d, i : d \in docs /\ i \in 1 .. Len(RefsOf(d)) /\ r = <<d, i>>
    BY <1>7
  <2>2. Links(g)!Target(g, r) \in g.docs
    BY <1>9, <2>1
  <2>3. \A a \in Links(g)!Hop(g, r) : a = <<RefsOf(d)[i], i - 1>>
    BY <1>9, <1>10, <2>1
  <2> QED BY <1>4, <2>2, <2>3
<1> QED
  BY <1>6, <1>7, <1>9, <1>11

LEMMA SameFile ==
  ASSUME NEW c, NEW d, File(c) = File(d)
  PROVE  RefsOf(c) = RefsOf(d)
BY DEF RefsOf

(* and the one that is meant. *)
LEMMA MeantParts ==
  ASSUME Compiled, Flat, NEW h, h = MeantGraph
  PROVE  /\ ObjectsOf(h) = {<<File(d), 0>> : d \in docs}
         /\ \A x : x \in DOMAIN h.loc
                    <=> \E d \in docs : \E i \in 1 .. Len(RefsOf(d)) : x = <<File(d), i>>
         /\ Known(h)
         /\ \A d \in docs : \A i \in 1 .. Len(RefsOf(d)) :
              Links(h)!Hop(h, <<File(d), i>>)
                = {a \in Arts(h) : a[1] = File(RefsOf(d)[i]) /\ a[2] = i - 1}
<1>1. PICK key, goesTo : /\ key = [d \in docs |-> File(d)]
                         /\ goesTo = [e \in RefsIn(docs) |-> MeantFile(e[1], Spelled(e))]
  OBVIOUS
<1>2. h = GraphOf(docs, key, goesTo)
  BY <1>1 DEF MeantGraph
<1>3. \A d \in docs : Len(RefsOf(d)) \in Nat
  BY DEF Compiled
<1>4. /\ h.docs = {key[d] : d \in docs}
      /\ ObjectsOf(h) = {<<key[d], 0>> : d \in docs}
      /\ DOMAIN h.loc = {<<key[e[1]], e[2]>> : e \in RefsIn(docs)}
      /\ \A r \in DOMAIN h.loc :
           /\ h.accepts[r] = ObjectsOf(h)
           /\ \E e \in RefsIn(docs) : <<key[e[1]], e[2]>> = r /\ h.loc[r] = goesTo[e]
  BY <1>2, <1>3, GraphParts
<1>5. h.docs = {File(d) : d \in docs}
  BY <1>1, <1>4
<1>6. ObjectsOf(h) = {<<File(d), 0>> : d \in docs}
  BY <1>1, <1>4
<1>7. \A x : x \in DOMAIN h.loc
              <=> \E d \in docs : \E i \in 1 .. Len(RefsOf(d)) : x = <<File(d), i>>
  <2>1. ASSUME NEW x \in DOMAIN h.loc
        PROVE  \E d \in docs : \E i \in 1 .. Len(RefsOf(d)) : x = <<File(d), i>>
    <3>1. PICK e \in RefsIn(docs) : x = <<key[e[1]], e[2]>>
      BY <1>4
    <3>2. PICK d, i : d \in docs /\ i \in 1 .. Len(RefsOf(d)) /\ e = <<d, i>>
      BY InRefs
    <3> QED BY <1>1, <3>1, <3>2
  <2>2. ASSUME NEW d \in docs, NEW i \in 1 .. Len(RefsOf(d))
        PROVE  <<File(d), i>> \in DOMAIN h.loc
    <3>1. PICK e : e = <<d, i>>
      OBVIOUS
    <3>2. e \in RefsIn(docs) /\ e[1] = d /\ e[2] = i
      BY <3>1, InRefs
    <3>3. <<key[e[1]], e[2]>> \in DOMAIN h.loc
      BY <1>4, <3>2
    <3> QED BY <1>1, <3>2, <3>3
  <2> QED BY <2>1, <2>2
<1>8. ASSUME NEW d \in docs, NEW i \in 1 .. Len(RefsOf(d))
      PROVE  /\ <<File(d), i>> \in DOMAIN h.loc
             /\ h.loc[<<File(d), i>>] = File(RefsOf(d)[i])
             /\ RefsOf(d)[i] \in docs
  <2>1. PICK x : x = <<File(d), i>>
    OBVIOUS
  <2>2. x \in DOMAIN h.loc
    BY <1>7, <2>1
  <2>3. PICK e \in RefsIn(docs) : <<key[e[1]], e[2]>> = x /\ h.loc[x] = goesTo[e]
    BY <1>4, <2>2
  <2>4. PICK c, j : c \in docs /\ j \in 1 .. Len(RefsOf(c)) /\ e = <<c, j>>
    BY InRefs
  <2>5. File(c) = File(d) /\ j = i
    BY <1>1, <2>1, <2>3, <2>4
  <2>6. RefsOf(c) = RefsOf(d)
    BY <2>5, SameFile
  <2>7. goesTo[e] = MeantFile(c, RefsOf(c)[j])
    BY <1>1, <2>4 DEF Spelled
  <2>8. MeantFile(c, RefsOf(c)[j]) = File(RefsOf(c)[j]) /\ RefsOf(c)[j] \in docs
    <3>1. PICK r : r = RefsOf(c)[j]
      OBVIOUS
    <3>2. MeantFile(c, r) = File(r) /\ r \in docs
      BY <2>4, <3>1, FlatTarget
    <3> QED BY <3>1, <3>2
  <2> QED BY <2>1, <2>2, <2>3, <2>5, <2>6, <2>7, <2>8
<1>9. ASSUME NEW d \in docs, NEW i \in 1 .. Len(RefsOf(d))
      PROVE  /\ Links(h)!Target(h, <<File(d), i>>) \in h.docs
             /\ Links(h)!Hop(h, <<File(d), i>>)
                  = {a \in Arts(h) : a[1] = File(RefsOf(d)[i]) /\ a[2] = i - 1}
  <2>1. PICK x : x = <<File(d), i>>
    OBVIOUS
  <2>2. x \in DOMAIN h.loc /\ h.loc[x] = File(RefsOf(d)[i]) /\ h.loc[x] # Here /\ h.loc[x] \in h.docs
    BY <1>5, <1>8, <2>1, FilesAreNoLocations
  <2>3. /\ Links(h)!Target(h, x) \in h.docs
        /\ Links(h)!Hop(h, x) = {a \in Arts(h) : a[1] = h.loc[x] /\ a[2] = x[2] - 1}
    BY <1>2, <1>3, <2>2, GraphHop
  <2>4. x[2] = i
    BY <2>1
  <2> QED BY <2>1, <2>2, <2>3, <2>4
<1>10. \A a \in Arts(h) : a = <<a[1], a[2]>>
  BY <1>6, <1>7 DEF Arts
<1>11. Known(h)
  <2> SUFFICES ASSUME NEW r \in DOMAIN h.loc
               PROVE  /\ Links(h)!Target(h, r) \in h.docs
                      /\ \A a, b \in Links(h)!Hop(h, r) : a = b
                      /\ h.accepts[r] = ObjectsOf(h)
    BY DEF Known
  <2>1. PICK d, i : d \in docs /\ i \in 1 .. Len(RefsOf(d)) /\ r = <<File(d), i>>
    BY <1>7
  <2>2. Links(h)!Target(h, r) \in h.docs
    BY <1>9, <2>1
  <2>3. \A a \in Links(h)!Hop(h, r) : a = <<File(RefsOf(d)[i]), i - 1>>
    BY <1>9, <1>10, <2>1
  <2> QED BY <1>4, <2>2, <2>3
<1> QED
  BY <1>6, <1>7, <1>9, <1>11

(* Documents that are one file fold into one. *)
LEMMA FlatFolds ==
  ASSUME Compiled, Flat, NEW g, g = CompiledGraph, NEW h, h = MeantGraph,
         NEW f, f = [a \in Arts(g) |-> <<File(a[1]), a[2]>>]
  PROVE  FoldsOnto(f, g, h)
<1>1. /\ ObjectsOf(g) = {<<d, 0>> : d \in docs}
      /\ \A x : x \in DOMAIN g.loc <=> \E d \in docs : \E i \in 1 .. Len(RefsOf(d)) : x = <<d, i>>
      /\ \A d \in docs : \A i \in 1 .. Len(RefsOf(d)) :
           Links(g)!Hop(g, <<d, i>>) = {a \in Arts(g) : a[1] = RefsOf(d)[i] /\ a[2] = i - 1}
  BY SpelledGraph
<1>2. /\ ObjectsOf(h) = {<<File(d), 0>> : d \in docs}
      /\ \A x : x \in DOMAIN h.loc
                 <=> \E d \in docs : \E i \in 1 .. Len(RefsOf(d)) : x = <<File(d), i>>
      /\ \A d \in docs : \A i \in 1 .. Len(RefsOf(d)) :
           Links(h)!Hop(h, <<File(d), i>>)
             = {a \in Arts(h) : a[1] = File(RefsOf(d)[i]) /\ a[2] = i - 1}
  BY MeantParts
<1>3. \A d \in docs : Len(RefsOf(d)) \in Nat
  BY DEF Compiled
<1>4. \A x : x \in Arts(g) <=> \E d \in docs : \E n \in 0 .. Len(RefsOf(d)) : x = <<d, n>>
  BY <1>1, <1>3 DEF Arts
<1>5. \A x : x \in Arts(h) <=> \E d \in docs : \E n \in 0 .. Len(RefsOf(d)) : x = <<File(d), n>>
  BY <1>2, <1>3 DEF Arts
<1>6. \A d \in docs : \A n \in 0 .. Len(RefsOf(d)) :
        <<d, n>> \in Arts(g) /\ f[<<d, n>>] = <<File(d), n>> /\ <<File(d), n>> \in Arts(h)
  <2> SUFFICES ASSUME NEW d \in docs, NEW n \in 0 .. Len(RefsOf(d))
               PROVE  <<d, n>> \in Arts(g) /\ f[<<d, n>>] = <<File(d), n>> /\ <<File(d), n>> \in Arts(h)
    OBVIOUS
  <2>1. PICK a : a = <<d, n>>
    OBVIOUS
  <2>2. a \in Arts(g) /\ a[1] = d /\ a[2] = n
    BY <1>4, <2>1
  <2>3. f[a] = <<File(d), n>>
    BY <2>2
  <2> QED BY <1>5, <2>1, <2>2, <2>3
<1>7. f \in [Arts(g) -> Arts(h)]
  <2>1. \A a \in Arts(g) : f[a] \in Arts(h)
    BY <1>4, <1>6
  <2> QED BY <2>1
<1>8. ASSUME NEW b \in Arts(h)
      PROVE  \E a \in Arts(g) : f[a] = b
  <2>1. PICK d, n : d \in docs /\ n \in 0 .. Len(RefsOf(d)) /\ b = <<File(d), n>>
    BY <1>5
  <2>2. PICK a : a = <<d, n>>
    OBVIOUS
  <2>3. a \in Arts(g) /\ f[a] = b
    BY <1>6, <2>1, <2>2
  <2> QED BY <2>3
<1>9. ASSUME NEW d \in docs, NEW n \in 0 .. Len(RefsOf(d))
      PROVE  /\ <<d, n>> \in ObjectsOf(g) <=> <<File(d), n>> \in ObjectsOf(h)
             /\ <<d, n>> \in DOMAIN g.loc <=> <<File(d), n>> \in DOMAIN h.loc
  <2>1. <<d, n>> \in ObjectsOf(g) <=> n = 0
    BY <1>1
  <2>2. <<File(d), n>> \in ObjectsOf(h) <=> n = 0
    BY <1>2
  <2>3. <<d, n>> \in DOMAIN g.loc <=> n # 0
    BY <1>1, <1>3
  <2>4. <<File(d), n>> \in DOMAIN h.loc <=> n # 0
    BY <1>2, <1>3
  <2> QED BY <2>1, <2>2, <2>3, <2>4
<1>10. \A a \in Arts(g) : /\ a \in ObjectsOf(g) <=> f[a] \in ObjectsOf(h)
                          /\ a \in DOMAIN g.loc <=> f[a] \in DOMAIN h.loc
  <2> SUFFICES ASSUME NEW a \in Arts(g)
               PROVE  /\ a \in ObjectsOf(g) <=> f[a] \in ObjectsOf(h)
                      /\ a \in DOMAIN g.loc <=> f[a] \in DOMAIN h.loc
    OBVIOUS
  <2>1. PICK d, n : d \in docs /\ n \in 0 .. Len(RefsOf(d)) /\ a = <<d, n>>
    BY <1>4
  <2> QED BY <1>6, <1>9, <2>1
<1>11. ASSUME NEW r, NEW d \in docs, NEW i \in 1 .. Len(RefsOf(d)), r = <<d, i>>
       PROVE  Links(h)!Hop(h, f[r]) = {f[a] : a \in Links(g)!Hop(g, r)}
  <2>1. PICK j : j = RefsOf(d)[i]
    OBVIOUS
  <2>2. PICK H, K : H = Links(g)!Hop(g, r) /\ K = Links(h)!Hop(h, <<File(d), i>>)
    OBVIOUS
  <2>3. /\ H = {a \in Arts(g) : a[1] = j /\ a[2] = i - 1}
        /\ K = {a \in Arts(h) : a[1] = File(j) /\ a[2] = i - 1}
    BY <1>1, <1>2, <1>11, <2>1, <2>2
  <2>4. ASSUME NEW a \in H
        PROVE  f[a] \in K
    <3>1. PICK c, n : c \in docs /\ n \in 0 .. Len(RefsOf(c)) /\ a = <<c, n>>
      BY <1>4, <2>3
    <3>2. c = j /\ n = i - 1
      BY <2>3, <3>1
    <3>3. f[a] = <<File(j), i - 1>> /\ f[a] \in Arts(h)
      BY <1>6, <3>1, <3>2
    <3> QED BY <2>3, <3>3
  <2>5. ASSUME NEW b \in K
        PROVE  \E a \in H : b = f[a]
    <3>1. PICK c, n : c \in docs /\ n \in 0 .. Len(RefsOf(c)) /\ b = <<File(c), n>>
      BY <1>5, <2>3
    <3>2. File(c) = File(j) /\ n = i - 1
      BY <2>3, <3>1
    <3>3. RefsOf(c) = RefsOf(j) /\ j \in docs
      BY <2>1, <3>2, SameFile, FlatTarget
    <3>4. PICK a : a = <<j, n>>
      OBVIOUS
    <3>5. a \in Arts(g) /\ f[a] = <<File(j), n>>
      BY <1>6, <3>1, <3>3, <3>4
    <3>6. a \in H
      BY <2>3, <3>2, <3>4, <3>5
    <3> QED BY <3>1, <3>2, <3>5, <3>6
  <2>6. K = {f[a] : a \in H}
    BY <2>4, <2>5
  <2>7. f[r] = <<File(d), i>>
    BY <1>3, <1>6, <1>11
  <2> QED BY <2>2, <2>6, <2>7
<1>12. \A r \in DOMAIN g.loc : Links(h)!Hop(h, f[r]) = {f[a] : a \in Links(g)!Hop(g, r)}
  <2> SUFFICES ASSUME NEW r \in DOMAIN g.loc
               PROVE  Links(h)!Hop(h, f[r]) = {f[a] : a \in Links(g)!Hop(g, r)}
    OBVIOUS
  <2>1. PICK d, i : d \in docs /\ i \in 1 .. Len(RefsOf(d)) /\ r = <<d, i>>
    BY <1>1
  <2> QED BY <1>11, <2>1
<1> QED
  BY <1>7, <1>8, <1>10, <1>12 DEF FoldsOnto

(* Linking what was compiled. *)
LinkInv ==
  outcome # "pending" =>
    /\ status = "compiled"
    /\ \E g \in {CompiledGraph} : outcome = Links(g)!Verdict(g) /\ bound = BoundIn(g)

LEMMA LinkKept == LinkInv /\ [PNext]_pvars => LinkInv'
<1> SUFFICES ASSUME LinkInv, [PNext]_pvars
             PROVE  LinkInv'
  OBVIOUS
<1>1. ASSUME world' = world, docs' = docs
      PROVE  CompiledGraph' = CompiledGraph
  BY <1>1 DEF CompiledGraph, GraphOf, RefsIn, Elements, Spelled, RefsOf, File
<1>2. CASE Link
  <2>1. UNCHANGED vars /\ status = "compiled"
    BY <1>2 DEF Link
  <2>2. PICK g : /\ g = CompiledGraph
                 /\ outcome' = Links(g)!Verdict(g)
                 /\ bound' = BoundIn(g)
    BY <1>2 DEF Link
  <2>3. g = CompiledGraph'
    BY <1>1, <2>1, <2>2 DEF vars
  <2> QED BY <2>1, <2>2, <2>3 DEF LinkInv, vars
<1>3. CASE Next /\ UNCHANGED <<outcome, bound>>
  <2>1. status = "running"
    BY <1>3 DEF Next, SkipCompiled, Compile, Forbidden, LoadFails, Finish, Popping
  <2>2. outcome = "pending"
    BY <2>1 DEF LinkInv
  <2> QED BY <1>3, <2>2 DEF LinkInv
<1>4. CASE UNCHANGED pvars
  <2>1. CompiledGraph' = CompiledGraph /\ UNCHANGED <<status, outcome, bound>>
    BY <1>1, <1>4 DEF pvars, vars
  <2> QED BY <2>1 DEF LinkInv
<1> QED
  BY <1>2, <1>3, <1>4 DEF PNext

LEMMA Composition == PSpec => Init /\ [][Next]_vars
<1>1. PInit => Init
  BY DEF PInit
<1>2. [PNext]_pvars => [Next]_vars
  BY DEF PNext, Link, pvars
<1> QED
  BY <1>1, <1>2, PTL DEF PSpec

-----------------------------------------------------------------------------
(* Theorems *)

(* What is reachable over $refs is what the run has met. *)
LEMMA ReachableIsMet == Inv => Reachable = Met
<1> SUFFICES ASSUME Inv, NEW u \in Met, NEW S \in SUBSET Met,
                    world.root \in S, ClosedUnderRefs(S)
             PROVE  u \in S
  BY DEF Reachable
<1> QED
  BY DEF Inv, MetInv, Reaches

LEMMA ClosureFollows == Inv => ClosureCompiled
<1> SUFFICES ASSUME Inv
             PROVE  ClosureCompiled
  OBVIOUS
<1>1. Reachable = Met
  BY ReachableIsMet
<1>2. ASSUME status = "compiled"
      PROVE  /\ docs = Reachable /\ ToSet(fetched) = docs /\ ~ \E u \in docs : Bad(u)
             /\ ClosedUnderRefs(docs)
  <2>1. ToSet(queue) = {}
    BY <1>2, EmptyQueue DEF Inv, ClosedInv
  <2>2. Met = docs
    BY <2>1 DEF Met
  <2> QED BY <1>1, <1>2, <2>2 DEF Inv, ClosedInv, ClosedUnderRefs
<1>3. ASSUME status \in {"forbidden", "unreadable"}
      PROVE  \E u \in Reachable : Bad(u)
  BY <1>1, <1>3 DEF Inv, ClosedInv, Met
<1> QED BY <1>2, <1>3 DEF ClosureCompiled

(* runCompilation succeeds exactly with the documents reachable over $refs *)
(* compiled, and fails only for a reachable one that cannot be.            *)
THEOREM Closure == Spec => []ClosureCompiled
BY ClosureFollows, Invariance, PTL DEF Spec

LEMMA OnceFollows == Inv => LoadedOnce
BY DEF Inv, LoadInv

(* No document is loaded twice, over cycles and repeated $refs; the        *)
(* documents map of runCompilation.                                        *)
THEOREM LoadsOnce == Spec => []LoadedOnce
BY OnceFollows, Invariance, PTL DEF Spec

LEMMA LocalFollows == Inv => NoRemoteLoad
BY DEF Inv, LoadInv, Allowed, NoRemoteLoad

(* Without --allow-remote-refs nothing remote is ever asked for.           *)
THEOREM LoadsNothingRemote == Spec => []NoRemoteLoad
BY LocalFollows, Invariance, PTL DEF Spec

LEMMA OpensFollows == Inv /\ LocationsInv => RelativeToDocument
<1> SUFFICES ASSUME Inv, LocationsInv, world.rootDir = NoRoot, NEW u \in LocalDocs, NEW i \in RelativeRefs(u)
             PROVE  File(JoinedRefs(u)[i]).path = Walk(DirOf(File(u).path), RefsOf(u)[i].segs)
  BY DEF RelativeToDocument
<1>1. PICK r : r = RefsOf(u)[i]
  OBVIOUS
<1>2. Readable(u) /\ ~IsRemote(u) /\ u \in Met /\ i \in DOMAIN RefsOf(u) /\ ~IsRemote(r) /\ ~r.abs
  BY <1>1 DEF LocalDocs, RelativeRefs, Met
<1>3. world \in Worlds /\ u \in Locations /\ NamesFile(u)
  BY <1>2 DEF Inv, QueueInv, LocationsInv
<1>4. r \in Locations /\ JoinedRefs(u)[i] = ResolveURL(NoRoot, u, r)
  BY <1>1, <1>2, <1>3, RefParts
<1>5. r.segs \in Seq(STRING)
  BY <1>4, Parts
<1>6. ResolveURL(NoRoot, u, r) = FSPath(u.abs, Clean(u.abs, Dir(u.abs, u.segs) \o r.segs))
  BY <1>2 DEF ResolveURL, JoinPaths
<1> QED BY <1>1, <1>3, <1>4, <1>5, <1>6, JoinOpens DEF File

(* ResolveURL joins and cleans strings and never looks at the working      *)
(* directory; the file that is opened is the one the $ref names, walked to *)
(* segment by segment from the directory of its document.                  *)
THEOREM OpensRelative == Spec => []RelativeToDocument
BY OpensFollows, Invariance, InitLocations, NextLocations, PTL DEF Spec

LEMMA ConfinedFollows == Inv /\ LocationsInv => StaysUnderRoot
<1> SUFFICES ASSUME Inv, LocationsInv, world.rootDir # NoRoot, NEW u \in LocalDocs, NEW i \in RelativeRefs(u)
             PROVE  IsPrefix(File(world.rootDir).path, File(JoinedRefs(u)[i]).path)
  BY DEF StaysUnderRoot
<1>1. PICK r, t : r = RefsOf(u)[i] /\ t = world.rootDir
  OBVIOUS
<1>2. Readable(u) /\ ~IsRemote(u) /\ i \in DOMAIN RefsOf(u) /\ ~IsRemote(r) /\ ~r.abs
  BY <1>1 DEF LocalDocs, RelativeRefs
<1>3. world \in Worlds /\ t \in Locations /\ ~IsRemote(t)
  BY <1>1, CompilationAssumption DEF Inv, QueueInv
<1>4. r \in Locations /\ JoinedRefs(u)[i] = ResolveURL(t, u, r)
  BY <1>1, <1>2, <1>3, RefParts
<1>5. r.segs \in Seq(STRING)
  BY <1>4, Parts
<1>6. ResolveURL(t, u, r) = FSPath(t.abs, Clean(t.abs, t.segs \o Clean(TRUE, r.segs)))
  BY <1>1, <1>2 DEF ResolveURL, JoinPaths, UnderRoot
<1> QED BY <1>1, <1>3, <1>4, <1>5, <1>6, JoinStays DEF File

(* With a root directory no relative $ref leaves it, however many ".." it  *)
(* has, and however many the root directory's own path starts with.        *)
THEOREM Confined == Spec => []StaysUnderRoot
BY ConfinedFollows, Invariance, InitLocations, NextLocations, PTL DEF Spec

(* In a flat project, whatever chains and cycles its documents form, also  *)
(* when one file is compiled under two names, linking ends as the files    *)
(* say and every $ref gets the object of the file it means: resolvePromise *)
(* may look up what the $ref spells, for that is the document's key.       *)
THEOREM FlatLinks == PSpec => []FlatProjectLinks
<1>1. Inv /\ LocationsInv /\ LinkInv => FlatProjectLinks
  <2> SUFFICES ASSUME Inv, LocationsInv, LinkInv, outcome # "pending", Flat
               PROVE  AsMeant
    BY DEF FlatProjectLinks
  <2>1. Compiled
    BY WhenCompiled DEF LinkInv
  <2>2. PICK g : g = CompiledGraph /\ outcome = Links(g)!Verdict(g) /\ bound = BoundIn(g)
    BY DEF LinkInv
  <2>3. PICK h : h = MeantGraph
    OBVIOUS
  <2>4. PICK f : f = [a \in Arts(g) |-> <<File(a[1]), a[2]>>]
    OBVIOUS
  <2>5. FoldsOnto(f, g, h)
    BY <2>1, <2>2, <2>3, <2>4, FlatFolds
  <2>6. Known(g) /\ Known(h)
    BY <2>1, <2>2, <2>3, SpelledGraph, MeantParts
  <2>7. outcome = Links(h)!Verdict(h)
    BY <2>2, <2>5, <2>6, FoldedVerdict
  <2>8. ASSUME NEW b \in bound
        PROVE  Links(h)!Leads(h, <<File(b[1][1]), b[1][2]>>, <<File(b[2][1]), 0>>)
    <3>1. PICK p, o : p = b[1] /\ o = b[2]
      OBVIOUS
    <3>2. p \in DOMAIN g.loc /\ o \in ObjectsOf(g) /\ Links(g)!Leads(g, p, o)
      BY <2>2, <3>1 DEF BoundIn
    <3>3. p \in Arts(g) /\ o \in Arts(g) /\ o[2] = 0
      <4>1. \E d \in docs : o = <<d, 0>>
        BY <2>1, <2>2, <3>2, SpelledGraph
      <4> QED BY <3>2, <4>1 DEF Arts
    <3>4. f[p] = <<File(p[1]), p[2]>> /\ f[o] = <<File(o[1]), 0>>
      BY <2>4, <3>3
    <3>5. Links(h)!Leads(h, f[p], f[o])
      BY <2>5, <3>2, <3>3, FoldedLeads
    <3> QED BY <3>1, <3>4, <3>5
  <2> QED BY <2>3, <2>7, <2>8 DEF AsMeant
<1>2. PInit => LinkInv
  BY DEF PInit, LinkInv
<1> QED
  BY <1>1, <1>2, LinkKept, Composition, Invariance, InitLocations, NextLocations, PTL DEF PSpec

(* The theorems hold of compilation followed by linking, too.              *)
THEOREM Composed ==
  PSpec => [](/\ ClosureCompiled /\ LoadedOnce /\ NoRemoteLoad
              /\ RelativeToDocument /\ StaysUnderRoot)
<1>1. Inv /\ LocationsInv => /\ ClosureCompiled /\ LoadedOnce /\ NoRemoteLoad
                             /\ RelativeToDocument /\ StaysUnderRoot
  BY ClosureFollows, OnceFollows, LocalFollows, OpensFollows, ConfinedFollows
<1> QED
  BY <1>1, Composition, Invariance, InitLocations, NextLocations, PTL

-----------------------------------------------------------------------------
(* The subprocess locator: whatever order the exit of the command, the     *)
(* deadline and the end of its stdout come in, only whole answers are      *)
(* passed on, and no command is left behind.                               *)

(* No signal is sent and nothing cut off before the watcher interrupts.    *)
Untouched == signals = <<>> /\ ~cut

Whole == command = "succeeded" /\ Untouched

(* Until Wait meets the watcher.  A process that is reaped is not running. *)
BeforeInv ==
  /\ caller = "starting" => command = "none" /\ watcher = "none"
  /\ caller \in {"starting", "started", "writing", "waiting", "reaped"}
       => Untouched \/ watcher = "interrupted"
  /\ caller = "reaped" => ~Running /\ (err = "none" => command = "succeeded")

(* From then on nobody signals, and only the delay takes stdout away.      *)
AfterInv ==
  /\ caller = "awaiting pipes" => watcher = "ended" /\ ~Running /\ (err = "none" => Whole)
  /\ caller = "returned" => watcher \in {"none", "ended"} /\ ~Running
  /\ result = "answer" => caller = "returned" /\ Whole

CommandInv == BeforeInv /\ AfterInv

LEMMA InitCommandInv == CommandInit => CommandInv
BY DEF CommandInit, CommandInv, BeforeInv, AfterInv, Untouched, Running

LEMMA LocateInv == ASSUME CommandInv, Locate PROVE CommandInv'
<1> USE DEF CommandInv, BeforeInv, AfterInv, Untouched, Whole, Running
<1>1. CASE StartFails
  BY <1>1 DEF StartFails, inside, outside, waiting
<1>2. CASE Start
  BY <1>2 DEF Start
<1>3. CASE GrowBuffer
  BY <1>3 DEF GrowBuffer, outside, waiting
<1>4. CASE WriteLine
  BY <1>4 DEF WriteLine, outside, waiting
<1>5. CASE Reap
  BY <1>5 DEF Reap, inside, outside
<1>6. CASE MeetWatcher
  BY <1>6 DEF MeetWatcher, inside, outside
<1>7. CASE Return
  BY <1>7 DEF Return, inside, outside, waiting
<1> QED
  BY <1>1, <1>2, <1>3, <1>4, <1>5, <1>6, <1>7 DEF Locate

(* A signal comes from a watcher that Wait has not met, and a process that *)
(* has ended stays as it ended.                                            *)
LEMMA OthersInv ==
  ASSUME CommandInv, \/ Deadline \/ CopyStdin \/ KillCommand \/ DelayPasses
              \/ CommandEnds \/ ForkHolder \/ HolderEnds
  PROVE  CommandInv'
<1> USE DEF CommandInv, BeforeInv, AfterInv, Untouched, Whole, Running
<1>1. CASE Deadline
  BY <1>1 DEF Deadline, inside, outside, waiting
<1>2. CASE CopyStdin
  BY <1>2 DEF CopyStdin, outside, waiting
<1>3. CASE KillCommand
  BY <1>3 DEF KillCommand, inside, Reaped
<1>4. CASE DelayPasses
  BY <1>4 DEF DelayPasses, inside, outside
<1>5. CASE CommandEnds
  BY <1>5 DEF CommandEnds, inside, waiting
<1>6. CASE ForkHolder
  BY <1>6 DEF ForkHolder, inside, waiting
<1>7. CASE HolderEnds
  BY <1>7 DEF HolderEnds, inside, waiting
<1> QED
  BY <1>1, <1>2, <1>3, <1>4, <1>5, <1>6, <1>7

LEMMA NextCommandInv == CommandInv /\ [CommandNext]_commandVars => CommandInv'
<1> SUFFICES ASSUME CommandInv, [CommandNext]_commandVars PROVE CommandInv'
  OBVIOUS
<1>1. CASE UNCHANGED commandVars
  BY <1>1 DEF CommandInv, BeforeInv, AfterInv, Untouched, Whole, Running, commandVars, inside, outside, waiting
<1> QED
  BY <1>1, LocateInv, OthersInv DEF CommandNext

(* The inductive invariant holds in every state. *)
THEOREM CommandInvariance == CommandSpec => []CommandInv
BY InitCommandInv, NextCommandInv, PTL DEF CommandSpec

(* Locate passes on a document only when the command ended with success on *)
(* its own and all it wrote has been read, whatever the deadline meets.    *)
THEOREM WholeAnswers == CommandSpec => []AnswersAreWhole
<1>1. CommandInv => AnswersAreWhole
  BY DEF CommandInv, AfterInv, Whole, Untouched, AnswersAreWhole
<1> QED BY <1>1, CommandInvariance, PTL

(* No command runs any more when Locate has returned. *)
THEOREM NobodyLeftBehind == CommandSpec => []CommandIsGone
<1>1. CommandInv => CommandIsGone
  BY DEF CommandInv, AfterInv, CommandIsGone
<1> QED BY <1>1, CommandInvariance, PTL
=============================================================================
