--------------------------- MODULE DocumentProofs ---------------------------
(***************************************************************************)
(* What the walk over a document leaves in the storage of its artifacts,   *)
(* and how that agrees with what a builder knew while the walk was only    *)
(* at its object: pointers composed in two places, flags passed down.      *)
(* Then what linking makes of the references, which objects are selected   *)
(* and which generated names they declare and call; and that the accessors *)
(* of a correlation id, built step by step, fit together.                  *)
(***************************************************************************)
EXTENDS Accessors, FiniteSetTheorems, NaturalsInduction, WellFoundedInduction, TLAPS

-----------------------------------------------------------------------------
(* The inductive invariant of the walk *)

Tags == {"selectable", "data_model"}

(* Somewhere in the recursion there is a child yet to visit on the way to p. *)
Pending(p) ==
  \E i \in DOMAIN frames :
    /\ Len(p) >= i /\ p[i] \in ToSet(frames[i].left)
    /\ \A j \in 1 .. i - 1 : p[j] = stack[j].key

IsObject(p) == p # <<>> => HasCompile(p, Front(p))

FrameInv(i) ==
  /\ frames[i].at = SubSeq(Keys(stack), 1, i - 1)
  /\ IsInjective(frames[i].left)
  /\ ToSet(frames[i].left) \subseteq ToSet(doc[frames[i].at].keys)
  /\ i < Len(frames) => stack[i].key \notin ToSet(frames[i].left)

(* The stack of keys is the path to the object the recursion is in. *)
FramesInv ==
  /\ frames \in Seq([at : DOMAIN doc, left : Seq(STRING)])
  /\ stack \in Seq([key : STRING, flags : SUBSET Tags])
  /\ frames # <<>> => Len(frames) = Len(stack) + 1
  /\ frames = <<>> => stack = <<>>
  /\ \A i \in DOMAIN frames : FrameInv(i)

(* How a field is tagged that is no container itself. *)
SelectableAt(p) ==
  LET q == Front(p)
  IN IF doc[q].type \in Containers THEN "selectable" \in FieldTags(doc[Front(q)].type, Last(q))
                                   ELSE "selectable" \in FieldTags(doc[q].type, Last(p))

AreTags(p, flags) ==
  /\ "data_model" \in flags <=> InDataModel(p)
  /\ "selectable" \in flags <=> SelectableAt(p)

TagsInv == \A i \in DOMAIN stack : AreTags(SubSeq(Keys(stack), 1, i), stack[i].flags)

IsArtifact(a, p) ==
  \E flags \in SUBSET Tags : /\ a = Artifact(doc, p, p, flags)
                             /\ p # <<>> => AreTags(p, flags)

IsSequence(s) == s \in Seq({s[i] : i \in DOMAIN s})

Visited(p) == IsObject(p) /\ ~Pending(p)

(* What has been visited has its artifact, and one only. *)
ArtifactsInv ==
  /\ IsSequence(artifacts)
  /\ \A i \in DOMAIN artifacts : \E p \in DOMAIN doc : Visited(p) /\ IsArtifact(artifacts[i], p)
  /\ \A i, j \in DOMAIN artifacts : artifacts[i].ptr = artifacts[j].ptr => i = j
  /\ \A p \in DOMAIN doc : Visited(p) => \E i \in DOMAIN artifacts : artifacts[i].ptr = p

(* What has been visited has made its promises, and nothing else has.      *)
PromisesInv ==
  /\ \A p \in promises : \E q \in DOMAIN doc : p \in PromisesOf(doc, q, q)
  /\ \A q \in DOMAIN doc : Visited(q) => ~Refused(doc, q) /\ PromisesOf(doc, q, q) \subseteq promises

WalkInv == FramesInv /\ TagsInv /\ ArtifactsInv /\ PromisesInv

Inv ==
  /\ IsTree(doc) /\ IsTyped(doc) /\ IsPlaced(doc)
  /\ stage = "decoded" => stack = <<>> /\ artifacts = <<>> /\ promises = {}
  /\ stage \notin {"decoded", "refused"} => WalkInv
  /\ Compiled => frames = <<>>

-----------------------------------------------------------------------------
(* Sequences *)

LEMMA TailOfKeys ==
  ASSUME NEW S, NEW s \in Seq(S), s # <<>>, IsInjective(s)
  PROVE  /\ Head(s) \in ToSet(s) /\ Tail(s) \in Seq(S)
         /\ ToSet(Tail(s)) = ToSet(s) \ {Head(s)} /\ IsInjective(Tail(s))
<1>1. /\ Len(Tail(s)) = Len(s) - 1 /\ Tail(s) \in Seq(S) /\ Head(s) = s[1] /\ Len(s) \in Nat \ {0}
      /\ \A i \in 1 .. Len(s) - 1 : Tail(s)[i] = s[i + 1]
  OBVIOUS
<1>2. \A i, j \in 1 .. Len(s) : s[i] = s[j] => i = j
  BY DEF IsInjective
<1>3. IsInjective(Tail(s))
  BY <1>1, <1>2 DEF IsInjective
<1>4. ASSUME NEW x
      PROVE  x \in ToSet(Tail(s)) <=> x \in ToSet(s) /\ x # Head(s)
  <2>1. CASE x \in ToSet(Tail(s))
    <3>1. PICK i \in 1 .. Len(s) - 1 : x = s[i + 1]
      BY <1>1, <2>1 DEF ToSet
    <3> QED BY <1>1, <1>2, <2>1, <3>1 DEF ToSet
  <2>2. CASE x \in ToSet(s) /\ x # Head(s)
    <3>1. PICK i \in 1 .. Len(s) : x = s[i]
      BY <2>2 DEF ToSet
    <3>2. i # 1
      BY <1>1, <2>2, <3>1
    <3>3. PICK j \in 1 .. Len(s) - 1 : j = i - 1
      BY <1>1, <3>1, <3>2
    <3>4. x = Tail(s)[j] /\ j \in DOMAIN Tail(s)
      BY <1>1, <3>1, <3>3
    <3> QED BY <2>2, <3>4 DEF ToSet
  <2> QED BY <2>1, <2>2
<1>5. Head(s) \in ToSet(s)
  BY <1>1 DEF ToSet
<1> QED BY <1>1, <1>3, <1>4, <1>5

LEMMA Concatenated ==
  ASSUME NEW S, NEW s \in Seq(S), NEW t \in Seq(S)
  PROVE  /\ s \o t \in Seq(S) /\ Len(s) \in Nat /\ Len(s \o t) = Len(s) + Len(t)
         /\ \A i \in 1 .. Len(s) : (s \o t)[i] = s[i]
         /\ \A i \in 1 .. Len(t) : (s \o t)[Len(s) + i] = t[i]
<1>1. s \o t \in Seq(S)
  OBVIOUS
<1>2. Len(s) \in Nat /\ Len(t) \in Nat
  OBVIOUS
<1>3. Len(s \o t) = Len(s) + Len(t)
  OBVIOUS
<1>4. ASSUME NEW i \in 1 .. Len(s)
      PROVE  (s \o t)[i] = s[i]
  BY <1>4
<1>5. ASSUME NEW i \in 1 .. Len(t)
      PROVE  (s \o t)[Len(s) + i] = t[i]
  <2>1. Len(s) + i \in 1 .. Len(s) + Len(t)
    BY <1>2
  <2> QED BY <1>2, <2>1
<1> QED BY <1>1, <1>2, <1>3, <1>4, <1>5

LEMMA Elements ==
  ASSUME NEW S, NEW s \in Seq(S)
  PROVE  DOMAIN s = 1 .. Len(s) /\ Len(s) \in Nat /\ \A i \in 1 .. Len(s) : s[i] \in S
<1>1. DOMAIN s = 1 .. Len(s) /\ Len(s) \in Nat
  OBVIOUS
<1>2. \A i \in 1 .. Len(s) : s[i] \in S
  OBVIOUS
<1> QED BY <1>1, <1>2

LEMMA FrontParts ==
  ASSUME NEW S, NEW s \in Seq(S), s # <<>>
  PROVE  /\ Front(s) \in Seq(S) /\ Len(Front(s)) = Len(s) - 1 /\ Len(s) \in Nat \ {0}
         /\ \A i \in 1 .. Len(s) - 1 : Front(s)[i] = s[i]
         /\ Last(s) = s[Len(s)] /\ Last(s) \in S
<1>1. Len(s) \in Nat /\ Len(s) > 0 /\ \A i \in 1 .. Len(s) : s[i] \in S
  OBVIOUS
<1>2. PICK n \in Nat : Len(s) = n + 1
  <2>1. Len(s) - 1 \in Nat /\ Len(s) = (Len(s) - 1) + 1
    BY <1>1
  <2> QED BY <2>1
<1>3. PICK f : f = Front(s)
  OBVIOUS
<1>4. f \in Seq(S) /\ Len(f) = n /\ \A i \in 1 .. n : f[i] = s[i]
  BY <1>1, <1>2, <1>3 DEF Front
<1>5. Last(s) = s[n + 1] /\ s[n + 1] \in S
  BY <1>1, <1>2 DEF Last
<1> QED BY <1>1, <1>2, <1>3, <1>4, <1>5

LEMMA OneMore ==
  ASSUME NEW S, NEW s \in Seq(S), NEW x \in S
  PROVE  \E t \in Seq(S) :
           /\ t = s \o <<x>> /\ t = Append(s, x) /\ Len(t) = Len(s) + 1 /\ Len(s) \in Nat
           /\ t[Len(s) + 1] = x /\ \A i \in 1 .. Len(s) : t[i] = s[i]
<1>1. PICK g : g = <<x>>
  OBVIOUS
<1>2. g \in Seq(S) /\ Len(g) = 1 /\ g[1] = x
  BY <1>1
<1>3. PICK t : t = s \o g
  OBVIOUS
<1>4. /\ t \in Seq(S) /\ Len(t) = Len(s) + 1 /\ Len(s) \in Nat
      /\ t[Len(s) + 1] = x /\ \A i \in 1 .. Len(s) : t[i] = s[i]
  <2>1. /\ t \in Seq(S) /\ Len(t) = Len(s) + Len(g) /\ Len(s) \in Nat
        /\ \A i \in 1 .. Len(s) : t[i] = s[i]
        /\ \A i \in 1 .. Len(g) : t[Len(s) + i] = g[i]
    <3>1. s \o g \in Seq(S) /\ Len(s) \in Nat
      BY <1>2, Concatenated
    <3>2. Len(s \o g) = Len(s) + Len(g)
      BY <1>2, Concatenated
    <3>3. \A i \in 1 .. Len(s) : (s \o g)[i] = s[i]
      BY <1>2, Concatenated
    <3>4. \A i \in 1 .. Len(g) : (s \o g)[Len(s) + i] = g[i]
      <4>1. g \in Seq(S)
        BY <1>2
      <4> QED BY <4>1, Concatenated
    <3> QED BY <1>3, <3>1, <3>2, <3>3, <3>4
  <2>2. 1 \in 1 .. Len(g)
    BY <1>2
  <2> QED BY <1>2, <2>1, <2>2
<1>5. t = Append(s, x)
  <2>1. PICK a : a = Append(s, x)
    OBVIOUS
  <2>2. /\ a \in Seq(S) /\ Len(a) = Len(s) + 1
        /\ a[Len(s) + 1] = x /\ \A i \in 1 .. Len(s) : a[i] = s[i]
    BY <2>1
  <2> QED BY <1>4, <2>1, <2>2
<1> QED BY <1>1, <1>3, <1>4, <1>5

LEMMA SameSequence ==
  ASSUME NEW S, NEW s \in Seq(S), NEW t \in Seq(S), Len(s) = Len(t),
         \A i \in 1 .. Len(s) : s[i] = t[i]
  PROVE  s = t
OBVIOUS

(* Where the child of an object is.                                        *)
IsChild(c, p, k) ==
  /\ Len(c) = Len(p) + 1 /\ Len(p) \in Nat /\ c # <<>>
  /\ c[Len(c)] = k /\ Last(c) = k /\ Front(c) = p
  /\ \A i \in 1 .. Len(p) : c[i] = p[i]

LEMMA ChildParts ==
  ASSUME NEW S, NEW p \in Seq(S), NEW k \in S
  PROVE  p \o <<k>> \in Seq(S) /\ IsChild(p \o <<k>>, p, k)
<1>1. PICK c \in Seq(S) :
        /\ c = p \o <<k>> /\ c = Append(p, k) /\ Len(c) = Len(p) + 1 /\ Len(p) \in Nat
        /\ c[Len(p) + 1] = k /\ \A i \in 1 .. Len(p) : c[i] = p[i]
  BY OneMore, Zenon
<1>2. c # <<>>
  BY <1>1
<1>3. PICK f \in Seq(S) : f = Front(c) /\ Len(f) = Len(c) - 1 /\ \A i \in 1 .. Len(c) - 1 : f[i] = c[i]
  BY <1>2, FrontParts
<1>4. f = p
  BY <1>1, <1>3, SameSequence
<1>5. Last(c) = c[Len(c)]
  BY DEF Last
<1>6. IsChild(c, p, k)
  BY <1>1, <1>2, <1>3, <1>4, <1>5 DEF IsChild
<1> QED BY <1>1, <1>6

EndsWithTwo(t, s, a, b) ==
  /\ Len(t) = Len(s) + 1 /\ t[Len(s)] = a /\ t[Len(s) + 1] = b
  /\ \A i \in 1 .. Len(s) - 1 : t[i] = s[i]

LEMMA FrontAndTwo ==
  ASSUME NEW S, NEW s \in Seq(S), s # <<>>, NEW a \in S, NEW b \in S
  PROVE  Front(s) \o <<a, b>> \in Seq(S) /\ EndsWithTwo(Front(s) \o <<a, b>>, s, a, b)
<1>1. PICK f \in Seq(S) : /\ f = Front(s) /\ Len(f) = Len(s) - 1 /\ Len(s) \in Nat \ {0}
                          /\ \A i \in 1 .. Len(s) - 1 : f[i] = s[i]
  BY FrontParts
<1>2. PICK g : g = <<a, b>>
  OBVIOUS
<1>3. g \in Seq(S) /\ Len(g) = 2 /\ g[1] = a /\ g[2] = b
  BY <1>2
<1>4. PICK n \in Nat : Len(f) = n /\ Len(s) = n + 1
  BY <1>1
<1>5. PICK t : t = f \o g
  OBVIOUS
<1>6. /\ t \in Seq(S) /\ Len(t) = n + 2 /\ t[n + 1] = a /\ t[n + 2] = b
      /\ \A i \in 1 .. n : t[i] = f[i]
  <2>1. /\ t \in Seq(S) /\ Len(t) = Len(f) + Len(g)
        /\ \A i \in 1 .. Len(f) : t[i] = f[i]
        /\ \A i \in 1 .. Len(g) : t[Len(f) + i] = g[i]
    <3>1. f \o g \in Seq(S) /\ Len(f) \in Nat
      BY <1>1, <1>3, Concatenated
    <3>2. Len(f \o g) = Len(f) + Len(g)
      BY <1>1, <1>3, Concatenated
    <3>3. \A i \in 1 .. Len(f) : (f \o g)[i] = f[i]
      BY <1>1, <1>3, Concatenated
    <3>4. \A i \in 1 .. Len(g) : (f \o g)[Len(f) + i] = g[i]
      <4>1. g \in Seq(S)
        BY <1>3
      <4> QED BY <4>1, Concatenated
    <3> QED BY <1>5, <3>1, <3>2, <3>3, <3>4
  <2>2. 1 \in 1 .. Len(g) /\ 2 \in 1 .. Len(g)
    BY <1>3
  <2>3. Len(f) + 1 = n + 1 /\ Len(f) + 2 = n + 2 /\ Len(t) = n + 2
    BY <1>3, <1>4, <2>1
  <2>4. t[n + 1] = a /\ t[n + 2] = b
    BY <1>3, <2>1, <2>2, <2>3
  <2> QED BY <1>4, <2>1, <2>3, <2>4
<1>7. t[Len(s)] = a /\ t[Len(s) + 1] = b /\ Len(t) = Len(s) + 1
  BY <1>4, <1>6
<1>8. \A i \in 1 .. Len(s) - 1 : t[i] = s[i]
  BY <1>1, <1>4, <1>6
<1>9. t = Front(s) \o <<a, b>> /\ t \in Seq(S)
  BY <1>1, <1>2, <1>5, <1>6
<1> QED BY <1>7, <1>8, <1>9 DEF EndsWithTwo

LEMMA KeysParts ==
  ASSUME NEW s \in Seq([key : STRING, flags : SUBSET Tags])
  PROVE  /\ Keys(s) \in Seq(STRING) /\ Len(Keys(s)) = Len(s) /\ Len(s) \in Nat
         /\ \A i \in 1 .. Len(s) : Keys(s)[i] = s[i].key
<1>1. PICK R : R = [key : STRING, flags : SUBSET Tags]
  OBVIOUS
<1>2. DOMAIN s = 1 .. Len(s) /\ Len(s) \in Nat /\ \A i \in 1 .. Len(s) : s[i] \in R
  BY <1>1, Elements
<1>3. \A r \in R : r.key \in STRING
  BY <1>1
<1>4. PICK t : t = [i \in 1 .. Len(s) |-> s[i].key]
  OBVIOUS
<1>5. t \in Seq(STRING) /\ Len(t) = Len(s)
  BY <1>2, <1>3, <1>4
<1> QED BY <1>2, <1>4, <1>5 DEF Keys

-----------------------------------------------------------------------------
(* Going down and up *)

LEMMA HereParts ==
  ASSUME IsTree(doc), FramesInv, frames # <<>>
  PROVE  /\ Len(frames) \in Nat \ {0} /\ Len(stack) = Len(frames) - 1
         /\ Here = frames[Len(frames)]
         /\ Parent = Keys(stack) /\ Parent \in DOMAIN doc /\ Parent \in Seq(STRING)
         /\ Len(Parent) = Len(stack) /\ \A j \in 1 .. Len(stack) : Parent[j] = stack[j].key
         /\ Here.left \in Seq(STRING) /\ IsInjective(Here.left)
         /\ ToSet(Here.left) \subseteq ToSet(doc[Parent].keys)
<1>1. /\ Len(frames) \in Nat \ {0} /\ Len(stack) = Len(frames) - 1 /\ Here = frames[Len(frames)]
      /\ Here \in [at : DOMAIN doc, left : Seq(STRING)] /\ Len(frames) \in DOMAIN frames
      /\ stack \in Seq([key : STRING, flags : SUBSET Tags])
  <2>1. PICK S : frames \in Seq(S) /\ S = [at : DOMAIN doc, left : Seq(STRING)]
    BY DEF FramesInv
  <2>2. /\ Len(frames) \in Nat \ {0} /\ Len(frames) \in DOMAIN frames
        /\ frames[Len(frames)] \in S
    <3>1. DOMAIN frames = 1 .. Len(frames) /\ Len(frames) \in Nat /\ \A i \in 1 .. Len(frames) : frames[i] \in S
      BY <2>1, Elements
    <3>2. Len(frames) # 0
      BY <2>1
    <3> QED BY <3>1, <3>2
  <2> QED BY <2>1, <2>2 DEF FramesInv, Here, Last
<1>2. FrameInv(Len(frames))
  BY <1>1 DEF FramesInv
<1>3. SubSeq(Keys(stack), 1, Len(frames) - 1) = Keys(stack)
  <2>1. PICK s \in Seq(STRING) : s = Keys(stack) /\ Len(s) = Len(frames) - 1
    BY <1>1, KeysParts
  <2>2. SubSeq(s, 1, Len(s)) = s
    OBVIOUS
  <2> QED BY <2>1, <2>2
<1>4. Parent = Keys(stack) /\ Parent \in DOMAIN doc
  BY <1>1, <1>2, <1>3 DEF FrameInv, Parent
<1> QED
  BY <1>1, <1>2, <1>4, KeysParts DEF FrameInv, Parent, IsTree

LEMMA KeyParts ==
  ASSUME IsTree(doc), FramesInv, Visiting
  PROVE  /\ frames # <<>> /\ Key \in ToSet(Here.left) /\ Key \in STRING
         /\ Tail(Here.left) \in Seq(STRING) /\ IsInjective(Tail(Here.left))
         /\ ToSet(Tail(Here.left)) = ToSet(Here.left) \ {Key}
         /\ Child \in DOMAIN doc /\ Child \in Seq(STRING) /\ Child # <<>>
         /\ Front(Child) = Parent /\ Last(Child) = Key
         /\ Len(Child) = Len(frames) /\ Child[Len(frames)] = Key
         /\ \A j \in 1 .. Len(frames) - 1 : Child[j] = stack[j].key
<1>1. /\ Len(frames) \in Nat \ {0} /\ Len(stack) = Len(frames) - 1
      /\ Parent \in DOMAIN doc /\ Parent \in Seq(STRING)
      /\ Len(Parent) = Len(stack) /\ \A j \in 1 .. Len(stack) : Parent[j] = stack[j].key
  BY HereParts DEF Visiting
<1>2. /\ Here.left \in Seq(STRING) /\ IsInjective(Here.left)
      /\ ToSet(Here.left) \subseteq ToSet(doc[Parent].keys) /\ Here.left # <<>> /\ frames # <<>>
  BY HereParts DEF Visiting
<1>3. /\ Key \in ToSet(Here.left) /\ Tail(Here.left) \in Seq(STRING)
      /\ ToSet(Tail(Here.left)) = ToSet(Here.left) \ {Key} /\ IsInjective(Tail(Here.left))
  BY <1>2, TailOfKeys DEF Key
<1>4. Key \in STRING
  <2>1. PICK S : S = STRING
    OBVIOUS
  <2>2. PICK s \in Seq(S) : s = Here.left /\ s # <<>>
    BY <1>2, <2>1
  <2> QED BY <2>1, <2>2 DEF Key
<1>5. PICK c \in Seq(STRING) :
        /\ c = Parent \o <<Key>> /\ Len(c) = Len(Parent) + 1 /\ c # <<>>
        /\ c[Len(c)] = Key /\ Last(c) = Key /\ Front(c) = Parent
        /\ \A i \in 1 .. Len(Parent) : c[i] = Parent[i]
  <2>1. PICK S : S = STRING
    OBVIOUS
  <2>2. PICK p \in Seq(S), k \in S : p = Parent /\ k = Key
    BY <1>1, <1>4, <2>1
  <2>3. p \o <<k>> \in Seq(S) /\ IsChild(p \o <<k>>, p, k)
    BY ChildParts
  <2> QED BY <2>1, <2>2, <2>3 DEF IsChild
<1>6. c = Child
  BY <1>5 DEF Child
<1>7. Child \in DOMAIN doc
  BY <1>1, <1>2, <1>3 DEF IsTree, Child
<1>8. /\ Child \in Seq(STRING) /\ Child # <<>> /\ Front(Child) = Parent /\ Last(Child) = Key
      /\ Len(Child) = Len(frames) /\ Child[Len(frames)] = Key
  <2>1. Len(c) = Len(frames)
    BY <1>1, <1>5
  <2> QED BY <1>5, <1>6, <2>1
<1>9. \A j \in 1 .. Len(frames) - 1 : Child[j] = stack[j].key
  BY <1>1, <1>5, <1>6
<1> QED
  BY <1>2, <1>3, <1>4, <1>7, <1>8, <1>9

(* What a step down changes. *)
LEMMA StepDown ==
  ASSUME IsTree(doc), FramesInv, Visiting, Push, Descend
  PROVE  LET n == Len(frames)
         IN /\ stack' \in Seq([key : STRING, flags : SUBSET Tags]) /\ Len(stack') = n
            /\ stack'[n] = [key |-> Key, flags |-> FlagsOf(doc[Parent].type, Key)]
            /\ \A i \in 1 .. n - 1 : stack'[i] = stack[i]
            /\ frames' \in Seq([at : DOMAIN doc, left : Seq(STRING)]) /\ Len(frames') = n + 1
            /\ frames'[n].at = Parent /\ frames'[n].left = Tail(Here.left)
            /\ frames'[n + 1] = Frame(Child)
            /\ \A i \in 1 .. n - 1 : frames'[i] = frames[i]
<1>1. PICK R, F : R = [key : STRING, flags : SUBSET Tags] /\ F = [at : DOMAIN doc, left : Seq(STRING)]
  OBVIOUS
<1>2. PICK n \in Nat \ {0} : n = Len(frames) /\ Len(stack) = n - 1
  BY HereParts DEF Visiting
<1>3. PICK r : r = [key |-> Key, flags |-> FlagsOf(doc[Parent].type, Key)]
  OBVIOUS
<1>4. Key \in STRING /\ Child \in DOMAIN doc /\ Tail(Here.left) \in Seq(STRING)
  BY KeyParts
<1>5. TopFlags \subseteq Tags
  <2>1. CASE stack = <<>>
    BY <2>1 DEF TopFlags
  <2>2. CASE stack # <<>>
    <3>1. Last(stack) \in R
      BY <1>1, <2>2, FrontParts DEF FramesInv
    <3> QED BY <1>1, <2>2, <3>1 DEF TopFlags
  <2> QED BY <2>1, <2>2
<1>6. \A t, k : FieldTags(t, k) \subseteq Tags
  BY DEF FieldTags, Tags
<1>7. r \in R
  BY <1>1, <1>3, <1>4, <1>5, <1>6 DEF FlagsOf
<1>8. PICK s \in Seq(R) : /\ s = stack' /\ Len(s) = Len(stack) + 1 /\ s[Len(stack) + 1] = r
                         /\ \A i \in 1 .. Len(stack) : s[i] = stack[i]
  <2>1. stack \in Seq(R)
    BY <1>1 DEF FramesInv
  <2>2. stack' = Append(stack, r)
    BY <1>3 DEF Push
  <2> QED BY <1>7, <2>1, <2>2, OneMore
<1>9. PICK a : a = [Here EXCEPT !.left = Tail(@)]
  OBVIOUS
<1>10. Here \in F
  <2>1. frames # <<>> /\ frames \in Seq(F)
    BY <1>1 DEF FramesInv, Visiting
  <2> QED BY <2>1, FrontParts DEF Here
<1>11. a \in F /\ a.at = Parent /\ a.left = Tail(Here.left)
  BY <1>1, <1>4, <1>9, <1>10 DEF Parent
<1>12. Frame(Child) \in F
  BY <1>1, <1>4 DEF Frame, IsTree
<1>13. PICK t \in Seq(F) :
         /\ t = frames' /\ Len(t) = Len(frames) + 1
         /\ t[Len(frames)] = a /\ t[Len(frames) + 1] = Frame(Child)
         /\ \A i \in 1 .. Len(frames) - 1 : t[i] = frames[i]
  <2>1. frames # <<>> /\ frames \in Seq(F)
    BY <1>1 DEF FramesInv, Visiting
  <2>2. PICK b \in F : b = Frame(Child)
    BY <1>12
  <2>3. frames' = Front(frames) \o <<a, b>>
    BY <1>9, <2>2 DEF Descend
  <2>4. PICK old \in Seq(F) : old = frames /\ old # <<>>
    BY <2>1
  <2>5. a \in F
    BY <1>11
  <2>6. Front(old) \o <<a, b>> \in Seq(F) /\ EndsWithTwo(Front(old) \o <<a, b>>, old, a, b)
    BY <2>4, <2>5, FrontAndTwo
  <2>7. PICK t : t = Front(old) \o <<a, b>>
    OBVIOUS
  <2>8. t \in Seq(F) /\ EndsWithTwo(t, old, a, b)
    BY <2>6, <2>7
  <2> QED BY <2>2, <2>3, <2>4, <2>7, <2>8 DEF EndsWithTwo
<1>14. stack' \in Seq(R) /\ Len(stack') = n /\ stack'[n] = r /\ \A i \in 1 .. n - 1 : stack'[i] = stack[i]
  BY <1>2, <1>8
<1>15. /\ frames' \in Seq(F) /\ Len(frames') = n + 1
       /\ frames'[n].at = Parent /\ frames'[n].left = Tail(Here.left)
       /\ frames'[n + 1] = Frame(Child)
       /\ \A i \in 1 .. n - 1 : frames'[i] = frames[i]
  BY <1>2, <1>11, <1>13
<1> QED BY <1>1, <1>2, <1>3, <1>14, <1>15

LEMMA PathParts ==
  ASSUME NEW s \in Seq([key : STRING, flags : SUBSET Tags]), NEW i \in 0 .. Len(s)
  PROVE  /\ SubSeq(Keys(s), 1, i) \in Seq(STRING) /\ Len(SubSeq(Keys(s), 1, i)) = i
         /\ \A j \in 1 .. i : SubSeq(Keys(s), 1, i)[j] = s[j].key
<1>1. PICK k \in Seq(STRING) : /\ k = Keys(s) /\ Len(k) = Len(s) /\ Len(s) \in Nat
                               /\ \A j \in 1 .. Len(s) : k[j] = s[j].key
  BY KeysParts
<1>2. PICK t : t = SubSeq(k, 1, i)
  OBVIOUS
<1>3. t \in Seq(STRING) /\ Len(t) = i /\ \A j \in 1 .. i : t[j] = k[j]
  BY <1>1, <1>2
<1> QED BY <1>1, <1>2, <1>3

LEMMA SamePath ==
  ASSUME NEW s \in Seq([key : STRING, flags : SUBSET Tags]), NEW p \in Seq(STRING),
         NEW i \in 0 .. Len(s), Len(p) = i, \A j \in 1 .. i : p[j] = s[j].key
  PROVE  p = SubSeq(Keys(s), 1, i)
<1>1. PICK t : t = SubSeq(Keys(s), 1, i)
  OBVIOUS
<1>2. t \in Seq(STRING) /\ Len(t) = i /\ \A j \in 1 .. i : t[j] = s[j].key
  BY <1>1, PathParts
<1>3. \A j \in 1 .. Len(p) : p[j] = t[j]
  BY <1>2
<1>4. PICK S : S = STRING
  OBVIOUS
<1>5. p \in Seq(S) /\ t \in Seq(S)
  BY <1>2, <1>4
<1>6. p = t
  BY <1>2, <1>3, <1>5, SameSequence
<1> QED BY <1>1, <1>6

LEMMA SamePrefix ==
  ASSUME NEW s \in Seq([key : STRING, flags : SUBSET Tags]),
         NEW t \in Seq([key : STRING, flags : SUBSET Tags]),
         NEW i \in 0 .. Len(s), i \in 0 .. Len(t), \A j \in 1 .. i : t[j] = s[j]
  PROVE  SubSeq(Keys(t), 1, i) = SubSeq(Keys(s), 1, i)
<1>1. PICK p : p = SubSeq(Keys(t), 1, i)
  OBVIOUS
<1>2. p \in Seq(STRING) /\ Len(p) = i /\ \A j \in 1 .. i : p[j] = t[j].key
  BY <1>1, PathParts
<1>3. \A j \in 1 .. i : p[j] = s[j].key
  BY <1>2
<1> QED BY <1>1, <1>2, <1>3, SamePath

LEMMA DownFrames ==
  ASSUME IsTree(doc), FramesInv, Visiting, Push, Descend, UNCHANGED input
  PROVE  FramesInv' /\ Keys(stack') = Child
<1>1. PICK n \in Nat \ {0} : n = Len(frames) /\ Len(stack) = n - 1
  BY HereParts DEF Visiting
<1>2. /\ stack' \in Seq([key : STRING, flags : SUBSET Tags]) /\ Len(stack') = n
      /\ stack'[n].key = Key
      /\ \A i \in 1 .. n - 1 : stack'[i] = stack[i]
  <2>1. /\ stack' \in Seq([key : STRING, flags : SUBSET Tags]) /\ Len(stack') = n
        /\ \A i \in 1 .. n - 1 : stack'[i] = stack[i]
    BY <1>1, StepDown
  <2>2. PICK f : f = FlagsOf(doc[Parent].type, Key)
    OBVIOUS
  <2>3. stack'[n] = [key |-> Key, flags |-> f]
    BY <1>1, <2>2, StepDown
  <2> QED BY <2>1, <2>3
<1>3. /\ frames' \in Seq([at : DOMAIN doc, left : Seq(STRING)]) /\ Len(frames') = n + 1
      /\ frames'[n].at = Parent /\ frames'[n].left = Tail(Here.left)
      /\ frames'[n + 1] = Frame(Child)
      /\ \A i \in 1 .. n - 1 : frames'[i] = frames[i]
  BY <1>1, StepDown
<1>4. doc' = doc
  BY DEF doc
<1>5. /\ Child \in DOMAIN doc /\ Child \in Seq(STRING) /\ Len(Child) = n /\ Child[n] = Key
      /\ \A j \in 1 .. n - 1 : Child[j] = stack[j].key
      /\ Tail(Here.left) \in Seq(STRING) /\ IsInjective(Tail(Here.left)) /\ Key \notin ToSet(Tail(Here.left))
      /\ ToSet(Tail(Here.left)) \subseteq ToSet(Here.left)
  BY <1>1, KeyParts
<1>6. /\ Parent \in Seq(STRING) /\ Len(Parent) = n - 1 /\ \A j \in 1 .. n - 1 : Parent[j] = stack[j].key
      /\ ToSet(Here.left) \subseteq ToSet(doc[Parent].keys)
  BY <1>1, HereParts DEF Visiting
<1>7. Keys(stack') = Child
  <2>1. \A j \in 1 .. n : Child[j] = stack'[j].key
    BY <1>2, <1>5
  <2>2. PICK k \in Seq(STRING) : /\ k = Keys(stack') /\ Len(k) = n
                                 /\ \A j \in 1 .. n : k[j] = stack'[j].key
    BY <1>2, KeysParts
  <2>3. PICK S : S = STRING
    OBVIOUS
  <2>4. Child = k
    <3>1. k \in Seq(S) /\ Child \in Seq(S) /\ Len(k) = Len(Child) /\ \A j \in 1 .. Len(k) : k[j] = Child[j]
      BY <1>5, <2>1, <2>2, <2>3
    <3> QED BY <3>1, SameSequence
  <2> QED BY <2>2, <2>4
<1>8. ASSUME NEW i \in 1 .. n + 1
      PROVE  FrameInv(i)'
  <2>1. CASE i < n
    <3>1. i \in 1 .. n - 1 /\ i \in DOMAIN frames
      BY <1>1, <2>1, Elements DEF FramesInv
    <3>2. FrameInv(i)
      BY <3>1 DEF FramesInv
    <3>3. SubSeq(Keys(stack'), 1, i - 1) = SubSeq(Keys(stack), 1, i - 1)
      <4>1. PICK k \in 0 .. n - 1 : k = i - 1
        BY <3>1
      <4>2. k \in 0 .. Len(stack) /\ k \in 0 .. Len(stack')
        BY <1>1, <1>2, <4>1
      <4>3. \A j \in 1 .. k : stack'[j] = stack[j]
        BY <1>2, <4>1
      <4> QED BY <1>2, <4>1, <4>2, <4>3, SamePrefix DEF FramesInv
    <3> QED BY <1>1, <1>2, <1>3, <1>4, <3>1, <3>2, <3>3, <2>1 DEF FrameInv
  <2>2. CASE i = n
    <3>1. PICK k \in 0 .. n : k = n - 1
      BY <1>1
    <3>2. Parent = SubSeq(Keys(stack'), 1, k)
      <4>1. \A j \in 1 .. k : Parent[j] = stack'[j].key
        BY <1>2, <1>6, <3>1
      <4> QED BY <1>2, <1>6, <3>1, <4>1, SamePath
    <3>3. ToSet(Tail(Here.left)) \subseteq ToSet(doc[Parent].keys)
      BY <1>5, <1>6
    <3> QED BY <1>2, <1>3, <1>4, <1>5, <2>2, <3>1, <3>2, <3>3 DEF FrameInv
  <2>3. CASE i = n + 1
    <3>1. Child = SubSeq(Keys(stack'), 1, n)
      <4>1. \A j \in 1 .. n : Child[j] = stack'[j].key
        BY <1>2, <1>5
      <4>2. n \in 0 .. Len(stack')
        BY <1>2
      <4> QED BY <1>2, <1>5, <4>1, <4>2, SamePath
    <3>2. /\ frames'[n + 1].at = Child /\ frames'[n + 1].left = doc[Child].keys
          /\ IsInjective(doc[Child].keys)
      BY <1>3, <1>5 DEF Frame, IsTree
    <3>3. i - 1 = n /\ ~(i < Len(frames'))
      BY <1>3, <2>3
    <3>4. frames'[i].at = SubSeq(Keys(stack'), 1, i - 1)
      BY <2>3, <3>1, <3>2, <3>3
    <3> QED BY <1>4, <2>3, <3>2, <3>3, <3>4 DEF FrameInv
  <2> QED BY <1>1, <2>1, <2>2, <2>3
<1>9. DOMAIN frames' = 1 .. n + 1 /\ frames' # <<>>
  BY <1>3, Elements
<1> QED
  BY <1>2, <1>3, <1>4, <1>7, <1>8, <1>9 DEF FramesInv

LEMMA ChildPending ==
  ASSUME IsTree(doc), FramesInv, Visiting
  PROVE  Pending(Child)
<1>1. PICK n \in Nat \ {0} : n = Len(frames) /\ DOMAIN frames = 1 .. n /\ Here = frames[n]
  BY HereParts, Elements DEF Visiting, FramesInv
<1>2. /\ Len(Child) = n /\ Child[n] = Key /\ Key \in ToSet(Here.left)
      /\ \A j \in 1 .. n - 1 : Child[j] = stack[j].key
  BY <1>1, KeyParts
<1> QED BY <1>1, <1>2 DEF Pending

(* Visiting a child is all that a step down does to what is pending.       *)
LEMMA DownPending ==
  ASSUME IsTree(doc), FramesInv, Visiting, Push, Descend, NEW p \in DOMAIN doc
  PROVE  Pending(p)' <=> Pending(p) /\ p # Child
<1>1. PICK n \in Nat \ {0} : n = Len(frames) /\ Len(stack) = n - 1 /\ DOMAIN frames = 1 .. n
  BY HereParts, Elements DEF Visiting, FramesInv
<1>2. \A j \in 1 .. n - 1 : stack'[j] = stack[j]
  BY <1>1, StepDown
<1>3. stack'[n].key = Key
  <2>1. PICK f : f = FlagsOf(doc[Parent].type, Key)
    OBVIOUS
  <2>2. stack'[n] = [key |-> Key, flags |-> f]
    BY <1>1, <2>1, StepDown
  <2> QED BY <2>2
<1>4. /\ frames'[n].left = Tail(Here.left) /\ frames'[n + 1].left = doc[Child].keys
      /\ \A i \in 1 .. n - 1 : frames'[i] = frames[i]
  <2>1. PICK f : f = Frame(Child)
    OBVIOUS
  <2>2. /\ frames'[n].left = Tail(Here.left) /\ frames'[n + 1] = f
        /\ \A i \in 1 .. n - 1 : frames'[i] = frames[i]
    BY <1>1, <2>1, StepDown
  <2>3. f.left = doc[Child].keys
    BY <2>1 DEF Frame
  <2> QED BY <2>2, <2>3
<1>5. DOMAIN frames' = 1 .. n + 1
  BY <1>1, StepDown, Elements
<1>6. /\ Child \in Seq(STRING) /\ Len(Child) = n /\ Child[n] = Key
      /\ \A j \in 1 .. n - 1 : Child[j] = stack[j].key
      /\ ToSet(Tail(Here.left)) = ToSet(Here.left) \ {Key} /\ Key \in ToSet(Here.left)
  BY <1>1, KeyParts
<1>7. Here = frames[n]
  BY <1>1, HereParts DEF Visiting
<1>8. p \in Seq(STRING) /\ Len(p) \in Nat
  BY DEF IsTree
<1>9. ASSUME Pending(p), p # Child
      PROVE  Pending(p)'
  <2>1. PICK i \in 1 .. n : /\ Len(p) >= i /\ p[i] \in ToSet(frames[i].left)
                            /\ \A j \in 1 .. i - 1 : p[j] = stack[j].key
    BY <1>1, <1>9 DEF Pending
  <2>2. \A j \in 1 .. i - 1 : p[j] = stack'[j].key
    BY <1>2, <2>1
  <2>3. CASE i < n
    BY <1>4, <1>5, <2>1, <2>2, <2>3 DEF Pending
  <2>4. CASE i = n /\ p[n] # Key
    BY <1>4, <1>5, <1>6, <1>7, <2>1, <2>2, <2>4 DEF Pending
  <2>5. CASE i = n /\ p[n] = Key
    <3>1. \A j \in 1 .. n : p[j] = Child[j]
      BY <1>6, <2>1, <2>5
    <3>2. Len(p) # n
      <4>1. PICK S : S = STRING
        OBVIOUS
      <4>2. p \in Seq(S) /\ Child \in Seq(S)
        BY <1>6, <1>8, <4>1
      <4> QED BY <1>6, <1>9, <3>1, <4>2, SameSequence
    <3>3. n + 1 \in 1 .. Len(p) /\ (n + 1) - 1 = n
      BY <1>8, <2>1, <2>5, <3>2
    <3>4. SubSeq(p, 1, n) = Child
      <4>1. PICK t : t = SubSeq(p, 1, n)
        OBVIOUS
      <4>2. PICK S : S = STRING
        OBVIOUS
      <4>3. p \in Seq(S)
        BY <1>8, <4>2
      <4>4. t \in Seq(S) /\ Len(t) = n /\ \A j \in 1 .. n : t[j] = p[j]
        BY <3>3, <4>1, <4>3
      <4> QED BY <1>6, <3>1, <4>1, <4>2, <4>4, SameSequence
    <3>5. p[n + 1] \in ToSet(doc[Child].keys)
      BY <3>3, <3>4 DEF IsTree, Has
    <3>6. \A j \in 1 .. n : p[j] = stack'[j].key
      BY <1>3, <2>2, <2>5
    <3> QED BY <1>4, <1>5, <3>3, <3>5, <3>6 DEF Pending
  <2> QED BY <2>3, <2>4, <2>5
<1>10. ASSUME Pending(p)'
       PROVE  Pending(p) /\ p # Child
  <2>1. PICK i \in 1 .. n + 1 : /\ Len(p) >= i /\ p[i] \in ToSet(frames'[i].left)
                                /\ \A j \in 1 .. i - 1 : p[j] = stack'[j].key
    BY <1>5, <1>10 DEF Pending
  <2>2. CASE i < n
    <3>1. FrameInv(i)
      <4>1. i \in DOMAIN frames
        BY <1>1, <2>1, <2>2
      <4> QED BY <4>1 DEF FramesInv
    <3>2. p[i] \in ToSet(frames[i].left)
      BY <1>1, <1>4, <2>1, <2>2
    <3>3. Child[i] \notin ToSet(frames[i].left)
      <4>1. Child[i] = stack[i].key
        BY <1>6, <2>1, <2>2
      <4> QED BY <1>1, <2>2, <3>1, <4>1 DEF FrameInv
    <3>4. \A j \in 1 .. i - 1 : p[j] = stack[j].key
      BY <1>2, <2>1, <2>2
    <3>5. Pending(p)
      BY <1>1, <2>1, <2>2, <3>2, <3>4 DEF Pending
    <3> QED BY <3>2, <3>3, <3>5
  <2>3. CASE i = n
    <3>1. \A j \in 1 .. n - 1 : p[j] = stack[j].key
      BY <1>2, <2>1, <2>3
    <3>2. p[n] \in ToSet(frames[n].left) /\ p[n] # Child[n]
      BY <1>4, <1>6, <1>7, <2>1, <2>3
    <3> QED BY <1>1, <2>1, <2>3, <3>1, <3>2 DEF Pending
  <2>4. CASE i = n + 1
    <3>1. \A j \in 1 .. n - 1 : p[j] = stack[j].key
      BY <1>2, <2>1, <2>4
    <3>2. p[n] = Key /\ Len(p) > n
      BY <1>3, <1>8, <2>1, <2>4
    <3>3. p[n] \in ToSet(frames[n].left)
      BY <1>6, <1>7, <3>2
    <3>4. p # Child
      BY <1>6, <3>2
    <3> QED BY <1>1, <3>1, <3>2, <3>3, <3>4 DEF Pending
  <2> QED BY <2>1, <2>2, <2>3, <2>4
<1> QED BY <1>9, <1>10

(* What a step up changes. *)
LEMMA StepUp ==
  ASSUME IsTree(doc), FramesInv, Leave
  PROVE  LET n == Len(frames)
         IN /\ frames' \in Seq([at : DOMAIN doc, left : Seq(STRING)]) /\ Len(frames') = n - 1
            /\ \A i \in 1 .. n - 1 : frames'[i] = frames[i]
            /\ stack' \in Seq([key : STRING, flags : SUBSET Tags])
            /\ n = 1 => Len(stack') = 0
            /\ n > 1 => Len(stack') = n - 2
            /\ \A i \in 1 .. n - 2 : stack'[i] = stack[i]
<1>1. PICK R, F : R = [key : STRING, flags : SUBSET Tags] /\ F = [at : DOMAIN doc, left : Seq(STRING)]
  OBVIOUS
<1>2. PICK n \in Nat \ {0} : n = Len(frames) /\ Len(stack) = n - 1 /\ frames # <<>>
  BY HereParts DEF Leave
<1>3. frames \in Seq(F) /\ stack \in Seq(R)
  BY <1>1 DEF FramesInv
<1>4. frames' \in Seq(F) /\ Len(frames') = n - 1 /\ \A i \in 1 .. n - 1 : frames'[i] = frames[i]
  BY <1>2, <1>3, FrontParts DEF Leave
<1>5. CASE n = 1
  <2>1. stack = <<>>
    BY <1>2, <1>3, <1>5
  <2>2. stack' = <<>>
    BY <2>1 DEF Leave
  <2> QED BY <1>1, <1>2, <1>4, <1>5, <2>2
<1>6. CASE n > 1
  <2>1. stack # <<>>
    BY <1>2, <1>6
  <2>2. stack' \in Seq(R) /\ Len(stack') = n - 2 /\ \A i \in 1 .. n - 2 : stack'[i] = stack[i]
    <3>1. PICK f \in Seq(R) : /\ f = Front(stack) /\ Len(f) = Len(stack) - 1
                              /\ \A i \in 1 .. Len(stack) - 1 : f[i] = stack[i]
      BY <1>3, <2>1, FrontParts
    <3>2. stack' = f
      BY <2>1, <3>1 DEF Leave
    <3> QED BY <1>2, <3>1, <3>2
  <2> QED BY <1>1, <1>2, <1>4, <1>6, <2>2
<1>7. n = 1 \/ n > 1
  BY <1>2
<1> QED BY <1>5, <1>6, <1>7, Zenon

LEMMA UpFrames ==
  ASSUME IsTree(doc), FramesInv, Leave
  PROVE  FramesInv'
<1>1. PICK n \in Nat \ {0} : n = Len(frames) /\ Len(stack) = n - 1 /\ DOMAIN frames = 1 .. n
  BY HereParts, Elements DEF Leave, FramesInv
<1>2. /\ frames' \in Seq([at : DOMAIN doc, left : Seq(STRING)]) /\ Len(frames') = n - 1
      /\ \A i \in 1 .. n - 1 : frames'[i] = frames[i]
      /\ stack' \in Seq([key : STRING, flags : SUBSET Tags])
      /\ n = 1 => Len(stack') = 0
      /\ n > 1 => Len(stack') = n - 2
      /\ \A i \in 1 .. n - 2 : stack'[i] = stack[i]
  BY <1>1, StepUp
<1>3. doc' = doc
  BY DEF doc, Leave
<1>4. ASSUME NEW i \in 1 .. n - 1
      PROVE  FrameInv(i)'
  <2>1. FrameInv(i)
    <3>1. i \in DOMAIN frames
      BY <1>1
    <3> QED BY <3>1 DEF FramesInv
  <2>2. SubSeq(Keys(stack'), 1, i - 1) = SubSeq(Keys(stack), 1, i - 1)
    <3>1. PICK k \in 0 .. n - 2 : k = i - 1
      BY <1>1
    <3>2. k \in 0 .. Len(stack) /\ k \in 0 .. Len(stack')
      BY <1>1, <1>2, <3>1
    <3>3. \A j \in 1 .. k : stack'[j] = stack[j]
      BY <1>2, <3>1
    <3> QED BY <1>2, <3>1, <3>2, <3>3, SamePrefix DEF FramesInv
  <2>3. frames'[i] = frames[i]
    BY <1>2
  <2>4. i < Len(frames') => i < Len(frames) /\ stack'[i] = stack[i]
    BY <1>1, <1>2
  <2> QED BY <1>3, <2>1, <2>2, <2>3, <2>4 DEF FrameInv
<1>5. DOMAIN frames' = 1 .. n - 1
  BY <1>2, Elements
<1>6. (frames # <<>> => Len(frames) = Len(stack) + 1)'
  BY <1>1, <1>2
<1>7. (frames = <<>> => stack = <<>>)'
  <2>1. frames' = <<>> => Len(frames') = 0
    OBVIOUS
  <2>2. frames' = <<>> => n = 1
    <3>1. PICK m : m = Len(frames')
      OBVIOUS
    <3>2. m = n - 1 /\ (frames' = <<>> => m = 0)
      BY <1>2, <2>1, <3>1
    <3> QED BY <1>1, <3>2
  <2>3. Len(stack') = 0 => stack' = <<>>
    BY <1>2
  <2> QED BY <1>2, <2>2, <2>3
<1> QED BY <1>2, <1>3, <1>4, <1>5, <1>6, <1>7 DEF FramesInv

(* An object without children left has none that are pending. *)
LEMMA UpPending ==
  ASSUME IsTree(doc), FramesInv, Leave, NEW p \in DOMAIN doc
  PROVE  Pending(p)' <=> Pending(p)
<1>1. PICK n \in Nat \ {0} : n = Len(frames) /\ Len(stack) = n - 1 /\ DOMAIN frames = 1 .. n
  BY HereParts, Elements DEF Leave, FramesInv
<1>2. /\ \A i \in 1 .. n - 1 : frames'[i] = frames[i]
      /\ \A i \in 1 .. n - 2 : stack'[i] = stack[i]
  BY <1>1, StepUp
<1>3. DOMAIN frames' = 1 .. n - 1
  BY <1>1, StepUp, Elements
<1>4. ToSet(frames[n].left) = {}
  BY <1>1, HereParts DEF Leave, ToSet
<1>5. ASSUME Pending(p)
      PROVE  Pending(p)'
  <2>1. PICK i \in 1 .. n : /\ Len(p) >= i /\ p[i] \in ToSet(frames[i].left)
                            /\ \A j \in 1 .. i - 1 : p[j] = stack[j].key
    BY <1>1, <1>5 DEF Pending
  <2>2. i \in 1 .. n - 1
    BY <1>1, <1>4, <2>1
  <2>3. \A j \in 1 .. i - 1 : p[j] = stack'[j].key
    BY <1>2, <2>1, <2>2
  <2> QED BY <1>2, <1>3, <2>1, <2>2, <2>3 DEF Pending
<1>6. ASSUME Pending(p)'
      PROVE  Pending(p)
  <2>1. PICK i \in 1 .. n - 1 : /\ Len(p) >= i /\ p[i] \in ToSet(frames'[i].left)
                                /\ \A j \in 1 .. i - 1 : p[j] = stack'[j].key
    BY <1>3, <1>6 DEF Pending
  <2>2. \A j \in 1 .. i - 1 : p[j] = stack[j].key
    BY <1>2, <2>1
  <2> QED BY <1>1, <1>2, <2>1, <2>2 DEF Pending
<1> QED BY <1>5, <1>6

-----------------------------------------------------------------------------
(* Tags *)

LEMMA ChildPrefix ==
  ASSUME NEW S, NEW p \in Seq(S), NEW k \in S, NEW i \in 0 .. Len(p)
  PROVE  SubSeq(p \o <<k>>, 1, i) = SubSeq(p, 1, i)
<1>1. PICK c \in Seq(S) : c = p \o <<k>> /\ Len(c) = Len(p) + 1 /\ Len(p) \in Nat
                          /\ \A j \in 1 .. Len(p) : c[j] = p[j]
  <2>1. p \o <<k>> \in Seq(S) /\ IsChild(p \o <<k>>, p, k)
    BY ChildParts
  <2> QED BY <2>1 DEF IsChild
<1>2. PICK t, u : t = SubSeq(c, 1, i) /\ u = SubSeq(p, 1, i)
  OBVIOUS
<1>3. t \in Seq(S) /\ Len(t) = i /\ \A j \in 1 .. i : t[j] = c[j]
  BY <1>1, <1>2
<1>4. u \in Seq(S) /\ Len(u) = i /\ \A j \in 1 .. i : u[j] = p[j]
  BY <1>1, <1>2
<1>5. \A j \in 1 .. Len(t) : t[j] = u[j]
  BY <1>1, <1>3, <1>4
<1>6. t = u
  BY <1>3, <1>4, <1>5, SameSequence
<1> QED BY <1>1, <1>2, <1>6

LEMMA FirstTwo ==
  ASSUME NEW S, NEW p \in Seq(S), Len(p) > 1, NEW a, NEW b
  PROVE  SubSeq(p, 1, 2) = <<a, b>> <=> p[1] = a /\ p[2] = b
<1>1. PICK t : t = SubSeq(p, 1, 2)
  OBVIOUS
<1>2. t \in Seq(S) /\ Len(t) = 2 /\ t[1] = p[1] /\ t[2] = p[2] /\ p[1] \in S /\ p[2] \in S
  BY <1>1
<1>3. t = <<t[1], t[2]>>
  BY <1>2
<1> QED BY <1>1, <1>2, <1>3

LEMMA FieldTagsOf ==
  ASSUME NEW type, NEW key
  PROVE  "data_model" \in FieldTags(type, key)
         <=> \/ type = "Components" /\ key = "schemas"
             \/ type = "Message" /\ key \in {"headers", "payload"}
BY DEF FieldTags

(* The only object of type Components. *)
LEMMA ComponentsAt ==
  ASSUME IsTree(doc), IsTyped(doc), NEW p \in DOMAIN doc
  PROVE  doc[p].type = "Components" <=> Len(p) = 1 /\ p[1] = "components"
<1>1. p \in Seq(STRING) /\ Len(p) \in Nat
  BY DEF IsTree
<1>2. ASSUME doc[p].type = "Components"
      PROVE  Len(p) = 1 /\ p[1] = "components"
  <2>1. p = <<"components">>
    BY <1>2 DEF IsTyped
  <2> QED BY <2>1
<1>3. ASSUME Len(p) = 1, p[1] = "components"
      PROVE  doc[p].type = "Components"
  <2>1. Has(doc, <<>>, "components")
    <3>1. 1 \in 1 .. Len(p) /\ SubSeq(p, 1, 1 - 1) = <<>>
      BY <1>1, <1>3
    <3> QED BY <1>3, <3>1 DEF IsTree
  <2>2. <<>> \o <<"components">> = p
    <3>1. p = <<"components">>
      BY <1>1, <1>3
    <3> QED BY <3>1
  <2>3. <<"AsyncAPI", "components", "Components">> \in FieldTypes
    BY DEF FieldTypes
  <2>4. doc[<<>>].type = "AsyncAPI" /\ <<>> \in DOMAIN doc
    BY DEF IsTyped, IsTree
  <2>5. PICK f \in FieldTypes : f[1] = "AsyncAPI" /\ f[2] = "components" /\ f[3] = "Components"
    BY <2>3
  <2>6. doc[<<>> \o <<f[2]>>].type = f[3]
    BY <2>1, <2>4, <2>5 DEF IsTyped
  <2> QED BY <2>2, <2>5, <2>6
<1> QED BY <1>2, <1>3

(* What InDataModel says, one key at a time. *)
ModelFrom(p, i, key) ==
  \/ doc[SubSeq(p, 1, i)].type = "Message" /\ key \in {"headers", "payload"}
  \/ i = 1 /\ p[1] = "components" /\ key = "schemas"

LEMMA InDataModelParts ==
  ASSUME NEW S, NEW p \in Seq(S)
  PROVE  InDataModel(p) <=> \E i \in 1 .. Len(p) - 1 : ModelFrom(p, i, p[i + 1])
<1>1. ASSUME NEW i \in 1 .. Len(p) - 1
      PROVE  (i = 1 /\ SubSeq(p, 1, 2) = <<"components", "schemas">>)
             <=> (i = 1 /\ p[1] = "components" /\ p[i + 1] = "schemas")
  <2>1. Len(p) > 1
    OBVIOUS
  <2>2. SubSeq(p, 1, 2) = <<"components", "schemas">> <=> p[1] = "components" /\ p[2] = "schemas"
    BY <2>1, FirstTwo
  <2>3. i = 1 => i + 1 = 2
    OBVIOUS
  <2> QED BY <2>2, <2>3, Zenon
<1> QED BY <1>1, Zenon DEF InDataModel, ModelFrom

LEMMA ModelStep ==
  ASSUME IsTree(doc), IsTyped(doc), NEW p \in DOMAIN doc, NEW k \in STRING
  PROVE  InDataModel(p \o <<k>>) <=> InDataModel(p) \/ "data_model" \in FieldTags(doc[p].type, k)
<1>1. PICK S : S = STRING
  OBVIOUS
<1>2. p \in Seq(S) /\ Len(p) \in Nat /\ k \in S
  BY <1>1 DEF IsTree
<1>3. PICK c \in Seq(S) : /\ c = p \o <<k>> /\ Len(c) - 1 = Len(p) /\ c[Len(p) + 1] = k
                          /\ \A j \in 1 .. Len(p) : c[j] = p[j]
  <2>1. p \o <<k>> \in Seq(S) /\ IsChild(p \o <<k>>, p, k)
    BY <1>2, ChildParts
  <2>2. PICK c \in Seq(S) : c = p \o <<k>> /\ IsChild(c, p, k)
    BY <2>1
  <2>3. Len(c) = Len(p) + 1 /\ c[Len(c)] = k /\ \A j \in 1 .. Len(p) : c[j] = p[j]
    BY <2>2 DEF IsChild
  <2>4. Len(c) - 1 = Len(p) /\ c[Len(p) + 1] = k
    BY <1>2, <2>3
  <2> QED BY <2>2, <2>3, <2>4
<1>4. ASSUME NEW i \in 1 .. Len(p), NEW key
      PROVE  ModelFrom(c, i, key) <=> ModelFrom(p, i, key)
  <2>1. SubSeq(c, 1, i) = SubSeq(p, 1, i)
    <3>1. i \in 0 .. Len(p)
      OBVIOUS
    <3> QED BY <1>2, <1>3, <3>1, ChildPrefix
  <2>2. i = 1 => c[1] = p[1]
    BY <1>3
  <2> QED BY <2>1, <2>2, Zenon DEF ModelFrom
<1>5. InDataModel(c) <=> \E i \in 1 .. Len(p) : ModelFrom(p, i, c[i + 1])
  BY <1>3, <1>4, InDataModelParts
<1>6. InDataModel(p) <=> \E i \in 1 .. Len(p) - 1 : ModelFrom(p, i, c[i + 1])
  <2>1. \A i \in 1 .. Len(p) - 1 : c[i + 1] = p[i + 1]
    BY <1>2, <1>3
  <2> QED BY <1>2, <2>1, InDataModelParts
<1>7. (1 <= Len(p) /\ ModelFrom(p, Len(p), k)) <=> "data_model" \in FieldTags(doc[p].type, k)
  <2>1. SubSeq(p, 1, Len(p)) = p
    BY <1>2
  <2>2. doc[p].type = "Message" => 1 <= Len(p)
    <3>1. doc[<<>>].type = "AsyncAPI"
      BY DEF IsTyped
    <3>2. p = <<>> => doc[p].type # "Message"
      BY <3>1
    <3> QED BY <1>2, <3>2
  <2>3. doc[p].type = "Components" <=> Len(p) = 1 /\ p[1] = "components"
    BY ComponentsAt
  <2>4. ModelFrom(p, Len(p), k)
        <=> \/ doc[p].type = "Message" /\ k \in {"headers", "payload"}
            \/ Len(p) = 1 /\ p[1] = "components" /\ k = "schemas"
    BY <2>1 DEF ModelFrom
  <2>5. Len(p) = 1 => 1 <= Len(p)
    BY <1>2
  <2> QED BY <2>2, <2>3, <2>4, <2>5, FieldTagsOf, Zenon
<1>8. (\E i \in 1 .. Len(p) : ModelFrom(p, i, c[i + 1]))
      <=> \/ \E i \in 1 .. Len(p) - 1 : ModelFrom(p, i, c[i + 1])
          \/ 1 <= Len(p) /\ ModelFrom(p, Len(p), c[Len(p) + 1])
  <2>1. \A i \in 1 .. Len(p) : i \in 1 .. Len(p) - 1 \/ i = Len(p)
    BY <1>2
  <2>2. 1 .. Len(p) - 1 \subseteq 1 .. Len(p) /\ (1 <= Len(p) => Len(p) \in 1 .. Len(p))
    BY <1>2
  <2>3. \A i \in 1 .. Len(p) : 1 <= Len(p)
    BY <1>2
  <2> QED BY <2>1, <2>2, <2>3, Zenon
<1> QED BY <1>3, <1>5, <1>6, <1>7, <1>8

LEMMA TagsOfChild ==
  ASSUME IsTree(doc), IsTyped(doc), NEW p \in DOMAIN doc, NEW k \in STRING,
         p = <<>> => TopFlags = {}, p # <<>> => AreTags(p, TopFlags)
  PROVE  AreTags(p \o <<k>>, FlagsOf(doc[p].type, k))
<1>1. PICK S : S = STRING
  OBVIOUS
<1>2. p \in Seq(S) /\ k \in S
  BY <1>1 DEF IsTree
<1>3. PICK c : c = p \o <<k>> /\ Front(c) = p /\ Last(c) = k
  <2>1. IsChild(p \o <<k>>, p, k)
    BY <1>2, ChildParts
  <2> QED BY <2>1 DEF IsChild
<1>4. PICK type : type = doc[p].type
  OBVIOUS
<1>5. type \in Containers => p # <<>> /\ doc[Front(p)].type \notin Containers
  BY <1>4 DEF IsTyped, Containers
<1>6. "data_model" \in TopFlags <=> InDataModel(p)
  <2>1. CASE p = <<>>
    <3>1. ~InDataModel(p)
      BY <2>1 DEF InDataModel
    <3> QED BY <2>1, <3>1
  <2>2. CASE p # <<>>
    BY <2>2 DEF AreTags
  <2> QED BY <2>1, <2>2
<1>7. "data_model" \in FlagsOf(type, k) <=> InDataModel(p) \/ "data_model" \in FieldTags(type, k)
  <2>1. type \in Containers => "data_model" \notin FieldTags(type, k)
    BY FieldTagsOf DEF Containers
  <2> QED BY <1>6, <2>1 DEF FlagsOf
<1>8. InDataModel(c) <=> InDataModel(p) \/ "data_model" \in FieldTags(type, k)
  BY <1>3, <1>4, ModelStep
<1>9. CASE type \in Containers
  <2>1. "selectable" \in FlagsOf(type, k) <=> "selectable" \in TopFlags
    BY <1>9 DEF FlagsOf
  <2>2. "selectable" \in TopFlags <=> "selectable" \in FieldTags(doc[Front(p)].type, Last(p))
    BY <1>5, <1>9 DEF AreTags, SelectableAt
  <2>3. SelectableAt(c) <=> "selectable" \in FieldTags(doc[Front(p)].type, Last(p))
    BY <1>3, <1>4, <1>9 DEF SelectableAt
  <2> QED BY <1>3, <1>4, <1>7, <1>8, <2>1, <2>2, <2>3 DEF AreTags
<1>10. CASE type \notin Containers
  <2>1. "selectable" \in FlagsOf(type, k) <=> "selectable" \in FieldTags(type, k)
    BY <1>10 DEF FlagsOf
  <2>2. SelectableAt(c) <=> "selectable" \in FieldTags(type, k)
    BY <1>3, <1>4, <1>10 DEF SelectableAt
  <2> QED BY <1>3, <1>4, <1>7, <1>8, <2>1, <2>2 DEF AreTags
<1> QED BY <1>9, <1>10

LEMMA DownTags ==
  ASSUME IsTree(doc), IsTyped(doc), FramesInv, TagsInv, Visiting, Push, Descend, UNCHANGED input
  PROVE  TagsInv' /\ AreTags(Child, Last(stack').flags) /\ Last(stack').flags \in SUBSET Tags
<1>1. PICK n \in Nat \ {0} : n = Len(frames) /\ Len(stack) = n - 1
  BY HereParts DEF Visiting
<1>2. PICK flags : flags = FlagsOf(doc[Parent].type, Key)
  OBVIOUS
<1>3. /\ stack' \in Seq([key : STRING, flags : SUBSET Tags]) /\ Len(stack') = n
      /\ stack'[n].flags = flags /\ \A i \in 1 .. n - 1 : stack'[i] = stack[i]
  <2>1. stack'[n] = [key |-> Key, flags |-> flags]
    BY <1>1, <1>2, StepDown
  <2> QED BY <1>1, <2>1, StepDown
<1>4. Parent = Keys(stack) /\ Parent \in DOMAIN doc /\ Len(Parent) = n - 1 /\ Parent \in Seq(STRING)
  BY <1>1, HereParts DEF Visiting
<1>5. Parent = <<>> => TopFlags = {}
  <2>1. Parent = <<>> => n = 1
    <3>1. PICK m : m = Len(Parent) /\ (Parent = <<>> => m = 0)
      OBVIOUS
    <3>2. m = n - 1
      BY <1>4, <3>1
    <3> QED BY <1>1, <3>1, <3>2
  <2>2. n = 1 => stack = <<>>
    BY <1>1 DEF FramesInv
  <2> QED BY <2>1, <2>2 DEF TopFlags
<1>6. Parent # <<>> => AreTags(Parent, TopFlags)
  <2> SUFFICES ASSUME Parent # <<>>
               PROVE  AreTags(Parent, TopFlags)
    OBVIOUS
  <2>1. n - 1 \in 1 .. Len(stack) /\ stack # <<>> /\ TopFlags = stack[n - 1].flags
    <3>1. n # 1
      BY <1>1, <1>4
    <3> QED BY <1>1, <3>1 DEF TopFlags, Last
  <2>2. AreTags(SubSeq(Keys(stack), 1, n - 1), stack[n - 1].flags)
    BY <1>1, <2>1, Elements DEF TagsInv, FramesInv
  <2>3. SubSeq(Parent, 1, n - 1) = Parent
    BY <1>4
  <2> QED BY <1>4, <2>1, <2>2, <2>3
<1>7. Key \in STRING
  BY KeyParts
<1>8. AreTags(Child, flags)
  <2>1. AreTags(Parent \o <<Key>>, FlagsOf(doc[Parent].type, Key))
    BY <1>4, <1>5, <1>6, <1>7, TagsOfChild
  <2> QED BY <1>2, <2>1 DEF Child
<1>9. Last(stack').flags = flags
  BY <1>3 DEF Last
<1>10. flags \in SUBSET Tags
  <2>1. PICK R : R = [key : STRING, flags : SUBSET Tags]
    OBVIOUS
  <2>2. stack'[n] \in R
    <3>1. n \in 1 .. Len(stack')
      BY <1>3
    <3> QED BY <1>3, <2>1, <3>1, Elements
  <2> QED BY <1>3, <2>1, <2>2
<1>11. ASSUME NEW i \in 1 .. n
       PROVE  AreTags(SubSeq(Keys(stack'), 1, i), stack'[i].flags)
  <2>1. CASE i < n
    <3>1. i \in DOMAIN stack /\ i \in 0 .. Len(stack) /\ i \in 0 .. Len(stack') /\ stack'[i] = stack[i]
      BY <1>1, <1>3, <2>1, Elements DEF FramesInv
    <3>2. SubSeq(Keys(stack'), 1, i) = SubSeq(Keys(stack), 1, i)
      <4>1. \A j \in 1 .. i : stack'[j] = stack[j]
        BY <1>3, <2>1
      <4> QED BY <1>3, <3>1, <4>1, SamePrefix DEF FramesInv
    <3> QED BY <3>1, <3>2 DEF TagsInv
  <2>2. CASE i = n
    <3>1. Keys(stack') = Child
      BY DownFrames
    <3>2. Len(Child) = n /\ Child \in Seq(STRING)
      BY <1>1, KeyParts
    <3>3. SubSeq(Child, 1, n) = Child
      BY <3>2
    <3> QED BY <1>3, <1>8, <2>2, <3>1, <3>3
  <2> QED BY <2>1, <2>2
<1>12. DOMAIN stack' = 1 .. n /\ doc' = doc
  BY <1>3, Elements DEF doc
<1>13. ASSUME NEW i \in 1 .. n
       PROVE  AreTags(SubSeq(Keys(stack), 1, i), stack[i].flags)'
  BY <1>11, <1>12 DEF AreTags, InDataModel, SelectableAt
<1> QED BY <1>8, <1>9, <1>10, <1>12, <1>13 DEF TagsInv

LEMMA UpTags ==
  ASSUME IsTree(doc), FramesInv, TagsInv, Leave
  PROVE  TagsInv'
<1>1. PICK n \in Nat \ {0} : n = Len(frames) /\ Len(stack) = n - 1
  BY HereParts DEF Leave
<1>2. /\ stack' \in Seq([key : STRING, flags : SUBSET Tags])
      /\ n = 1 => Len(stack') = 0
      /\ n > 1 => Len(stack') = n - 2
      /\ \A i \in 1 .. n - 2 : stack'[i] = stack[i]
  BY <1>1, StepUp
<1>3. DOMAIN stack' = 1 .. Len(stack') /\ Len(stack') \in Nat
  BY <1>2, Elements
<1>4. ASSUME NEW i \in 1 .. Len(stack')
      PROVE  AreTags(SubSeq(Keys(stack), 1, i), stack[i].flags)'
  <2>1. i \in 1 .. n - 2
    BY <1>1, <1>2
  <2>2. i \in DOMAIN stack /\ i \in 0 .. Len(stack) /\ i \in 0 .. Len(stack') /\ stack'[i] = stack[i]
    <3>1. i \in 1 .. Len(stack) /\ i \in 0 .. Len(stack) /\ stack'[i] = stack[i]
      BY <1>1, <1>2, <2>1
    <3>2. DOMAIN stack = 1 .. Len(stack)
      BY Elements DEF FramesInv
    <3>3. i \in 0 .. Len(stack')
      BY <1>3
    <3> QED BY <3>1, <3>2, <3>3
  <2>3. SubSeq(Keys(stack'), 1, i) = SubSeq(Keys(stack), 1, i)
    <3>1. \A j \in 1 .. i : stack'[j] = stack[j]
      BY <1>2, <2>1
    <3> QED BY <1>2, <2>2, <3>1, SamePrefix DEF FramesInv
  <2>4. AreTags(SubSeq(Keys(stack'), 1, i), stack'[i].flags)
    BY <2>2, <2>3 DEF TagsInv
  <2>5. doc' = doc
    BY DEF Leave, doc
  <2> QED BY <2>4, <2>5 DEF AreTags, InDataModel, SelectableAt
<1> QED BY <1>3, <1>4 DEF TagsInv

-----------------------------------------------------------------------------
(* Artifacts *)

LEMMA OfItsElements ==
  ASSUME NEW S, NEW t \in Seq(S)
  PROVE  t \in Seq({t[i] : i \in DOMAIN t})
<1>1. DOMAIN t = 1 .. Len(t) /\ Len(t) \in Nat
  OBVIOUS
<1>2. t = [i \in 1 .. Len(t) |-> t[i]]
  OBVIOUS
<1>3. PICK U : U = {t[i] : i \in DOMAIN t}
  OBVIOUS
<1>4. \A i \in 1 .. Len(t) : t[i] \in U
  BY <1>1, <1>3
<1>5. t \in Seq(U)
  BY <1>1, <1>2, <1>4
<1> QED BY <1>3, <1>5

IsAppended(t, s, a) ==
  /\ IsSequence(t) /\ Len(s) \in Nat
  /\ DOMAIN t = 1 .. Len(s) + 1 /\ DOMAIN s = 1 .. Len(s)
  /\ t[Len(s) + 1] = a /\ \A i \in 1 .. Len(s) : t[i] = s[i]

LEMMA Appended ==
  ASSUME NEW s, IsSequence(s), NEW a
  PROVE  IsAppended(Append(s, a), s, a)
<1> DEFINE t == Append(s, a)
<1>1. PICK S : S = {s[i] : i \in DOMAIN s} \cup {a}
  OBVIOUS
<1>2. s \in Seq(S)
  <2>1. DOMAIN s = 1 .. Len(s) /\ Len(s) \in Nat
    BY Elements DEF IsSequence
  <2>2. \A i \in 1 .. Len(s) : s[i] \in S
    BY <1>1, <2>1
  <2>3. s = [i \in 1 .. Len(s) |-> s[i]]
    BY DEF IsSequence
  <2> QED BY <2>1, <2>2, <2>3
<1>3. /\ t \in Seq(S) /\ Len(t) = Len(s) + 1 /\ Len(s) \in Nat
      /\ t[Len(s) + 1] = a /\ \A i \in 1 .. Len(s) : t[i] = s[i]
  BY <1>1, <1>2
<1>4. DOMAIN t = 1 .. Len(s) + 1 /\ DOMAIN s = 1 .. Len(s)
  BY <1>2, <1>3, Elements
<1>5. t \in Seq({t[i] : i \in DOMAIN t})
  BY <1>3, OfItsElements
<1> QED BY <1>3, <1>4, <1>5 DEF IsAppended, IsSequence

(* What is said of a document stays true of it. *)
LEMMA SameDocument ==
  ASSUME doc' = doc
  PROVE  /\ \A p : IsObject(p)' <=> IsObject(p)
         /\ \A a, p : IsArtifact(a, p)' <=> IsArtifact(a, p)
<1>1. ASSUME NEW p
      PROVE  IsObject(p)' <=> IsObject(p)
  BY DEF IsObject, HasCompile
<1>2. ASSUME NEW p, NEW flags
      PROVE  AreTags(p, flags)' <=> AreTags(p, flags)
  BY DEF AreTags, InDataModel, SelectableAt
<1>3. ASSUME NEW a, NEW p
      PROVE  IsArtifact(a, p)' <=> IsArtifact(a, p)
  BY <1>2 DEF IsArtifact
<1> QED BY <1>1, <1>3

LEMMA ArtifactPtr ==
  ASSUME NEW a, NEW p, IsArtifact(a, p)
  PROVE  a.ptr = p
BY DEF IsArtifact, Artifact

LEMMA ArtifactsKept ==
  ASSUME ArtifactsInv, doc' = doc, artifacts' = artifacts,
         \A p \in DOMAIN doc : IsObject(p) => (Pending(p)' <=> Pending(p))
  PROVE  ArtifactsInv'
<1>1. \A p \in DOMAIN doc : Visited(p)' <=> Visited(p)
  BY SameDocument DEF Visited
<1>2. \A a, p : IsArtifact(a, p)' <=> IsArtifact(a, p)
  BY SameDocument
<1>3. \A i \in DOMAIN artifacts : \E p \in DOMAIN doc : Visited(p)' /\ IsArtifact(artifacts[i], p)'
  BY <1>1, <1>2 DEF ArtifactsInv
<1>4. \A p \in DOMAIN doc : Visited(p)' => \E i \in DOMAIN artifacts : artifacts[i].ptr = p
  BY <1>1 DEF ArtifactsInv
<1> QED BY <1>3, <1>4 DEF ArtifactsInv

LEMMA ArtifactsGrow ==
  ASSUME ArtifactsInv, doc' = doc,
         NEW c \in DOMAIN doc, IsObject(c), Pending(c), NEW a, IsArtifact(a, c),
         artifacts' = Append(artifacts, a),
         \A p \in DOMAIN doc : Pending(p)' <=> Pending(p) /\ p # c
  PROVE  ArtifactsInv'
<1>1. \A p \in DOMAIN doc : Visited(p)' <=> Visited(p) \/ p = c
  BY SameDocument DEF Visited
<1>2. \A b, p : IsArtifact(b, p)' <=> IsArtifact(b, p)
  BY SameDocument
<1>3. PICK n \in Nat :
        /\ IsSequence(artifacts') /\ n = Len(artifacts)
        /\ DOMAIN artifacts' = 1 .. n + 1 /\ DOMAIN artifacts = 1 .. n
        /\ artifacts'[n + 1] = a /\ \A i \in 1 .. n : artifacts'[i] = artifacts[i]
  <2>1. IsAppended(artifacts', artifacts, a)
    BY Appended DEF ArtifactsInv
  <2> QED BY <2>1 DEF IsAppended
<1>4. a.ptr = c
  BY ArtifactPtr
<1>5. \A i \in 1 .. n + 1 : i \in 1 .. n \/ i = n + 1
  BY <1>3
<1>6. 1 .. n \subseteq 1 .. n + 1 /\ n + 1 \in 1 .. n + 1
  BY <1>3
<1>7. \A i \in 1 .. n : artifacts[i].ptr # c
  <2>1. ASSUME NEW i \in 1 .. n
        PROVE  artifacts[i].ptr # c
    <3>1. PICK p \in DOMAIN doc : Visited(p) /\ IsArtifact(artifacts[i], p)
      BY <1>3 DEF ArtifactsInv
    <3> QED BY <3>1, ArtifactPtr DEF Visited
  <2> QED BY <2>1
<1>8. ASSUME NEW i \in 1 .. n + 1
      PROVE  \E p \in DOMAIN doc : Visited(p)' /\ IsArtifact(artifacts'[i], p)
  <2>1. CASE i \in 1 .. n
    <3>1. PICK p \in DOMAIN doc : Visited(p) /\ IsArtifact(artifacts[i], p)
      BY <1>3, <2>1 DEF ArtifactsInv
    <3> QED BY <1>1, <1>3, <2>1, <3>1
  <2>2. CASE i = n + 1
    BY <1>1, <1>3, <2>2
  <2> QED BY <1>5, <2>1, <2>2
<1>9. ASSUME NEW i \in 1 .. n + 1, NEW j \in 1 .. n + 1, artifacts'[i].ptr = artifacts'[j].ptr
      PROVE  i = j
  <2>1. CASE i \in 1 .. n /\ j \in 1 .. n
    BY <1>3, <1>9, <2>1 DEF ArtifactsInv
  <2>2. CASE i = n + 1 \/ j = n + 1
    BY <1>3, <1>4, <1>5, <1>7, <1>9, <2>2
  <2> QED BY <1>5, <2>1, <2>2
<1>10. ASSUME NEW p \in DOMAIN doc, Visited(p)'
       PROVE  \E i \in 1 .. n + 1 : artifacts'[i].ptr = p
  <2>1. CASE Visited(p)
    <3>1. PICK i \in 1 .. n : artifacts[i].ptr = p
      BY <1>3, <2>1 DEF ArtifactsInv
    <3> QED BY <1>3, <1>6, <3>1
  <2>2. CASE p = c
    BY <1>3, <1>4, <1>6, <2>2
  <2> QED BY <1>1, <1>10, <2>1, <2>2
<1> QED BY <1>2, <1>3, <1>8, <1>9, <1>10, Zenon DEF ArtifactsInv

-----------------------------------------------------------------------------
(* The steps of the walk *)

LEMMA PromisesKept ==
  ASSUME PromisesInv, doc' = doc, promises' = promises,
         \A p \in DOMAIN doc : IsObject(p) => (Pending(p)' <=> Pending(p))
  PROVE  PromisesInv'
<1>1. \A p \in DOMAIN doc : Visited(p)' <=> Visited(p)
  BY SameDocument DEF Visited
<1> QED BY <1>1 DEF PromisesInv

LEMMA PromisesGrow ==
  ASSUME PromisesInv, doc' = doc, NEW c \in DOMAIN doc, ~Refused(doc, c),
         promises' = promises \cup PromisesOf(doc, c, c),
         \A p \in DOMAIN doc : Pending(p)' <=> Pending(p) /\ p # c
  PROVE  PromisesInv'
<1>1. \A p \in DOMAIN doc : Visited(p)' => Visited(p) \/ p = c
  BY SameDocument DEF Visited
<1>2. (\A p \in promises : \E q \in DOMAIN doc : p \in PromisesOf(doc, q, q))'
  BY DEF PromisesInv
<1>3. (\A q \in DOMAIN doc : Visited(q) => ~Refused(doc, q) /\ PromisesOf(doc, q, q) \subseteq promises)'
  BY <1>1 DEF PromisesInv
<1> QED BY <1>2, <1>3 DEF PromisesInv

LEMMA RootCompiled ==
  ASSUME IsTree(doc), IsTyped(doc), stack = <<>>, artifacts = <<>>, promises = {},
         CompileRoot, ~Refused(doc, <<>>)
  PROVE  WalkInv'
<1>1. /\ frames' = <<Frame(<<>>)>> /\ stack' = stack /\ doc' = doc
      /\ artifacts' = Append(artifacts, Artifact(doc, <<>>, Keys(stack), {}))
      /\ promises' = promises \cup PromisesOf(doc, <<>>, Keys(stack))
  BY DEF CompileRoot, Put, doc
<1>2. Keys(stack) = <<>>
  BY DEF Keys
<1>3. PICK f : f = Frame(<<>>)
  OBVIOUS
<1>4. /\ <<>> \in DOMAIN doc /\ doc[<<>>].keys \in Seq(STRING) /\ IsInjective(doc[<<>>].keys)
      /\ f = [at |-> <<>>, left |-> doc[<<>>].keys]
  BY <1>3 DEF IsTree, Frame
<1>5. f.at = <<>> /\ f.left = doc[<<>>].keys /\ f \in [at : DOMAIN doc, left : Seq(STRING)]
  BY <1>4
<1>6. Len(frames') = 1 /\ DOMAIN frames' = {1} /\ frames'[1] = f /\ frames' # <<>>
  BY <1>1, <1>3
<1>7. FramesInv'
  <2>1. frames' \in Seq([at : DOMAIN doc, left : Seq(STRING)])
    BY <1>1, <1>3, <1>5
  <2>2. stack' \in Seq([key : STRING, flags : SUBSET Tags]) /\ Len(stack') = 0
    BY <1>1
  <2>3. FrameInv(1)'
    <3>1. SubSeq(Keys(stack'), 1, 1 - 1) = <<>>
      BY <1>1, <1>2
    <3>2. ~(1 < Len(frames'))
      BY <1>6
    <3>3. (frames[1].at = SubSeq(Keys(stack), 1, 1 - 1))'
      BY <1>5, <1>6, <3>1
    <3>4. (IsInjective(frames[1].left) /\ ToSet(frames[1].left) \subseteq ToSet(doc[frames[1].at].keys))'
      BY <1>1, <1>4, <1>5, <1>6
    <3> QED BY <3>2, <3>3, <3>4 DEF FrameInv
  <2> QED BY <1>1, <1>6, <2>1, <2>2, <2>3 DEF FramesInv
<1>8. TagsInv'
  BY <1>1 DEF TagsInv
<1>9. ASSUME NEW p \in DOMAIN doc
      PROVE  Pending(p)' <=> p # <<>>
  <2>1. p \in Seq(STRING) /\ Len(p) \in Nat
    BY DEF IsTree
  <2>2. ASSUME p # <<>>
        PROVE  Len(p) >= 1 /\ p[1] \in ToSet(f.left)
    <3>1. 1 \in 1 .. Len(p) /\ SubSeq(p, 1, 1 - 1) = <<>>
      BY <2>1, <2>2
    <3>2. Has(doc, <<>>, p[1])
      BY <3>1 DEF IsTree
    <3> QED BY <1>5, <3>1, <3>2 DEF Has
  <2>3. p = <<>> => ~(Len(p) >= 1)
    OBVIOUS
  <2>4. \A j \in 1 .. 1 - 1 : p[j] = stack'[j].key
    OBVIOUS
  <2> QED BY <1>6, <2>2, <2>3, <2>4 DEF Pending
<1>10. ArtifactsInv'
  <2>1. PICK a : a = Artifact(doc, <<>>, <<>>, {})
    OBVIOUS
  <2>2. IsArtifact(a, <<>>)
    BY <2>1 DEF IsArtifact
  <2>3. IsAppended(artifacts', artifacts, a)
    <3>1. IsSequence(artifacts)
      BY DEF IsSequence
    <3> QED BY <1>1, <1>2, <2>1, <3>1, Appended
  <2>4. IsSequence(artifacts') /\ DOMAIN artifacts' = {1} /\ artifacts'[1] = a
    <3>1. Len(artifacts) = 0
      OBVIOUS
    <3> QED BY <2>3, <3>1 DEF IsAppended
  <2>5. a.ptr = <<>>
    BY <2>2, ArtifactPtr
  <2>6. ASSUME NEW p \in DOMAIN doc
        PROVE  Visited(p)' <=> p = <<>>
    <3>1. IsObject(<<>>)
      BY DEF IsObject
    <3> QED BY <1>1, <1>9, <3>1, SameDocument DEF Visited
  <2>7. \A b, p : IsArtifact(b, p)' <=> IsArtifact(b, p)
    BY <1>1, SameDocument
  <2>8. (\A i \in DOMAIN artifacts : \E p \in DOMAIN doc : Visited(p) /\ IsArtifact(artifacts[i], p))'
    <3>1. Visited(<<>>)' /\ IsArtifact(a, <<>>)'
      BY <1>4, <2>2, <2>6, <2>7
    <3> QED BY <1>1, <1>4, <2>4, <3>1
  <2>9. (\A p \in DOMAIN doc : Visited(p) => \E i \in DOMAIN artifacts : artifacts[i].ptr = p)'
    BY <1>1, <2>4, <2>5, <2>6
  <2>10. (\A i, j \in DOMAIN artifacts : artifacts[i].ptr = artifacts[j].ptr => i = j)'
    BY <2>4
  <2> QED BY <2>4, <2>8, <2>9, <2>10 DEF ArtifactsInv
<1>11. PromisesInv'
  <2>1. promises' = PromisesOf(doc, <<>>, <<>>)
    BY <1>1, <1>2
  <2>2. \A p \in DOMAIN doc : Visited(p)' => p = <<>>
    BY <1>9 DEF Visited
  <2>3. (\A p \in promises : \E q \in DOMAIN doc : p \in PromisesOf(doc, q, q))'
    BY <1>1, <1>4, <2>1
  <2>4. (\A q \in DOMAIN doc : Visited(q) => ~Refused(doc, q) /\ PromisesOf(doc, q, q) \subseteq promises)'
    BY <1>1, <2>1, <2>2
  <2> QED BY <2>3, <2>4 DEF PromisesInv
<1> QED BY <1>7, <1>8, <1>10, <1>11 DEF WalkInv

LEMMA PlainVisited ==
  ASSUME IsTree(doc), IsTyped(doc), WalkInv, VisitPlain
  PROVE  WalkInv'
<1>1. FramesInv /\ TagsInv /\ ArtifactsInv /\ PromisesInv
  BY DEF WalkInv
<1>2. /\ Visiting /\ Push /\ Descend /\ doc' = doc /\ input' = input
      /\ artifacts' = artifacts /\ promises' = promises
  BY DEF VisitPlain, doc
<1>3. ~IsObject(Child)
  BY <1>1, KeyParts DEF VisitPlain, IsObject
<1>4. FramesInv'
  BY <1>1, <1>2, DownFrames
<1>5. TagsInv'
  BY <1>1, <1>2, DownTags
<1>6. \A p \in DOMAIN doc : IsObject(p) => (Pending(p)' <=> Pending(p))
  BY <1>1, <1>2, <1>3, DownPending
<1>7. ArtifactsInv'
  BY <1>1, <1>2, <1>6, ArtifactsKept
<1>8. PromisesInv'
  BY <1>1, <1>2, <1>6, PromisesKept
<1> QED BY <1>4, <1>5, <1>7, <1>8 DEF WalkInv

LEMMA ObjectVisited ==
  ASSUME IsTree(doc), IsTyped(doc), WalkInv, VisitObject
  PROVE  WalkInv'
<1>1. FramesInv /\ TagsInv /\ ArtifactsInv /\ PromisesInv
  BY DEF WalkInv
<1>2. /\ Visiting /\ Push /\ Descend /\ doc' = doc /\ input' = input
      /\ artifacts' = Append(artifacts, Artifact(doc, Child, Keys(stack'), Last(stack').flags))
      /\ promises' = promises \cup PromisesOf(doc, Child, Keys(stack'))
  BY DEF VisitObject, Put, doc
<1>3. Child \in DOMAIN doc /\ IsObject(Child) /\ ~Refused(doc, Child)
  BY <1>1, KeyParts DEF VisitObject, IsObject
<1>4. FramesInv' /\ Keys(stack') = Child
  BY <1>1, <1>2, DownFrames
<1>5. TagsInv' /\ AreTags(Child, Last(stack').flags) /\ Last(stack').flags \in SUBSET Tags
  BY <1>1, <1>2, DownTags
<1>6. \A p \in DOMAIN doc : Pending(p)' <=> Pending(p) /\ p # Child
  BY <1>1, <1>2, DownPending
<1>7. Pending(Child)
  BY <1>1, <1>2, ChildPending
<1>8. ArtifactsInv'
  <2>1. PICK a, c : a = Artifact(doc, Child, Child, Last(stack').flags) /\ c = Child
    OBVIOUS
  <2>2. IsArtifact(a, c)
    BY <1>5, <2>1 DEF IsArtifact
  <2>3. artifacts' = Append(artifacts, a)
    BY <1>2, <1>4, <2>1
  <2> QED BY <1>1, <1>2, <1>3, <1>6, <1>7, <2>1, <2>2, <2>3, ArtifactsGrow
<1>9. PromisesInv'
  <2>1. PICK c : c = Child
    OBVIOUS
  <2>2. promises' = promises \cup PromisesOf(doc, c, c)
    BY <1>2, <1>4, <2>1
  <2> QED BY <1>1, <1>2, <1>3, <1>6, <2>1, <2>2, PromisesGrow
<1> QED BY <1>4, <1>5, <1>8, <1>9 DEF WalkInv

LEMMA Left ==
  ASSUME IsTree(doc), WalkInv, Leave
  PROVE  WalkInv'
<1>1. FramesInv /\ TagsInv /\ ArtifactsInv /\ PromisesInv
  BY DEF WalkInv
<1>2. doc' = doc /\ artifacts' = artifacts /\ promises' = promises
  BY DEF Leave, doc
<1>3. FramesInv' /\ TagsInv'
  BY <1>1, UpFrames, UpTags
<1>4. \A p \in DOMAIN doc : Pending(p)' <=> Pending(p)
  BY <1>1, UpPending
<1>5. ArtifactsInv'
  BY <1>1, <1>2, <1>4, ArtifactsKept
<1>6. PromisesInv'
  BY <1>1, <1>2, <1>4, PromisesKept
<1> QED BY <1>3, <1>5, <1>6 DEF WalkInv

LEMMA NothingMoved ==
  ASSUME WalkInv, UNCHANGED <<input, stack, frames, artifacts, promises>>
  PROVE  WalkInv'
<1>1. doc' = doc
  BY DEF doc
<1>2. FramesInv'
  BY <1>1 DEF WalkInv, FramesInv, FrameInv
<1>3. TagsInv'
  BY <1>1 DEF WalkInv, TagsInv, AreTags, InDataModel, SelectableAt
<1>4. \A p : Pending(p)' <=> Pending(p)
  BY DEF Pending
<1>5. ArtifactsInv'
  BY <1>1, <1>4, ArtifactsKept DEF WalkInv
<1>6. PromisesInv'
  BY <1>1, <1>4, PromisesKept DEF WalkInv
<1> QED BY <1>2, <1>3, <1>5, <1>6 DEF WalkInv

(* Documents are decoded before anything is compiled. *)
LEMMA AtFirst == Init => Inv
<1> SUFFICES ASSUME Init PROVE Inv
  OBVIOUS
<1>1. PICK i \in DOMAIN Inputs : doc = Inputs[i].doc
  BY DEF Init, WalkInit, doc
<1>2. IsTree(doc) /\ IsTyped(doc) /\ IsPlaced(doc)
  BY <1>1, InputsAssumption
<1> QED BY <1>2 DEF Init, WalkInit, Inv, Compiled

LEMMA WalkStep ==
  ASSUME Inv, WalkNext
  PROVE  Inv'
<1>1. IsTree(doc) /\ IsTyped(doc) /\ IsPlaced(doc)
  BY DEF Inv
<1>2. doc' = doc
  BY DEF WalkNext, CompileRoot, VisitPlain, VisitObject, VisitRefused, Leave, Finish, doc
<1>3. IsTree(doc)' /\ IsTyped(doc)' /\ IsPlaced(doc)'
  BY <1>1, <1>2
<1>4. stage = "walking" => WalkInv
  BY DEF Inv
<1>5. ASSUME CompileRoot
      PROVE  Inv'
  <2>1. stack = <<>> /\ artifacts = <<>> /\ promises = {}
    BY <1>5 DEF Inv, CompileRoot
  <2>2. CASE Refused(doc, <<>>)
    <3>1. stage' = "refused"
      BY <1>5, <2>2 DEF CompileRoot
    <3> QED BY <1>3, <3>1 DEF Inv, Compiled
  <2>3. CASE ~Refused(doc, <<>>)
    <3>1. WalkInv'
      BY <1>1, <1>5, <2>1, <2>3, RootCompiled
    <3>2. stage' = "walking"
      BY <1>5, <2>3 DEF CompileRoot
    <3> QED BY <1>3, <3>1, <3>2 DEF Inv, Compiled
  <2> QED BY <2>2, <2>3
<1>6. ASSUME stage' = "walking", WalkInv'
      PROVE  Inv'
  BY <1>3, <1>6 DEF Inv, Compiled
<1>7. CASE VisitPlain
  <2>1. stage = "walking" /\ stage' = "walking"
    BY <1>7 DEF VisitPlain, Visiting
  <2> QED BY <1>1, <1>4, <1>6, <1>7, <2>1, PlainVisited
<1>8. CASE VisitObject
  <2>1. stage = "walking" /\ stage' = "walking"
    BY <1>8 DEF VisitObject, Visiting
  <2> QED BY <1>1, <1>4, <1>6, <1>8, <2>1, ObjectVisited
<1>9. CASE VisitRefused
  <2>1. stage' = "refused"
    BY <1>9 DEF VisitRefused
  <2> QED BY <1>3, <2>1 DEF Inv, Compiled
<1>10. CASE Leave
  <2>1. stage = "walking" /\ stage' = "walking"
    BY <1>10 DEF Leave
  <2> QED BY <1>1, <1>4, <1>6, <1>10, <2>1, Left
<1>11. CASE Finish
  <2>1. /\ stage = "walking" /\ stage' = "compiled" /\ frames' = <<>>
        /\ UNCHANGED <<input, stack, frames, artifacts, promises>>
    BY <1>11 DEF Finish
  <2>2. WalkInv'
    BY <1>4, <2>1, NothingMoved
  <2> QED BY <1>3, <2>1, <2>2 DEF Inv
<1> QED BY <1>5, <1>7, <1>8, <1>9, <1>10, <1>11 DEF WalkNext

(* What is linked and generated is what the walk has left behind. *)
LEMMA StepAfterwards ==
  ASSUME Inv, LinkPanic \/ LinkFails \/ Link \/ SelectPanic \/ Generate
  PROVE  Inv'
<1>1. /\ stage \in {"compiled", "linked"}
      /\ stage' \in {"crashed", "failed", "linked", "generated"}
      /\ UNCHANGED <<input, stack, frames, artifacts, promises>>
  BY DEF LinkPanic, LinkFails, Link, SelectPanic, Generate
<1>2. WalkInv /\ frames = <<>> /\ IsTree(doc) /\ IsTyped(doc) /\ IsPlaced(doc)
  BY <1>1 DEF Inv, Compiled
<1>3. WalkInv' /\ frames' = <<>> /\ doc' = doc
  BY <1>1, <1>2, NothingMoved DEF doc
<1> QED BY <1>1, <1>2, <1>3 DEF Inv

LEMMA InvStep ==
  ASSUME Inv, [Next]_vars
  PROVE  Inv'
<1>1. CASE WalkNext
  BY <1>1, WalkStep
<1>2. CASE LinkPanic \/ LinkFails \/ Link \/ SelectPanic \/ Generate
  BY <1>2, StepAfterwards
<1>3. CASE UNCHANGED vars
  <2>1. UNCHANGED <<input, stack, frames, artifacts, promises, stage>>
    BY <1>3 DEF vars, walkVars
  <2>2. doc' = doc /\ (Compiled' <=> Compiled)
    BY <2>1 DEF doc, Compiled
  <2>3. WalkInv => WalkInv'
    BY <2>1, NothingMoved
  <2> QED BY <2>1, <2>2, <2>3 DEF Inv
<1> QED BY <1>1, <1>2, <1>3 DEF Next

(* The stack is the path the recursion has taken, tags are those of the    *)
(* path, and what has been visited, and nothing else, has its artifact and *)
(* has made its promises.                                                  *)
THEOREM WalkInvariance == Spec => []Inv
<1>1. Init => Inv
  BY AtFirst
<1>2. Inv /\ [Next]_vars => Inv'
  BY InvStep
<1> QED BY <1>1, <1>2, PTL DEF Spec

-----------------------------------------------------------------------------
(* What an object's own promises point to *)

IsFound(x) == x.to \in DOMAIN doc /\ IsObject(x.to) /\ doc[x.to].type = x.want

LEMMA TypesOfFields ==
  /\ \A f \in FieldTypes : f[1] \notin Containers /\ (f[3] \in CompiledTypes \/ f[3] = "Components")
  /\ \A e \in ElementTypes : e[3] \in Containers /\ e[4] \in CompiledTypes /\ e[4] # "Bindings"
BY DEF FieldTypes, ElementTypes, Containers, CompiledTypes

LEMMA ChildIn ==
  ASSUME IsTree(doc), NEW q \in DOMAIN doc, NEW k \in ToSet(doc[q].keys)
  PROVE  /\ k \in STRING /\ q \o <<k>> \in DOMAIN doc /\ q \o <<k>> # <<>>
         /\ Front(q \o <<k>>) = q /\ Last(q \o <<k>>) = k
<1>1. PICK S : S = STRING
  OBVIOUS
<1>2. q \in Seq(S) /\ doc[q].keys \in Seq(S) /\ q \o <<k>> \in DOMAIN doc
  BY <1>1 DEF IsTree
<1>3. k \in S
  BY <1>2 DEF ToSet
<1>4. IsChild(q \o <<k>>, q, k)
  BY <1>2, <1>3, ChildParts
<1> QED BY <1>1, <1>2, <1>3, <1>4 DEF IsChild

LEMMA OneFound ==
  ASSUME IsTree(doc), IsTyped(doc), NEW q \in DOMAIN doc, NEW key, NEW want,
         <<doc[q].type, key, want>> \in FieldTypes, want # "Components",
         NEW x \in One(doc, q, q, key, want)
  PROVE  IsFound(x)
<1>1. Has(doc, q, key) /\ x = Promise(q, q \o <<key>>, want, "field")
  BY DEF One
<1>2. x.to = q \o <<key>> /\ x.want = want
  BY <1>1 DEF Promise
<1>3. key \in ToSet(doc[q].keys)
  BY <1>1 DEF Has
<1>4. x.to \in DOMAIN doc /\ Front(x.to) = q
  BY <1>2, <1>3, ChildIn
<1>5. PICK f \in FieldTypes : f[1] = doc[q].type /\ f[2] = key /\ f[3] = want
  OBVIOUS
<1>6. doc[x.to].type = want
  BY <1>1, <1>2, <1>5 DEF IsTyped
<1>7. want \in CompiledTypes /\ doc[q].type \notin Containers
  BY <1>5, TypesOfFields
<1> QED BY <1>2, <1>4, <1>6, <1>7 DEF IsFound, IsObject, HasCompile

LEMMA EachFound ==
  ASSUME IsTree(doc), IsTyped(doc), NEW q \in DOMAIN doc, NEW key, NEW want, NEW container,
         <<doc[q].type, key, container, want>> \in ElementTypes,
         NEW x \in Each(doc, q, q, key, want)
  PROVE  IsFound(x)
<1>1. Has(doc, q, key)
  BY DEF Each
<1>2. PICK k \in ToSet(doc[q \o <<key>>].keys) : x = Promise(q, q \o <<key, k>>, want, "field")
  BY <1>1 DEF Each
<1>3. x.to = q \o <<key, k>> /\ x.want = want
  BY <1>2 DEF Promise
<1>4. PICK c \in DOMAIN doc : c = q \o <<key>> /\ key \in STRING
  BY <1>1, ChildIn DEF Has
<1>5. /\ k \in STRING /\ c \o <<k>> \in DOMAIN doc /\ Front(c \o <<k>>) = c
  BY <1>2, <1>4, ChildIn
<1>6. x.to = c \o <<k>>
  <2>1. PICK S : S = STRING
    OBVIOUS
  <2>2. q \in Seq(S) /\ key \in S /\ k \in S
    BY <1>4, <1>5, <2>1 DEF IsTree
  <2>3. q \o <<key, k>> = (q \o <<key>>) \o <<k>>
    BY <2>2
  <2> QED BY <1>3, <1>4, <2>3
<1>7. PICK e \in ElementTypes : e[1] = doc[q].type /\ e[2] = key /\ e[3] = container /\ e[4] = want
  OBVIOUS
<1>8. doc[x.to].type = want
  <2>1. doc[q].type = e[1] /\ Has(doc, q, e[2])
    BY <1>1, <1>7
  <2>2. \A j \in ToSet(doc[q \o <<e[2]>>].keys) : doc[q \o <<e[2], j>>].type = e[4]
    BY <2>1, <1>7 DEF IsTyped
  <2> QED BY <1>2, <1>3, <1>7, <2>2
<1>9. want \in CompiledTypes /\ want # "Bindings"
  BY <1>7, TypesOfFields
<1> QED BY <1>3, <1>5, <1>6, <1>8, <1>9 DEF IsFound, IsObject, HasCompile

LEMMA OneSchemaFound ==
  ASSUME IsTree(doc), NEW q \in DOMAIN doc, NEW key, NEW x \in OneSchema(doc, q, q, key)
  PROVE  IsFound(x)
<1>1. Has(doc, q, key) /\ doc[q \o <<key>>].type = "Object" /\ x \in One(doc, q, q, key, "Object")
  BY DEF OneSchema
<1>2. x = Promise(q, q \o <<key>>, "Object", "field")
  BY <1>1 DEF One
<1>3. x.to = q \o <<key>> /\ x.want = "Object"
  BY <1>2 DEF Promise
<1>4. x.to \in DOMAIN doc /\ Front(x.to) = q
  BY <1>1, <1>3, ChildIn DEF Has
<1> QED BY <1>1, <1>3, <1>4 DEF IsFound, IsObject, HasCompile, CompiledTypes

LEMMA NamedElsewhere ==
  ASSUME NEW q, NEW key, NEW want, NEW x \in Named(doc, q, q, key, want) \cup NamedEach(doc, q, q, key, want)
  PROVE  x.by = "$ref"
<1>1. \A from, to : Promise(from, to, want, "$ref").by = "$ref"
  BY DEF Promise
<1>2. CASE x \in Named(doc, q, q, key, want)
  BY <1>1, <1>2 DEF Named
<1>3. CASE x \in NamedEach(doc, q, q, key, want)
  <2>1. Has(doc, q, key)
    BY <1>3 DEF NamedEach
  <2>2. PICK k \in ToSet(doc[q \o <<key>>].keys) :
          x = Promise(q, doc[q \o <<key, k>>].ref, want, "$ref")
    BY <1>3, <2>1 DEF NamedEach
  <2> QED BY <1>1, <2>2
<1> QED BY <1>2, <1>3

LEMMA PromisesAreFound ==
  ASSUME IsTree(doc), IsTyped(doc), NEW q \in DOMAIN doc, NEW x \in PromisesOf(doc, q, q), x.by = "field"
  PROVE  IsFound(x)
<1>1. PICK type : type = doc[q].type
  OBVIOUS
<1>2. ASSUME NEW key, NEW want, <<type, key, want>> \in FieldTypes, want # "Components",
             x \in One(doc, q, q, key, want)
      PROVE  IsFound(x)
  BY <1>1, <1>2, OneFound
<1>3. ASSUME NEW key, NEW want, NEW container, <<type, key, container, want>> \in ElementTypes,
             x \in Each(doc, q, q, key, want)
      PROVE  IsFound(x)
  BY <1>1, <1>3, EachFound
<1>4. \A key, want : x \notin Named(doc, q, q, key, want) /\ x \notin NamedEach(doc, q, q, key, want)
  BY NamedElsewhere
<1>5. \A from, to : Promise(from, to, "any", "$ref").by = "$ref"
  BY DEF Promise
<1>6. x \in BuiltPromises(doc, q, q)
  BY <1>5 DEF PromisesOf
<1>7. CASE type = "Server"
  <2>1. x \in ServerPromises(doc, q, q)
    BY <1>1, <1>6, <1>7 DEF BuiltPromises
  <2>2. CASE x \in One(doc, q, q, "bindings", "Bindings")
    <3>1. <<type, "bindings", "Bindings">> \in FieldTypes
      BY <1>7 DEF FieldTypes
    <3> QED BY <1>2, <2>2, <3>1
  <2>3. CASE x \in Each(doc, q, q, "security", "SecurityScheme")
    <3>1. <<type, "security", "List", "SecurityScheme">> \in ElementTypes
      BY <1>7 DEF ElementTypes
    <3> QED BY <1>3, <2>3, <3>1
  <2>4. CASE x \in Each(doc, q, q, "variables", "ServerVariable")
    <3>1. <<type, "variables", "Map", "ServerVariable">> \in ElementTypes
      BY <1>7 DEF ElementTypes
    <3> QED BY <1>3, <2>4, <3>1
  <2> QED BY <2>1, <2>2, <2>3, <2>4 DEF ServerPromises
<1>8. CASE type = "Channel"
  <2>1. x \in ChannelPromises(doc, q, q)
    BY <1>1, <1>6, <1>8 DEF BuiltPromises
  <2>2. CASE x \in Each(doc, q, q, "parameters", "Parameter")
    <3>1. <<type, "parameters", "Map", "Parameter">> \in ElementTypes
      BY <1>8 DEF ElementTypes
    <3> QED BY <1>3, <2>2, <3>1
  <2>3. CASE x \in Each(doc, q, q, "messages", "Message")
    <3>1. <<type, "messages", "Map", "Message">> \in ElementTypes
      BY <1>8 DEF ElementTypes
    <3> QED BY <1>3, <2>3, <3>1
  <2>4. CASE x \in One(doc, q, q, "bindings", "Bindings")
    <3>1. <<type, "bindings", "Bindings">> \in FieldTypes
      BY <1>8 DEF FieldTypes
    <3> QED BY <1>2, <2>4, <3>1
  <2> QED BY <1>4, <2>1, <2>2, <2>3, <2>4 DEF ChannelPromises
<1>9. CASE type = "Operation"
  <2>1. x \in OperationPromises(doc, q, q)
    BY <1>1, <1>6, <1>9 DEF BuiltPromises
  <2>2. CASE x \in One(doc, q, q, "bindings", "Bindings")
    <3>1. <<type, "bindings", "Bindings">> \in FieldTypes
      BY <1>9 DEF FieldTypes
    <3> QED BY <1>2, <2>2, <3>1
  <2>3. CASE x \in Each(doc, q, q, "security", "SecurityScheme")
    <3>1. <<type, "security", "List", "SecurityScheme">> \in ElementTypes
      BY <1>9 DEF ElementTypes
    <3> QED BY <1>3, <2>3, <3>1
  <2>4. CASE x \in One(doc, q, q, "reply", "OperationReply")
    <3>1. <<type, "reply", "OperationReply">> \in FieldTypes
      BY <1>9 DEF FieldTypes
    <3> QED BY <1>2, <2>4, <3>1
  <2> QED BY <1>4, <2>1, <2>2, <2>3, <2>4 DEF OperationPromises
<1>10. CASE type = "OperationReply"
  <2>1. x \in ReplyPromises(doc, q, q)
    BY <1>1, <1>6, <1>10 DEF BuiltPromises
  <2>2. x \in One(doc, q, q, "address", "OperationReplyAddress")
    BY <1>4, <2>1 DEF ReplyPromises
  <2>3. <<type, "address", "OperationReplyAddress">> \in FieldTypes
    BY <1>10 DEF FieldTypes
  <2> QED BY <1>2, <2>2, <2>3
<1>11. CASE type = "Message"
  <2>1. x \in MessagePromises(doc, q, q)
    BY <1>1, <1>6, <1>11 DEF BuiltPromises
  <2>2. /\ <<type, "headers", "Object">> \in FieldTypes /\ <<type, "payload", "Object">> \in FieldTypes
        /\ <<type, "bindings", "Bindings">> \in FieldTypes
        /\ <<type, "correlationId", "CorrelationID">> \in FieldTypes
    BY <1>11 DEF FieldTypes
  <2>3. CASE x \in One(doc, q, q, "headers", "Object")
    BY <1>2, <2>2, <2>3
  <2>4. CASE x \in One(doc, q, q, "payload", "Object")
    BY <1>2, <2>2, <2>4
  <2>5. CASE x \in One(doc, q, q, "bindings", "Bindings")
    BY <1>2, <2>2, <2>5
  <2>6. CASE x \in One(doc, q, q, "correlationId", "CorrelationID")
    BY <1>2, <2>2, <2>6
  <2> QED BY <2>1, <2>3, <2>4, <2>5, <2>6 DEF MessagePromises
<1>12. CASE type = "Object"
  <2>1. x \in SchemaPromises(doc, q, q)
    BY <1>1, <1>6, <1>12 DEF BuiltPromises
  <2>2. CASE x \in UnionPromises(doc, q, q)
    <3>1. PICK key \in {"oneOf", "anyOf", "allOf"} : x \in Each(doc, q, q, key, "Object")
      BY <2>2 DEF UnionPromises
    <3>2. <<type, key, "List", "Object">> \in ElementTypes
      BY <1>12 DEF ElementTypes
    <3> QED BY <1>3, <3>1, <3>2
  <2>3. CASE x \in StructPromises(doc, q, q)
    <3>1. <<type, "properties", "Map", "Object">> \in ElementTypes
      BY <1>12 DEF ElementTypes
    <3>2. CASE x \in Each(doc, q, q, "properties", "Object")
      BY <1>3, <3>1, <3>2
    <3>3. CASE x \in OneSchema(doc, q, q, "additionalProperties")
      BY <3>3, OneSchemaFound
    <3> QED BY <2>3, <3>2, <3>3 DEF StructPromises
  <2>4. CASE x \in OneSchema(doc, q, q, "items")
    BY <2>4, OneSchemaFound
  <2> QED BY <2>1, <2>2, <2>3, <2>4 DEF SchemaPromises
<1> QED BY <1>1, <1>6, <1>7, <1>8, <1>9, <1>10, <1>11, <1>12 DEF BuiltPromises

(* What an object expects among its own fields, by a pointer it composes,  *)
(* is compiled, once, and of that type: whatever the document is.          *)
THEOREM FieldsFound == Spec => []FieldsAreFound
<1>1. ASSUME Inv
      PROVE  FieldsAreFound
  <2> SUFFICES ASSUME Compiled, NEW p \in promises, p.by = "field"
               PROVE  \E i \in DOMAIN artifacts :
                        /\ {j \in DOMAIN artifacts : artifacts[j].ptr = p.to} = {i}
                        /\ artifacts[i].form = "Ref" \/ artifacts[i].type = p.want
    BY DEF FieldsAreFound
  <2>1. IsTree(doc) /\ IsTyped(doc) /\ ArtifactsInv /\ PromisesInv /\ frames = <<>>
    <3>1. WalkInv /\ IsTree(doc) /\ IsTyped(doc) /\ frames = <<>>
      BY <1>1 DEF Inv, Compiled
    <3> QED BY <3>1 DEF WalkInv
  <2>2. IsFound(p)
    BY <2>1, PromisesAreFound DEF PromisesInv
  <2>3. Visited(p.to)
    BY <2>1, <2>2 DEF Visited, IsFound, Pending
  <2>4. PICK i \in DOMAIN artifacts : artifacts[i].ptr = p.to
    BY <2>1, <2>2, <2>3 DEF ArtifactsInv, IsFound
  <2>5. \A j \in DOMAIN artifacts : artifacts[j].ptr = p.to => j = i
    BY <2>1, <2>4 DEF ArtifactsInv
  <2>6. PICK r \in DOMAIN doc : IsArtifact(artifacts[i], r)
    BY <2>1 DEF ArtifactsInv
  <2>7. r = p.to
    BY <2>4, <2>6, ArtifactPtr
  <2>8. artifacts[i].type = doc[r].type
    BY <2>6 DEF IsArtifact, Artifact
  <2> QED BY <2>2, <2>4, <2>5, <2>7, <2>8 DEF IsFound
<1> QED BY <1>1, WalkInvariance, PTL

-----------------------------------------------------------------------------
(* Where schemas stand *)

LEMMA OnPath ==
  ASSUME IsTree(doc), NEW p \in DOMAIN doc, p # <<>>
  PROVE  /\ Front(p) \in DOMAIN doc /\ Has(doc, Front(p), Last(p)) /\ Front(p) \o <<Last(p)>> = p
         /\ Len(Front(p)) = Len(p) - 1 /\ Len(p) \in Nat \ {0} /\ Last(p) = p[Len(p)]
         /\ \A i \in 1 .. Len(p) - 1 : Front(p)[i] = p[i]
<1>1. PICK S : S = STRING
  OBVIOUS
<1>2. p \in Seq(S)
  BY <1>1 DEF IsTree
<1>3. PICK q \in Seq(S) : /\ q = Front(p) /\ Len(q) = Len(p) - 1 /\ Len(p) \in Nat \ {0}
                          /\ \A i \in 1 .. Len(p) - 1 : q[i] = p[i]
  BY <1>2, FrontParts
<1>4. PICK k \in S : k = Last(p) /\ k = p[Len(p)]
  BY <1>2, FrontParts
<1>5. q \in DOMAIN doc /\ Has(doc, q, k)
  <2>1. SubSeq(p, 1, Len(p) - 1) = q
    BY <1>3 DEF Front
  <2>2. Len(p) \in 1 .. Len(p)
    BY <1>3
  <2> QED BY <1>4, <2>1, <2>2 DEF IsTree
<1>6. q \o <<k>> = p
  <2>1. IsChild(q \o <<k>>, q, k) /\ q \o <<k>> \in Seq(S)
    BY <1>3, <1>4, ChildParts
  <2>2. PICK c \in Seq(S) : c = q \o <<k>> /\ IsChild(c, q, k)
    BY <2>1
  <2>3. Len(c) = Len(p) /\ c[Len(c)] = k /\ \A i \in 1 .. Len(q) : c[i] = q[i]
    BY <1>3, <2>2 DEF IsChild
  <2>4. ASSUME NEW i \in 1 .. Len(c)
        PROVE  c[i] = p[i]
    <3>1. i = Len(p) \/ i \in 1 .. Len(q)
      BY <1>3, <2>3
    <3> QED BY <1>3, <1>4, <2>3, <3>1
  <2>5. c = p
    BY <1>2, <2>2, <2>3, <2>4, SameSequence
  <2> QED BY <2>2, <2>5
<1> QED BY <1>3, <1>4, <1>5, <1>6

LEMMA SelectableTagsOf ==
  ASSUME NEW type, NEW key
  PROVE  "selectable" \in FieldTags(type, key)
         <=> \/ type = "AsyncAPI" /\ key \in {"servers", "channels", "operations"}
             \/ type = "Components" /\ key = "schemas"
             \/ type = "Channel" /\ key = "messages"
             \/ type = "Object" /\ key \in {"allOf", "anyOf", "oneOf"}
BY DEF FieldTags

(* The containers that are tagged, and what is in them. *)
LEMMA TaggedContainers ==
  ASSUME IsTree(doc), IsTyped(doc), NEW q \in DOMAIN doc, NEW k, Has(doc, q, k),
         "selectable" \in FieldTags(doc[q].type, k)
  PROVE  /\ doc[q \o <<k>>].type \in Containers
         /\ doc[q].type = "Object" => doc[q \o <<k>>].type = "List"
         /\ \A j \in ToSet(doc[q \o <<k>>].keys) :
              doc[q \o <<k, j>>].type = "Object" => doc[q].type \in {"Components", "Object"}
<1>1. ASSUME NEW container, NEW type, <<doc[q].type, k, container, type>> \in ElementTypes
      PROVE  /\ doc[q \o <<k>>].type = container /\ container \in Containers
             /\ \A j \in ToSet(doc[q \o <<k>>].keys) : doc[q \o <<k, j>>].type = type
  <2>1. PICK e \in ElementTypes : e[1] = doc[q].type /\ e[2] = k /\ e[3] = container /\ e[4] = type
    BY <1>1
  <2>2. Has(doc, q, e[2])
    BY <2>1
  <2>3. /\ doc[q \o <<e[2]>>].type = e[3]
        /\ \A j \in ToSet(doc[q \o <<e[2]>>].keys) : doc[q \o <<e[2], j>>].type = e[4]
    BY <2>1, <2>2 DEF IsTyped
  <2> QED BY <2>1, <2>3, TypesOfFields
<1>2. CASE doc[q].type = "AsyncAPI" /\ k \in {"servers", "channels", "operations"}
  <2>1. PICK type : type \in {"Server", "Channel", "Operation"}
                    /\ <<doc[q].type, k, "Map", type>> \in ElementTypes
    BY <1>2 DEF ElementTypes
  <2> QED BY <1>1, <1>2, <2>1
<1>3. CASE doc[q].type = "Components" /\ k = "schemas"
  <2>1. <<doc[q].type, k, "Map", "Object">> \in ElementTypes
    BY <1>3 DEF ElementTypes
  <2> QED BY <1>1, <1>3, <2>1
<1>4. CASE doc[q].type = "Channel" /\ k = "messages"
  <2>1. <<doc[q].type, k, "Map", "Message">> \in ElementTypes
    BY <1>4 DEF ElementTypes
  <2> QED BY <1>1, <1>4, <2>1
<1>5. CASE doc[q].type = "Object" /\ k \in {"allOf", "anyOf", "oneOf"}
  <2>1. <<doc[q].type, k, "List", "Object">> \in ElementTypes
    BY <1>5 DEF ElementTypes
  <2> QED BY <1>1, <1>5, <2>1
<1> QED BY <1>2, <1>3, <1>4, <1>5, SelectableTagsOf

LEMMA SchemaSelectable ==
  ASSUME IsTree(doc), IsTyped(doc), NEW p \in DOMAIN doc, doc[p].type = "Object"
  PROVE  SelectableAt(p) <=> StandsAlone(p)
<1>1. p # <<>>
  BY DEF IsTyped
<1>2. PICK q : q = Front(p)
  OBVIOUS
<1>3. PICK k : k = Last(p)
  OBVIOUS
<1>4. /\ q \in DOMAIN doc /\ Has(doc, q, k) /\ q \o <<k>> = p
      /\ Len(q) = Len(p) - 1 /\ Len(p) \in Nat \ {0} /\ k = p[Len(p)]
      /\ \A i \in 1 .. Len(p) - 1 : q[i] = p[i]
  BY <1>1, <1>2, <1>3, OnPath
<1>5. CASE doc[q].type \notin Containers
  <2>1. ~SelectableAt(p)
    <3>1. SelectableAt(p) <=> "selectable" \in FieldTags(doc[q].type, k)
      BY <1>2, <1>3, <1>5 DEF SelectableAt
    <3>2. "selectable" \in FieldTags(doc[q].type, k) => doc[p].type \in Containers
      BY <1>4, TaggedContainers
    <3> QED BY <3>1, <3>2 DEF Containers
  <2>2. ~StandsAlone(p)
    <3>1. doc[q].type # "List"
      BY <1>5 DEF Containers
    <3>2. ~(Len(p) = 3 /\ SubSeq(p, 1, 2) = <<"components", "schemas">>)
      <4> SUFFICES ASSUME Len(p) = 3, SubSeq(p, 1, 2) = <<"components", "schemas">>
                   PROVE  FALSE
        OBVIOUS
      <4>1. q = <<"components", "schemas">>
        BY <1>2 DEF Front
      <4>2. PICK r : r = Front(q)
        OBVIOUS
      <4>3. /\ r \in DOMAIN doc /\ Has(doc, r, "schemas") /\ r \o <<"schemas">> = q /\ Len(r) = 1
            /\ r[1] = "components"
        <5>1. q # <<>> /\ Len(q) = 2 /\ q[1] = "components" /\ q[2] = "schemas"
          BY <4>1
        <5>2. PICK l : l = Last(q)
          OBVIOUS
        <5>3. /\ r \in DOMAIN doc /\ Has(doc, r, l) /\ r \o <<l>> = q /\ l = q[Len(q)]
              /\ Len(r) = Len(q) - 1 /\ \A i \in 1 .. Len(q) - 1 : r[i] = q[i]
          BY <1>4, <4>2, <5>1, <5>2, OnPath
        <5>4. Len(r) = 1 /\ r[1] = q[1] /\ l = "schemas"
          BY <5>1, <5>3
        <5> QED BY <5>1, <5>3, <5>4
      <4>4. doc[r].type = "Components"
        BY <4>3, ComponentsAt
      <4>5. doc[q].type \in Containers
        <5>1. "selectable" \in FieldTags(doc[r].type, "schemas")
          BY <4>4, SelectableTagsOf
        <5> QED BY <4>3, <5>1, TaggedContainers
      <4> QED BY <1>5, <4>5
    <3> QED BY <1>2, <3>1, <3>2 DEF StandsAlone
  <2> QED BY <2>1, <2>2
<1>6. CASE doc[q].type \in Containers
  <2>1. q # <<>>
    BY <1>6 DEF IsTyped, Containers
  <2>2. PICK r : r = Front(q)
    OBVIOUS
  <2>3. PICK l : l = Last(q)
    OBVIOUS
  <2>4. /\ r \in DOMAIN doc /\ Has(doc, r, l) /\ r \o <<l>> = q
        /\ Len(r) = Len(q) - 1 /\ Len(q) \in Nat \ {0} /\ l = q[Len(q)]
        /\ \A i \in 1 .. Len(q) - 1 : r[i] = q[i]
    BY <1>4, <2>1, <2>2, <2>3, OnPath
  <2>5. SelectableAt(p) <=> "selectable" \in FieldTags(doc[r].type, l)
    BY <1>2, <1>6, <2>2, <2>3 DEF SelectableAt
  <2>6. l = p[Len(p) - 1] /\ Len(p) > 1
    BY <1>4, <2>4
  <2>7. ASSUME "selectable" \in FieldTags(doc[r].type, l)
        PROVE  StandsAlone(p)
    <3>1. /\ doc[r].type = "Object" => doc[q].type = "List"
          /\ doc[r \o <<l, k>>].type = "Object" => doc[r].type \in {"Components", "Object"}
      BY <1>4, <2>4, <2>7, TaggedContainers DEF Has
    <3>2. r \o <<l, k>> = p
      <4>1. PICK S : S = STRING
        OBVIOUS
      <4>2. r \in Seq(S) /\ l \in S /\ k \in S
        BY <1>4, <2>4, <4>1, ChildIn DEF IsTree, Has
      <4>3. r \o <<l, k>> = (r \o <<l>>) \o <<k>>
        BY <4>2
      <4> QED BY <1>4, <2>4, <4>3
    <3>3. CASE doc[r].type = "Object"
      <4>1. l \in {"allOf", "anyOf", "oneOf"}
        BY <2>7, <3>3, SelectableTagsOf
      <4> QED BY <1>2, <2>6, <3>1, <3>3, <4>1 DEF StandsAlone
    <3>4. CASE doc[r].type = "Components"
      <4>1. l = "schemas" /\ Len(r) = 1 /\ r[1] = "components"
        BY <2>4, <2>7, <3>4, SelectableTagsOf, ComponentsAt
      <4>2. Len(p) = 3 /\ p[1] = "components" /\ p[2] = "schemas"
        <5>1. \A n \in Nat : (n - 1 = 1 => n = 2) /\ (n - 1 = 2 => n = 3)
          OBVIOUS
        <5>2. Len(q) = 2 /\ Len(p) = 3
          <6>1. Len(q) - 1 = 1 /\ Len(q) \in Nat
            BY <2>4, <4>1
          <6>2. Len(q) = 2
            BY <5>1, <6>1
          <6>3. Len(p) - 1 = 2 /\ Len(p) \in Nat
            BY <1>4, <6>2
          <6> QED BY <5>1, <6>2, <6>3
        <5>3. r[1] = q[1] /\ q[1] = p[1]
          BY <1>4, <2>4, <5>1, <5>2
        <5>4. p[2] = l
          BY <2>6, <5>2
        <5> QED BY <4>1, <5>2, <5>3, <5>4
      <4>3. SubSeq(p, 1, 2) = <<"components", "schemas">>
        <5>1. PICK S : p \in Seq(S) /\ Len(p) > 1
          BY <4>2 DEF IsTree
        <5>2. SubSeq(p, 1, 2) = <<"components", "schemas">> <=> p[1] = "components" /\ p[2] = "schemas"
          BY <5>1, FirstTwo
        <5> QED BY <4>2, <5>2
      <4> QED BY <4>2, <4>3 DEF StandsAlone
    <3> QED BY <3>1, <3>2, <3>3, <3>4
  <2>8. ASSUME StandsAlone(p)
        PROVE  "selectable" \in FieldTags(doc[r].type, l)
    <3>1. CASE Len(p) = 3 /\ SubSeq(p, 1, 2) = <<"components", "schemas">>
      <4>1. p[1] = "components" /\ p[2] = "schemas"
        <5>1. PICK S : p \in Seq(S) /\ Len(p) > 1
          BY <3>1 DEF IsTree
        <5>2. SubSeq(p, 1, 2) = <<"components", "schemas">> <=> p[1] = "components" /\ p[2] = "schemas"
          BY <5>1, FirstTwo
        <5> QED BY <3>1, <5>2
      <4>2. l = "schemas" /\ Len(r) = 1 /\ r[1] = "components"
        BY <1>4, <2>4, <2>6, <3>1, <4>1
      <4>3. doc[r].type = "Components"
        BY <2>4, <4>2, ComponentsAt
      <4> QED BY <4>2, <4>3, SelectableTagsOf
    <3>2. CASE doc[q].type = "List" /\ l \in {"allOf", "anyOf", "oneOf"}
      <4>1. doc[r].type = "Object"
        BY <1>4, <2>1, <2>2, <2>3, <3>2 DEF IsTyped
      <4> QED BY <3>2, <4>1, SelectableTagsOf
    <3> QED BY <1>2, <2>6, <2>8, <3>1, <3>2 DEF StandsAlone
  <2> QED BY <2>5, <2>7, <2>8
<1> QED BY <1>5, <1>6

LEMMA ArtifactModel ==
  ASSUME NEW p, NEW flags
  PROVE  Artifact(doc, p, p, flags).model
           = (/\ doc[p].type = "Object" /\ ~Ignored(doc, p) /\ ~IsReference(doc, p)
              /\ IsStruct(doc, p) /\ "data_model" \in flags)
BY Zenon DEF Artifact

(* However deep a schema is nested, and whatever the document is, its      *)
(* fields are tagged for the message or shared schema it belongs to and it *)
(* gets a definition only where something can name it.                     *)
THEOREM SchemasInPlace == Spec => []SchemasInheritTheirPlace
<1>1. ASSUME Inv
      PROVE  SchemasInheritTheirPlace
  <2> SUFFICES ASSUME Compiled, NEW i \in DOMAIN artifacts, NEW a, a = artifacts[i],
                      a.type = "Object", a.form = "Built"
               PROVE  /\ a.model <=> InDataModel(a.ptr) /\ IsStruct(doc, a.ptr)
                      /\ a.sel = "yes" <=> StandsAlone(a.ptr) /\ HasDefinition(doc, a.ptr)
    BY DEF SchemasInheritTheirPlace
  <2>1. IsTree(doc) /\ IsTyped(doc) /\ ArtifactsInv
    <3>1. WalkInv /\ IsTree(doc) /\ IsTyped(doc)
      BY <1>1 DEF Inv, Compiled
    <3> QED BY <3>1 DEF WalkInv
  <2>2. PICK p \in DOMAIN doc : IsArtifact(a, p)
    BY <2>1 DEF ArtifactsInv
  <2>3. PICK flags \in SUBSET Tags : a = Artifact(doc, p, p, flags) /\ (p # <<>> => AreTags(p, flags))
    BY <2>2 DEF IsArtifact
  <2>4. a.ptr = p /\ a.type = doc[p].type
    BY <2>3 DEF Artifact
  <2>5. p # <<>>
    BY <2>1, <2>4 DEF IsTyped
  <2>6. ~Ignored(doc, p) /\ ~IsReference(doc, p)
    BY <2>3 DEF Artifact
  <2>7. a.model <=> IsStruct(doc, p) /\ "data_model" \in flags
    <3>1. Artifact(doc, p, p, flags).model
            = (/\ doc[p].type = "Object" /\ ~Ignored(doc, p) /\ ~IsReference(doc, p)
               /\ IsStruct(doc, p) /\ "data_model" \in flags)
      BY ArtifactModel, Zenon
    <3>2. a.model = Artifact(doc, p, p, flags).model
      BY <2>3
    <3> QED BY <2>4, <2>6, <3>1, <3>2, Zenon
  <2>8. a.sel = "yes" <=> "selectable" \in flags /\ HasDefinition(doc, p)
    <3>1. a.sel = IF BuiltSelectable(doc, p, flags) THEN "yes" ELSE "no"
      BY <2>3, <2>6 DEF Artifact
    <3>2. BuiltSelectable(doc, p, flags) <=> "selectable" \in flags /\ HasDefinition(doc, p)
      BY <2>4 DEF BuiltSelectable
    <3> QED BY <3>1, <3>2
  <2>9. /\ "data_model" \in flags <=> InDataModel(p)
        /\ "selectable" \in flags <=> StandsAlone(p)
    BY <2>1, <2>3, <2>4, <2>5, SchemaSelectable DEF AreTags
  <2> QED BY <2>4, <2>7, <2>8, <2>9, Zenon
<1> QED BY <1>1, WalkInvariance, PTL

-----------------------------------------------------------------------------
(* What the walk has left behind *)

(* A document that is compiled. *)
Whole ==
  /\ IsTree(doc) /\ IsTyped(doc) /\ IsPlaced(doc)
  /\ ArtifactsInv /\ PromisesInv /\ frames = <<>>

LEMMA CompiledWhole ==
  ASSUME Inv, Compiled
  PROVE  Whole
<1>1. WalkInv /\ frames = <<>> /\ IsTree(doc) /\ IsTyped(doc) /\ IsPlaced(doc)
  BY DEF Inv, Compiled
<1> QED BY <1>1 DEF WalkInv, Whole

IsOfNode(a) ==
  /\ a.ptr \in DOMAIN doc /\ IsObject(a.ptr) /\ IsArtifact(a, a.ptr)
  /\ ~Refused(doc, a.ptr) /\ PromisesOf(doc, a.ptr, a.ptr) \subseteq promises
  /\ a.type = doc[a.ptr].type /\ a.form \in {"Dummy", "Ref", "Built"}
  /\ a.form = "Dummy" <=> Ignored(doc, a.ptr)
  /\ a.form = "Ref" <=> IsReference(doc, a.ptr)

LEMMA ArtifactForm ==
  ASSUME NEW p, NEW a, IsArtifact(a, p)
  PROVE  /\ a.type = doc[p].type /\ a.form \in {"Dummy", "Ref", "Built"}
         /\ a.form = "Dummy" <=> Ignored(doc, p)
         /\ a.form = "Ref" <=> IsReference(doc, p)
<1>1. PICK flags : a = Artifact(doc, p, p, flags)
  BY DEF IsArtifact
<1>2. /\ a.type = doc[p].type
      /\ a.form = IF Ignored(doc, p) THEN "Dummy" ELSE IF IsReference(doc, p) THEN "Ref" ELSE "Built"
  BY <1>1 DEF Artifact
<1> QED BY <1>2 DEF IsReference

LEMMA OfNode ==
  ASSUME Whole, NEW a \in All
  PROVE  IsOfNode(a)
<1>1. PICK i \in DOMAIN artifacts : a = artifacts[i]
  BY DEF All, ToSet
<1>2. PICK p \in DOMAIN doc : Visited(p) /\ IsArtifact(a, p)
  BY <1>1 DEF Whole, ArtifactsInv
<1>3. a.ptr = p
  BY <1>2, ArtifactPtr
<1>4. ~Refused(doc, p) /\ PromisesOf(doc, p, p) \subseteq promises /\ IsObject(p)
  BY <1>2 DEF Whole, PromisesInv, Visited
<1> QED BY <1>2, <1>3, <1>4, ArtifactForm DEF IsOfNode

LEMMA SameArtifact ==
  ASSUME Whole, NEW a \in All, NEW b \in All, a.ptr = b.ptr
  PROVE  a = b
<1>1. PICK i \in DOMAIN artifacts, j \in DOMAIN artifacts : a = artifacts[i] /\ b = artifacts[j]
  BY DEF All, ToSet
<1> QED BY <1>1 DEF Whole, ArtifactsInv

LEMMA HasArtifact ==
  ASSUME Whole, NEW p \in DOMAIN doc, IsObject(p)
  PROVE  \E a \in All : a.ptr = p
<1>1. Visited(p)
  BY DEF Whole, Visited, Pending
<1>2. PICK i \in DOMAIN artifacts : artifacts[i].ptr = p
  BY <1>1 DEF Whole, ArtifactsInv
<1> QED BY <1>2 DEF All, ToSet

(* The section of the root in which objects of a type stand. *)
SectionOf(type) ==
  IF type = "Server" THEN "servers" ELSE IF type = "Channel" THEN "channels" ELSE "operations"

Sections == {"servers", "channels", "operations"}

Sectioned == {"Server", "Channel", "Operation"}

LEMMA SectionElements ==
  ASSUME IsTyped(doc), NEW r \in DOMAIN doc, NEW l \in Sections, Has(doc, r, l), doc[r].type = "AsyncAPI"
  PROVE  /\ doc[r \o <<l>>].type = "Map"
         /\ \A j \in ToSet(doc[r \o <<l>>].keys) : SectionOf(doc[r \o <<l, j>>].type) = l
<1>1. PICK type : SectionOf(type) = l /\ <<"AsyncAPI", l, "Map", type>> \in ElementTypes
  BY DEF ElementTypes, Sections, SectionOf
<1>2. PICK e \in ElementTypes : e[1] = "AsyncAPI" /\ e[2] = l /\ e[3] = "Map" /\ e[4] = type
  BY <1>1
<1>3. /\ doc[r \o <<e[2]>>].type = e[3]
      /\ \A j \in ToSet(doc[r \o <<e[2]>>].keys) : doc[r \o <<e[2], j>>].type = e[4]
  BY <1>2 DEF IsTyped
<1> QED BY <1>1, <1>2, <1>3

LEMMA OneByOne ==
  ASSUME NEW S, NEW s \in Seq(S), NEW x \in S, NEW y \in S
  PROVE  s \o <<x, y>> = (s \o <<x>>) \o <<y>>
<1>1. PICK n \in Nat : n = Len(s)
  OBVIOUS
<1>2. PICK u \in Seq(S) : u = s \o <<x>> /\ IsChild(u, s, x)
  BY ChildParts
<1>3. PICK v \in Seq(S) : v = u \o <<y>> /\ IsChild(v, u, y)
  BY ChildParts
<1>4. /\ Len(v) = n + 2 /\ v[n + 1] = x /\ v[n + 2] = y
      /\ \A i \in 1 .. n : v[i] = s[i]
  <2>1. n + 1 \in 1 .. n + 1 /\ (n + 1) + 1 = n + 2 /\ \A i \in 1 .. n : i \in 1 .. n + 1
    OBVIOUS
  <2>2. Len(u) = n + 1 /\ u[n + 1] = x /\ \A i \in 1 .. n : u[i] = s[i]
    BY <1>1, <1>2 DEF IsChild
  <2>3. Len(v) = n + 2 /\ v[n + 2] = y /\ \A i \in 1 .. n + 1 : v[i] = u[i]
    BY <1>3, <2>1, <2>2 DEF IsChild
  <2> QED BY <2>1, <2>2, <2>3
<1>5. PICK g : g = <<x, y>>
  OBVIOUS
<1>6. g \in Seq(S) /\ Len(g) = 2 /\ g[1] = x /\ g[2] = y
  BY <1>5
<1>7. PICK w : w = s \o g
  OBVIOUS
<1>8. /\ w \in Seq(S) /\ Len(w) = n + 2
      /\ \A i \in 1 .. n : w[i] = s[i]
      /\ \A i \in 1 .. 2 : w[n + i] = g[i]
  <2>1. w \in Seq(S) /\ Len(w) = Len(s) + Len(g)
    BY <1>6, <1>7, Concatenated
  <2>2. \A i \in 1 .. Len(s) : w[i] = s[i]
    BY <1>6, <1>7, Concatenated
  <2>3. \A i \in 1 .. Len(g) : w[Len(s) + i] = g[i]
    <3>1. g \in Seq(S)
      BY <1>6
    <3> QED BY <1>7, <3>1, Concatenated
  <2> QED BY <1>1, <1>6, <2>1, <2>2, <2>3
<1>9. w[n + 1] = x /\ w[n + 2] = y
  BY <1>6, <1>8
<1>10. \A i \in 1 .. n + 2 : i \in 1 .. n \/ i = n + 1 \/ i = n + 2
  OBVIOUS
<1>11. w = v
  BY <1>4, <1>8, <1>9, <1>10, SameSequence
<1> QED BY <1>2, <1>3, <1>5, <1>7, <1>11

LEMMA OfContainer ==
  ASSUME Whole, NEW q \in DOMAIN doc, NEW l \in ToSet(doc[q].keys), NEW k \in ToSet(doc[q \o <<l>>].keys)
  PROVE  q \o <<l, k>> = (q \o <<l>>) \o <<k>>
<1>1. PICK S : S = STRING
  OBVIOUS
<1>2. q \in Seq(S) /\ l \in S /\ q \o <<l>> \in DOMAIN doc
  <2>1. IsTree(doc) /\ q \in Seq(S)
    BY <1>1 DEF Whole, IsTree
  <2> QED BY <1>1, <2>1, ChildIn
<1>3. k \in S
  <2>1. IsTree(doc)
    BY DEF Whole
  <2> QED BY <1>1, <1>2, <2>1, ChildIn
<1> QED BY <1>2, <1>3, OneByOne

(* In a section of the root servers, channels and operations are tagged,   *)
(* and nowhere else.                                                       *)
LEMMA TaggedInSection ==
  ASSUME Whole, NEW p \in DOMAIN doc, doc[p].type \in Sectioned
  PROVE  /\ SelectableAt(p) <=> p[1] = SectionOf(doc[p].type)
         /\ Len(p) > 1
<1>1. /\ IsTree(doc) /\ IsTyped(doc) /\ Len(p) > 1
      /\ doc[Front(Front(p))].type \in {"AsyncAPI", "Components"}
  BY DEF Whole, IsPlaced, Sectioned
<1>2. PICK q : q = Front(p)
  OBVIOUS
<1>3. PICK k : k = Last(p)
  OBVIOUS
<1>4. /\ q \in DOMAIN doc /\ Has(doc, q, k) /\ q \o <<k>> = p
      /\ Len(q) = Len(p) - 1 /\ Len(p) \in Nat \ {0}
      /\ \A i \in 1 .. Len(p) - 1 : q[i] = p[i]
  <2>1. p # <<>>
    BY <1>1
  <2> QED BY <1>1, <1>2, <1>3, <2>1, OnPath
<1>5. q # <<>> /\ q[1] = p[1]
  <2>1. 1 \in 1 .. Len(p) - 1 /\ Len(q) # 0
    BY <1>1, <1>4
  <2> QED BY <1>4, <2>1
<1>6. PICK r : r = Front(q)
  OBVIOUS
<1>7. PICK l : l = Last(q)
  OBVIOUS
<1>8. /\ r \in DOMAIN doc /\ Has(doc, r, l) /\ r \o <<l>> = q
      /\ Len(r) = Len(q) - 1 /\ Len(q) \in Nat \ {0} /\ l = q[Len(q)]
      /\ \A i \in 1 .. Len(q) - 1 : r[i] = q[i]
  BY <1>1, <1>4, <1>5, <1>6, <1>7, OnPath
<1>9. r \o <<l, k>> = p
  BY <1>4, <1>8, OfContainer DEF Has
<1>10. CASE doc[r].type = "Components"
  <2>1. r = <<"components">>
    BY <1>1, <1>8, <1>10 DEF IsTyped
  <2>2. p[1] = "components"
    <3>1. Len(r) = 1 /\ r[1] = "components"
      BY <2>1
    <3>2. 1 \in 1 .. Len(q) - 1
      BY <1>8, <3>1
    <3> QED BY <1>5, <1>8, <3>1, <3>2
  <2>3. ~SelectableAt(p)
    <3>1. CASE doc[q].type \in Containers
      <4>1. SelectableAt(p) <=> "selectable" \in FieldTags(doc[r].type, l)
        BY <1>2, <1>6, <1>7, <3>1 DEF SelectableAt
      <4>2. "selectable" \in FieldTags(doc[r].type, l) => l = "schemas"
        BY <1>10, SelectableTagsOf
      <4>3. l = "schemas" => doc[p].type = "Object"
        <5> SUFFICES ASSUME l = "schemas" PROVE doc[p].type = "Object"
          OBVIOUS
        <5>1. PICK e \in ElementTypes : e[1] = "Components" /\ e[2] = l /\ e[4] = "Object"
          <6>1. <<"Components", "schemas", "Map", "Object">> \in ElementTypes
            BY DEF ElementTypes
          <6> QED BY <6>1
        <5>2. \A j \in ToSet(doc[r \o <<e[2]>>].keys) : doc[r \o <<e[2], j>>].type = e[4]
          BY <1>1, <1>8, <1>10, <5>1 DEF IsTyped
        <5>3. k \in ToSet(doc[r \o <<e[2]>>].keys)
          BY <1>4, <1>8, <5>1 DEF Has
        <5>4. doc[r \o <<e[2], k>>].type = e[4] /\ r \o <<e[2], k>> = p
          BY <1>9, <5>1, <5>2, <5>3
        <5> QED BY <5>1, <5>4
      <4> QED BY <4>1, <4>2, <4>3 DEF Sectioned
    <3>2. CASE doc[q].type \notin Containers
      <4>1. SelectableAt(p) <=> "selectable" \in FieldTags(doc[q].type, k)
        BY <1>2, <1>3, <3>2 DEF SelectableAt
      <4>2. "selectable" \in FieldTags(doc[q].type, k) => doc[p].type \in Containers
        BY <1>1, <1>4, TaggedContainers
      <4> QED BY <4>1, <4>2 DEF Sectioned, Containers
    <3> QED BY <3>1, <3>2
  <2> QED BY <1>1, <2>2, <2>3 DEF SectionOf
<1>11. CASE doc[r].type = "AsyncAPI"
  <2>1. r = <<>>
    BY <1>8, <1>11 DEF Whole, IsPlaced
  <2>2. p[1] = l
    <3>1. Len(r) = 0
      BY <2>1
    <3>2. Len(q) = 1
      BY <1>8, <3>1
    <3> QED BY <1>5, <1>8, <3>2
  <2>3. l \in Sections => doc[q].type \in Containers /\ SectionOf(doc[p].type) = l
    <3> SUFFICES ASSUME l \in Sections PROVE doc[q].type \in Containers /\ SectionOf(doc[p].type) = l
      OBVIOUS
    <3>1. /\ doc[r \o <<l>>].type = "Map"
          /\ \A j \in ToSet(doc[r \o <<l>>].keys) : SectionOf(doc[r \o <<l, j>>].type) = l
      BY <1>1, <1>8, <1>11, SectionElements
    <3> QED BY <1>4, <1>8, <1>9, <3>1 DEF Containers, Has
  <2>4. SelectableAt(p) => l \in Sections
    <3>1. CASE doc[q].type \in Containers
      <4>1. SelectableAt(p) <=> "selectable" \in FieldTags(doc[r].type, l)
        BY <1>2, <1>6, <1>7, <3>1 DEF SelectableAt
      <4> QED BY <1>11, <4>1, SelectableTagsOf DEF Sections
    <3>2. CASE doc[q].type \notin Containers
      <4>1. SelectableAt(p) <=> "selectable" \in FieldTags(doc[q].type, k)
        BY <1>2, <1>3, <3>2 DEF SelectableAt
      <4>2. "selectable" \in FieldTags(doc[q].type, k) => doc[p].type \in Containers
        BY <1>1, <1>4, TaggedContainers
      <4> QED BY <4>1, <4>2 DEF Sectioned, Containers
    <3> QED BY <3>1, <3>2
  <2>5. l \in Sections => SelectableAt(p)
    <3> SUFFICES ASSUME l \in Sections PROVE SelectableAt(p)
      OBVIOUS
    <3>1. SelectableAt(p) <=> "selectable" \in FieldTags(doc[r].type, l)
      BY <1>2, <1>6, <1>7, <2>3 DEF SelectableAt
    <3> QED BY <1>11, <3>1, SelectableTagsOf DEF Sections
  <2>6. SectionOf(doc[p].type) \in Sections
    BY DEF SectionOf, Sections
  <2> QED BY <1>1, <2>2, <2>3, <2>4, <2>5, <2>6
<1> QED BY <1>1, <1>6, <1>2, <1>10, <1>11

LEMMA ArtifactSel ==
  ASSUME NEW p, NEW flags
  PROVE  LET a == Artifact(doc, p, p, flags)
         IN /\ a.form = "Dummy" => a.sel = "no"
            /\ a.form # "Dummy" /\ doc[p].type \in Sectioned \cup {"Message"} =>
                 (a.sel = "yes" <=> "selectable" \in flags)
<1>1. PICK a : a = Artifact(doc, p, p, flags)
  OBVIOUS
<1>2. /\ a.form = IF Ignored(doc, p) THEN "Dummy" ELSE IF IsReference(doc, p) THEN "Ref" ELSE "Built"
      /\ a.sel = IF Ignored(doc, p) THEN "no"
                 ELSE IF IsReference(doc, p) THEN RefSelectable(doc[p].type, flags)
                 ELSE IF BuiltSelectable(doc, p, flags) THEN "yes" ELSE "no"
  BY <1>1 DEF Artifact
<1>3. CASE Ignored(doc, p)
  BY <1>1, <1>2, <1>3
<1>4. CASE ~Ignored(doc, p)
  <2>1. doc[p].type \in Sectioned \cup {"Message"} =>
          /\ RefSelectable(doc[p].type, flags) = "yes" <=> "selectable" \in flags
          /\ BuiltSelectable(doc, p, flags) <=> "selectable" \in flags
    BY DEF RefSelectable, BuiltSelectable, Sectioned
  <2> QED BY <1>1, <1>2, <1>4, <2>1
<1> QED BY <1>3, <1>4

(* Such objects ask to be selected in the sections of the root. *)
LEMMA SelInSection ==
  ASSUME Whole, NEW a \in All, a.type \in Sectioned
  PROVE  /\ a.sel = "yes" <=> a.form # "Dummy" /\ a.ptr[1] = SectionOf(a.type)
         /\ Len(a.ptr) > 1
<1>1. IsOfNode(a)
  BY OfNode
<1>2. PICK p \in DOMAIN doc : p = a.ptr /\ doc[p].type = a.type /\ IsArtifact(a, p)
  BY <1>1 DEF IsOfNode
<1>3. PICK flags : a = Artifact(doc, p, p, flags) /\ (p # <<>> => AreTags(p, flags))
  BY <1>2 DEF IsArtifact
<1>4. (SelectableAt(p) <=> p[1] = SectionOf(a.type)) /\ Len(p) > 1
  BY <1>2, TaggedInSection
<1>5. p # <<>>
  BY <1>4
<1>6. "selectable" \in flags <=> p[1] = SectionOf(a.type)
  BY <1>3, <1>4, <1>5 DEF AreTags
<1>7. /\ a.form = "Dummy" => a.sel = "no"
      /\ a.form # "Dummy" => (a.sel = "yes" <=> "selectable" \in flags)
  BY <1>2, <1>3, ArtifactSel
<1> QED BY <1>2, <1>4, <1>6, <1>7

-----------------------------------------------------------------------------
(* Linking *)

LEMMA Numbers ==
  ASSUME NEW S, 0 \in S, \A n \in Nat : n \in S => n + 1 \in S
  PROVE  Nat \subseteq S
<1> DEFINE C == Nat \ S
<1>1. SUFFICES ASSUME C # {}
               PROVE  FALSE
  OBVIOUS
<1>2. PICK n \in C : \A m \in C : ~(<<m, n>> \in OpToRel(<, Nat))
  BY <1>1, NatLessThanWellFounded, WFMin
<1>3. \A m \in Nat : m < n => m \in S
  BY <1>2, Zenon DEF OpToRel
<1>4. n \in Nat /\ n # 0
  OBVIOUS
<1>5. n - 1 \in Nat /\ n - 1 < n /\ (n - 1) + 1 = n
  BY <1>4
<1> QED
  BY <1>3, <1>5

IsHops(f, hop, count) ==
  f = [n \in 0 .. count |->
         IF n = 0 THEN [ptr \in Pointers |-> ptr]
         ELSE [ptr \in Pointers |-> hop[f[n - 1][ptr]]]]

IsHop(f, hop, n) ==
  f[n] = IF n = 0 THEN [ptr \in Pointers |-> ptr]
         ELSE [ptr \in Pointers |-> hop[f[n - 1][ptr]]]

LEMMA SomeHops ==
  ASSUME NEW hop, NEW count, NEW h, IsHops(h, hop, count)
  PROVE  \E f : IsHops(f, hop, count) /\ Hops(hop, count) = f[count]
BY Zenon DEF Hops, IsHops

LEMMA HopsParts ==
  ASSUME NEW f, NEW hop, NEW count \in Nat, IsHops(f, hop, count)
  PROVE  f[0] = [ptr \in Pointers |-> ptr] /\ \A n \in 0 .. count : IsHop(f, hop, n)
<1>1. \A n \in 0 .. count : IsHop(f, hop, n)
  BY Zenon DEF IsHops, IsHop
<1>2. 0 \in 0 .. count
  OBVIOUS
<1>3. f[0] = [ptr \in Pointers |-> ptr]
  BY <1>1, <1>2 DEF IsHop
<1> QED BY <1>1, <1>3

LEMMA HopsExist ==
  ASSUME NEW hop
  PROVE  \A n \in Nat : \E f : IsHops(f, hop, n)
<1> DEFINE S == {n \in Nat : \E f : IsHops(f, hop, n)}
<1>1. 0 \in S
  <2>1. PICK f : f = [n \in 0 .. 0 |-> [ptr \in Pointers |-> ptr]]
    OBVIOUS
  <2>2. IsHops(f, hop, 0)
    BY <2>1 DEF IsHops
  <2> QED BY <2>2
<1>2. ASSUME NEW n \in Nat, n \in S
      PROVE  n + 1 \in S
  <2>1. PICK f : IsHops(f, hop, n)
    BY <1>2
  <2>2. \A i \in 0 .. n : IsHop(f, hop, i)
    BY <2>1, HopsParts
  <2>3. PICK next : next = [ptr \in Pointers |-> hop[f[n][ptr]]]
    OBVIOUS
  <2>4. PICK h : h = [i \in 0 .. n + 1 |-> IF i = n + 1 THEN next ELSE f[i]]
    OBVIOUS
  <2>5. \A i \in 0 .. n : i \in 0 .. n + 1 /\ i # n + 1
    OBVIOUS
  <2>6. \A i \in 0 .. n : h[i] = f[i]
    BY <2>4, <2>5
  <2>7. ASSUME NEW i \in 0 .. n + 1
        PROVE  h[i] = IF i = 0 THEN [ptr \in Pointers |-> ptr]
                      ELSE [ptr \in Pointers |-> hop[h[i - 1][ptr]]]
    <3>1. CASE i = n + 1
      <4>1. i # 0 /\ i - 1 = n /\ n \in 0 .. n
        BY <3>1
      <4>2. h[i] = next /\ h[i - 1] = f[n]
        BY <2>4, <2>6, <3>1, <4>1
      <4> QED BY <2>3, <4>1, <4>2
    <3>2. CASE i # n + 1
      <4>1. i \in 0 .. n /\ (i # 0 => i - 1 \in 0 .. n)
        BY <3>2
      <4>2. h[i] = f[i] /\ (i # 0 => h[i - 1] = f[i - 1])
        BY <2>6, <4>1
      <4> QED BY <2>2, <4>1, <4>2 DEF IsHop
    <3> QED BY <3>1, <3>2
  <2>8. h = [i \in 0 .. n + 1 |-> IF i = 0 THEN [ptr \in Pointers |-> ptr]
                                  ELSE [ptr \in Pointers |-> hop[h[i - 1][ptr]]]]
    BY <2>4, <2>7
  <2>9. IsHops(h, hop, n + 1)
    BY <2>8 DEF IsHops
  <2> QED BY <2>9
<1> HIDE DEF S
<1>3. Nat \subseteq S
  BY <1>1, <1>2, Numbers
<1> QED BY <1>3 DEF S

AreHops(g, hop) ==
  /\ g \in [Pointers -> Pointers]
  /\ \A ptr \in Pointers : hop[ptr] = ptr => g[ptr] = ptr
  /\ \A ptr \in Pointers : g[hop[ptr]] = hop[g[ptr]]

LEMMA AfterHops ==
  ASSUME NEW hop \in [Pointers -> Pointers], NEW count \in Nat
  PROVE  AreHops(Hops(hop, count), hop)
<1>1. PICK f : IsHops(f, hop, count) /\ Hops(hop, count) = f[count]
  BY HopsExist, SomeHops
<1>2. f[0] = [ptr \in Pointers |-> ptr] /\ \A i \in 0 .. count : IsHop(f, hop, i)
  BY <1>1, HopsParts
<1> DEFINE S == {n \in Nat : n <= count => AreHops(f[n], hop)}
<1>3. 0 \in S
  <2>1. f[0] = [ptr \in Pointers |-> ptr]
    BY <1>2
  <2>2. AreHops(f[0], hop)
    BY <2>1 DEF AreHops
  <2> QED BY <2>2
<1>4. ASSUME NEW n \in Nat, n \in S
      PROVE  n + 1 \in S
  <2> SUFFICES ASSUME n + 1 <= count
               PROVE  AreHops(f[n + 1], hop)
    OBVIOUS
  <2>1. AreHops(f[n], hop)
    BY <1>4
  <2>2. n + 1 \in 0 .. count /\ n + 1 # 0 /\ (n + 1) - 1 = n
    OBVIOUS
  <2>3. f[n + 1] = [ptr \in Pointers |-> hop[f[n][ptr]]]
    BY <1>2, <2>2 DEF IsHop
  <2>4. PICK g, h : g = f[n] /\ h = f[n + 1]
    OBVIOUS
  <2>5. AreHops(g, hop) /\ h = [ptr \in Pointers |-> hop[g[ptr]]]
    BY <2>1, <2>3, <2>4
  <2>6. AreHops(h, hop)
    BY <2>5 DEF AreHops
  <2> QED BY <2>4, <2>6
<1> HIDE DEF S
<1>5. count \in S
  BY <1>3, <1>4, Numbers
<1> QED BY <1>1, <1>5 DEF S

LEMMA PointersFinite ==
  ASSUME Whole
  PROVE  IsFiniteSet(Pointers)
<1>1. PICK n \in Nat : DOMAIN artifacts = 1 .. n
  BY Elements DEF Whole, ArtifactsInv, IsSequence
<1>2. PICK f : f = [i \in 1 .. n |-> artifacts[i].ptr]
  OBVIOUS
<1>3. Pointers = {artifacts[i].ptr : i \in 1 .. n}
  BY <1>1 DEF Pointers, All, ToSet
<1>4. f \in Surjection(1 .. n, Pointers)
  BY <1>2, <1>3 DEF Surjection
<1>5. IsFiniteSet(1 .. n)
  BY FS_Interval
<1> QED BY <1>4, <1>5, FS_Surjection

LEMMA AtPointer ==
  ASSUME Whole, NEW ptr \in Pointers
  PROVE  ArtifactAt(ptr) \in All /\ ArtifactAt(ptr).ptr = ptr
BY DEF ArtifactAt, Pointers

LEMMA AtItsPointer ==
  ASSUME Whole, NEW a \in All
  PROVE  a.ptr \in Pointers /\ ArtifactAt(a.ptr) = a
<1>1. a.ptr \in Pointers
  BY DEF Pointers
<1> QED BY <1>1, AtPointer, SameArtifact

LEMMA PromiseFrom ==
  ASSUME NEW q, NEW p \in PromisesOf(doc, q, q)
  PROVE  p.from = q
<1>1. \A to, want, by : Promise(q, to, want, by).from = q
  BY DEF Promise
<1>2. \A key, want : \A x \in One(doc, q, q, key, want) : x.from = q
  BY <1>1 DEF One
<1>3. \A key, want : \A x \in Each(doc, q, q, key, want) : x.from = q
  BY <1>1 DEF Each
<1>4. \A key, want : \A x \in Named(doc, q, q, key, want) : x.from = q
  BY <1>1 DEF Named
<1>5. \A key, want : \A x \in NamedEach(doc, q, q, key, want) : x.from = q
  BY <1>1 DEF NamedEach
<1>6. \A key : \A x \in OneSchema(doc, q, q, key) : x.from = q
  BY <1>2 DEF OneSchema
<1>7. CASE IsReference(doc, q)
  BY <1>1, <1>7 DEF PromisesOf
<1>8. CASE ~IsReference(doc, q)
  <2>1. p \in BuiltPromises(doc, q, q)
    BY <1>8 DEF PromisesOf
  <2>2. CASE doc[q].type = "Server"
    BY <1>2, <1>3, <2>1, <2>2 DEF BuiltPromises, ServerPromises
  <2>3. CASE doc[q].type = "Channel"
    BY <1>2, <1>3, <1>5, <2>1, <2>3 DEF BuiltPromises, ChannelPromises
  <2>4. CASE doc[q].type = "Operation"
    BY <1>2, <1>3, <1>4, <1>5, <2>1, <2>4 DEF BuiltPromises, OperationPromises
  <2>5. CASE doc[q].type = "OperationReply"
    BY <1>2, <1>4, <1>5, <2>1, <2>5 DEF BuiltPromises, ReplyPromises
  <2>6. CASE doc[q].type = "Message"
    BY <1>2, <2>1, <2>6 DEF BuiltPromises, MessagePromises
  <2>7. CASE doc[q].type = "Object"
    <3>1. p \in SchemaPromises(doc, q, q)
      BY <2>1, <2>7 DEF BuiltPromises
    <3>2. p \in UnionPromises(doc, q, q) \/ p \in StructPromises(doc, q, q) \/ p \in OneSchema(doc, q, q, "items")
      BY <3>1 DEF SchemaPromises
    <3> QED BY <1>3, <1>6, <3>2 DEF UnionPromises, StructPromises
  <2>8. doc[q].type \in {"Server", "Channel", "Operation", "OperationReply", "Message", "Object"}
    BY <2>1 DEF BuiltPromises
  <2> QED BY <2>2, <2>3, <2>4, <2>5, <2>6, <2>7, <2>8
<1> QED BY <1>7, <1>8

(* The promise of a $ref is that to its target. *)
LEMMA RefTarget ==
  ASSUME Whole, NEW ptr \in RefPointers
  PROVE  /\ RefTo(ptr) = doc[ptr].ref
         /\ \E p \in promises : p.to = doc[ptr].ref
<1>1. PICK a \in All : a.ptr = ptr /\ a.form = "Ref" /\ IsOfNode(a)
  BY AtPointer, OfNode DEF RefPointers
<1>2. IsReference(doc, ptr) /\ ~Ignored(doc, ptr) /\ PromisesOf(doc, ptr, ptr) \subseteq promises
  BY <1>1 DEF IsOfNode, IsReference
<1>3. PICK r : r = Promise(ptr, doc[ptr].ref, "any", "$ref")
  OBVIOUS
<1>4. r \in promises /\ r.from = ptr /\ r.want = "any" /\ r.to = doc[ptr].ref
  <2>1. r \in PromisesOf(doc, ptr, ptr)
    BY <1>2, <1>3 DEF PromisesOf
  <2> QED BY <1>2, <1>3, <2>1 DEF Promise
<1>5. PICK p \in promises : p.from = ptr /\ p.want = "any" /\ RefTo(ptr) = p.to
  BY <1>4 DEF RefTo
<1>6. PICK q \in DOMAIN doc : p \in PromisesOf(doc, q, q)
  BY <1>5 DEF Whole, PromisesInv
<1>7. q = ptr
  BY <1>5, <1>6, PromiseFrom
<1>8. p = r
  BY <1>2, <1>3, <1>6, <1>7 DEF PromisesOf
<1> QED BY <1>4, <1>5, <1>8

(* What linking gives when it succeeds: every pointer has its object, no   *)
(* longer a reference, and it is what was promised.                        *)
Linked ==
  /\ end \in [Pointers -> All]
  /\ \A ptr \in Pointers : end[ptr].form # "Ref"
  /\ \A a \in All : a.form # "Ref" => end[a.ptr] = a
  /\ \A a \in All : a.form = "Ref" => doc[a.ptr].ref \in Pointers /\ end[a.ptr] = end[doc[a.ptr].ref]
  /\ \A p \in promises : p.to \in Pointers /\ (p.want # "any" => end[p.to].type = p.want)

(* What is rendered has been gathered, and without filters all of it is.   *)
Rendered ==
  /\ \A x \in rendered : x \in Gathered /\ Visible(x)
  /\ DefaultLayout => \A x \in Gathered : Visible(x) /\ Kind(x) \in EveryKind => x \in rendered

LinkInv ==
  /\ Inv
  /\ stage \in {"linked", "generated"} => Linked
  /\ stage = "generated" => Rendered

FollowsRefs(e) ==
  /\ e \in [Pointers -> All]
  /\ \A a \in All : a.form # "Ref" => e[a.ptr] = a
  /\ \A a \in All : a.form = "Ref" =>
       doc[a.ptr].ref \in Pointers /\ (e[a.ptr].form # "Ref" => e[a.ptr] = e[doc[a.ptr].ref])

LEMMA EndsFollowRefs ==
  ASSUME Whole, ~Dangling
  PROVE  FollowsRefs(Ends)
<1>1. PICK to : to = [ptr \in Pointers |-> IF ptr \in RefPointers THEN RefTo(ptr) ELSE ptr]
  OBVIOUS
<1>2. PICK count : count = Cardinality(RefPointers)
  OBVIOUS
<1>3. PICK last : last = Hops(to, count)
  OBVIOUS
<1>4. Ends = [ptr \in Pointers |-> ArtifactAt(last[ptr])]
  BY <1>1, <1>2, <1>3 DEF Ends
<1>5. \A ptr \in RefPointers : RefTo(ptr) = doc[ptr].ref /\ doc[ptr].ref \in Pointers
  BY RefTarget DEF Dangling
<1>6. to \in [Pointers -> Pointers]
  BY <1>1, <1>5
<1>7. count \in Nat
  <2>1. IsFiniteSet(Pointers) /\ RefPointers \subseteq Pointers
    BY PointersFinite DEF RefPointers
  <2> QED BY <1>2, <2>1, FS_Subset, FS_CardinalityType
<1>8. AreHops(last, to)
  BY <1>3, <1>6, <1>7, AfterHops
<1>9. \A ptr \in Pointers : last[ptr] \in Pointers /\ Ends[ptr] = ArtifactAt(last[ptr])
  BY <1>4, <1>8 DEF AreHops
<1>10. \A ptr \in Pointers : ptr \in RefPointers <=> ArtifactAt(ptr).form = "Ref"
  BY DEF RefPointers
<1>11. Ends \in [Pointers -> All]
  BY <1>4, <1>9, AtPointer
<1>12. ASSUME NEW a \in All, a.form # "Ref"
       PROVE  Ends[a.ptr] = a
  <2>1. a.ptr \in Pointers /\ ArtifactAt(a.ptr) = a
    BY AtItsPointer
  <2>2. to[a.ptr] = a.ptr
    BY <1>1, <1>10, <1>12, <2>1
  <2>3. last[a.ptr] = a.ptr
    BY <1>8, <2>1, <2>2 DEF AreHops
  <2> QED BY <1>9, <2>1, <2>3
<1>13. ASSUME NEW a \in All, a.form = "Ref"
       PROVE  /\ doc[a.ptr].ref \in Pointers
              /\ Ends[a.ptr].form # "Ref" => Ends[a.ptr] = Ends[doc[a.ptr].ref]
  <2>1. a.ptr \in Pointers /\ ArtifactAt(a.ptr) = a
    BY AtItsPointer
  <2>2. a.ptr \in RefPointers /\ to[a.ptr] = doc[a.ptr].ref /\ doc[a.ptr].ref \in Pointers
    BY <1>1, <1>5, <1>10, <1>13, <2>1
  <2>3. last[doc[a.ptr].ref] = to[last[a.ptr]]
    BY <1>8, <2>1, <2>2 DEF AreHops
  <2>4. Ends[a.ptr].form # "Ref" => to[last[a.ptr]] = last[a.ptr]
    BY <1>1, <1>9, <1>10, <2>1
  <2> QED BY <1>9, <2>1, <2>2, <2>3, <2>4
<1> QED BY <1>11, <1>12, <1>13 DEF FollowsRefs

LEMMA LinkStep ==
  ASSUME Inv, Link
  PROVE  Linked'
<1>1. PICK e : /\ e = Ends /\ ~LinkCrashes(e) /\ (\A ptr \in DOMAIN e : e[ptr].form # "Ref")
               /\ end' = e
  BY DEF Link
<1>2. ~Dangling /\ Compiled /\ UNCHANGED <<input, artifacts, promises>>
  BY DEF Link, Compiled
<1>3. FollowsRefs(e)
  BY <1>1, <1>2, CompiledWhole, EndsFollowRefs
<1>4. doc' = doc /\ All' = All /\ Pointers' = Pointers
  <2>1. doc' = doc /\ All' = All
    BY <1>2 DEF doc, All
  <2> QED BY <2>1 DEF Pointers
<1>5. DOMAIN e = Pointers
  BY <1>3 DEF FollowsRefs
<1>6. \A p \in promises : p.to \in Pointers /\ (p.want # "any" => e[p.to].type = p.want)
  BY <1>1, <1>2, <1>5 DEF Dangling, LinkCrashes
<1>7. (end \in [Pointers -> All])'
  BY <1>1, <1>3, <1>4 DEF FollowsRefs
<1>8. (\A ptr \in Pointers : end[ptr].form # "Ref")'
  BY <1>1, <1>4, <1>5
<1>9. (\A a \in All : a.form # "Ref" => end[a.ptr] = a)'
  BY <1>1, <1>3, <1>4 DEF FollowsRefs
<1>10. (\A a \in All : a.form = "Ref" => doc[a.ptr].ref \in Pointers /\ end[a.ptr] = end[doc[a.ptr].ref])'
  <2>1. \A a \in All : a.form = "Ref" => doc[a.ptr].ref \in Pointers /\ e[a.ptr] = e[doc[a.ptr].ref]
    <3>1. \A a \in All : a.ptr \in DOMAIN e
      BY <1>5 DEF Pointers
    <3> QED BY <1>1, <1>3, <3>1 DEF FollowsRefs
  <2> QED BY <1>1, <1>4, <2>1
<1>11. (\A p \in promises : p.to \in Pointers /\ (p.want # "any" => end[p.to].type = p.want))'
  BY <1>1, <1>2, <1>4, <1>6
<1> QED BY <1>7, <1>8, <1>9, <1>10, <1>11 DEF Linked

(* What is said of linked objects stays true of them. *)
LEMMA SameObjects ==
  ASSUME UNCHANGED <<input, artifacts, end>>
  PROVE  /\ doc' = doc /\ All' = All /\ Pointers' = Pointers
         /\ \A x : Visible(x)' <=> Visible(x)
         /\ \A x : x \in Gathered' <=> x \in Gathered
         /\ DefaultLayout' <=> DefaultLayout
<1>1. doc' = doc /\ All' = All /\ Options' = Options
  BY DEF doc, All, Options
<1>2. Pointers' = Pointers
  BY <1>1 DEF Pointers
<1>3. \A x : ChannelOf(x)' = ChannelOf(x)
  BY <1>1 DEF ChannelOf, NamedBy
<1>4. \A x : HasCode(x)' <=> HasCode(x)
  BY <1>1 DEF HasCode, IsPublisher, IsSubscriber, IsReplyPublisher, IsReplySubscriber, HasReply, Does
<1>5. \A x : Visible(x)' <=> Visible(x)
  BY <1>3, <1>4 DEF Visible
<1>6. \A x : OwnSelectable(x)' <=> OwnSelectable(x)
  BY <1>3, <1>4 DEF OwnSelectable
<1>7. \A a : Selectable(a)' <=> Selectable(a)
  BY <1>6 DEF Selectable
<1>8. \A x : x \in Gathered <=> \E a \in All : Selectable(a) /\ x = end[a.ptr]
  BY DEF Gathered
<1>9. \A x : x \in Gathered' <=> \E a \in All' : Selectable(a)' /\ x = end'[a.ptr]
  BY DEF Gathered
<1>10. \A x : x \in Gathered' <=> x \in Gathered
  BY <1>1, <1>7, <1>8, <1>9
<1>11. DefaultLayout' <=> DefaultLayout
  BY <1>1 DEF DefaultLayout
<1> QED BY <1>1, <1>2, <1>5, <1>10, <1>11

LEMMA StaysLinked ==
  ASSUME Linked, UNCHANGED <<input, artifacts, promises, end>>
  PROVE  Linked'
<1>1. doc' = doc /\ All' = All /\ Pointers' = Pointers
  BY SameObjects
<1> QED BY <1>1 DEF Linked

LEMMA GenerateStep ==
  ASSUME Generate
  PROVE  Rendered'
<1>1. /\ UNCHANGED <<input, artifacts, end>>
      /\ rendered' = {x \in SelectArtifacts : Visible(x) /\ Kind(x) # ""}
  BY DEF Generate
<1>2. \A x \in rendered' : x \in Gathered /\ Visible(x)
  BY <1>1 DEF SelectArtifacts, Selected
<1>3. ASSUME DefaultLayout, NEW x \in Gathered, Visible(x), Kind(x) \in EveryKind
      PROVE  x \in rendered'
  <2>1. PICK rule \in Rules : Kind(x) \in rule.kinds /\ rule.protocols = {} /\ ~rule.not
    BY <1>3 DEF DefaultLayout, Rules
  <2>2. PassesFilters(x, rule)
    BY <2>1 DEF PassesFilters
  <2>3. x \in SelectArtifacts
    BY <1>3, <2>1, <2>2 DEF SelectArtifacts, Selected
  <2>4. Kind(x) # ""
    BY <1>3 DEF EveryKind
  <2> QED BY <1>1, <1>3, <2>3, <2>4
<1>4. /\ \A x : Visible(x)' <=> Visible(x)
      /\ \A x : x \in Gathered' <=> x \in Gathered
      /\ DefaultLayout' <=> DefaultLayout
  BY <1>1, SameObjects
<1>5. \A x : Kind(x)' = Kind(x)
  BY DEF Kind
<1>6. (\A x \in rendered : x \in Gathered /\ Visible(x))'
  BY <1>2, <1>4
<1>7. (DefaultLayout => \A x \in Gathered : Visible(x) /\ Kind(x) \in EveryKind => x \in rendered)'
  BY <1>3, <1>4
<1> QED BY <1>6, <1>7 DEF Rendered

LEMMA StaysRendered ==
  ASSUME Rendered, UNCHANGED <<input, artifacts, end, rendered>>
  PROVE  Rendered'
BY SameObjects DEF Rendered

(* A reference, once linked, is the object at the end of its chain; what   *)
(* is rendered is selected among those.                                    *)
THEOREM LinkInvariance == Spec => []LinkInv
<1>1. Init => LinkInv
  <2>1. Init => Inv /\ stage = "decoded"
    BY AtFirst DEF Init, WalkInit
  <2> QED BY <2>1 DEF LinkInv
<1>2. ASSUME LinkInv, [Next]_vars
      PROVE  LinkInv'
  <2>1. Inv'
    BY <1>2, InvStep DEF LinkInv
  <2>2. CASE stage' \notin {"linked", "generated"}
    BY <2>1, <2>2 DEF LinkInv
  <2>3. CASE Link
    <3>1. stage' = "linked"
      BY <2>3 DEF Link
    <3>2. Linked'
      BY <1>2, <2>3, LinkStep DEF LinkInv
    <3> QED BY <2>1, <3>1, <3>2 DEF LinkInv
  <2>4. CASE Generate
    <3>1. stage = "linked" /\ stage' = "generated" /\ UNCHANGED <<input, artifacts, promises, end>>
      BY <2>4 DEF Generate
    <3>2. Linked' /\ Rendered'
      BY <1>2, <2>4, <3>1, StaysLinked, GenerateStep DEF LinkInv
    <3> QED BY <2>1, <3>1, <3>2 DEF LinkInv
  <2>5. CASE UNCHANGED vars
    <3>1. UNCHANGED <<input, artifacts, promises, stage, end, rendered>>
      BY <2>5 DEF vars, walkVars
    <3>2. (Linked => Linked') /\ (Rendered => Rendered')
      BY <3>1, StaysLinked, StaysRendered
    <3> QED BY <1>2, <2>1, <3>1, <3>2 DEF LinkInv
  <2>6. ASSUME WalkNext \/ LinkPanic \/ LinkFails \/ SelectPanic
        PROVE  stage' \notin {"linked", "generated"}
    <3>1. CASE LinkPanic \/ LinkFails \/ SelectPanic
      BY <3>1 DEF LinkPanic, LinkFails, SelectPanic
    <3>2. CASE WalkNext
      BY <3>2 DEF WalkNext, CompileRoot, VisitPlain, VisitObject, VisitRefused, Leave, Finish, Visiting
    <3> QED BY <2>6, <3>1, <3>2
  <2> QED BY <1>2, <2>2, <2>3, <2>4, <2>5, <2>6 DEF Next
<1> QED BY <1>1, <1>2, PTL DEF Spec

-----------------------------------------------------------------------------
(* Linked objects are of the kinds their users take them for. *)

IsA(x, type) == x \in All /\ x.form # "Ref" /\ x.type = type

LEMMA EndIsA ==
  ASSUME Linked, NEW ptr \in Pointers
  PROVE  end[ptr] \in All /\ end[ptr].form # "Ref"
BY DEF Linked

LEMMA PromisedIsA ==
  ASSUME Linked, NEW p \in promises, p.want # "any"
  PROVE  IsA(end[p.to], p.want)
BY EndIsA DEF Linked, IsA

LEMMA PromisesMade ==
  ASSUME Whole, NEW x, NEW type, IsA(x, type), ~Dummy(x)
  PROVE  /\ x.ptr \in DOMAIN doc /\ doc[x.ptr].type = type /\ ~Refused(doc, x.ptr)
         /\ ~Ignored(doc, x.ptr) /\ ~IsReference(doc, x.ptr)
         /\ BuiltPromises(doc, x.ptr, x.ptr) \subseteq promises
BY OfNode DEF IsA, IsOfNode, Dummy, PromisesOf

LEMMA FieldIsA ==
  ASSUME Linked, NEW x, NEW key, NEW want, want # "any", Has(doc, x.ptr, key),
         One(doc, x.ptr, x.ptr, key, want) \subseteq promises
  PROVE  IsA(Field(x, key), want) /\ x.ptr \o <<key>> \in Pointers
<1>1. PICK p : p = Promise(x.ptr, x.ptr \o <<key>>, want, "field")
  OBVIOUS
<1>2. p \in promises
  BY <1>1 DEF One
<1>3. p.to = x.ptr \o <<key>> /\ p.want = want
  BY <1>1 DEF Promise
<1>4. IsA(end[p.to], want) /\ p.to \in Pointers
  BY <1>2, <1>3, PromisedIsA DEF Linked
<1> QED BY <1>3, <1>4 DEF Field

LEMMA FieldsAreA ==
  ASSUME Linked, NEW x, NEW key, NEW want, want # "any",
         Each(doc, x.ptr, x.ptr, key, want) \subseteq promises, NEW y \in Fields(x, key)
  PROVE  /\ IsA(y, want) /\ Has(doc, x.ptr, key)
         /\ \E k \in ToSet(doc[x.ptr \o <<key>>].keys) :
              y = end[x.ptr \o <<key, k>>] /\ x.ptr \o <<key, k>> \in Pointers
<1>1. Has(doc, x.ptr, key)
  BY DEF Fields
<1>2. PICK k \in ToSet(doc[x.ptr \o <<key>>].keys) : y = end[x.ptr \o <<key, k>>]
  BY <1>1 DEF Fields
<1>3. PICK p : p = Promise(x.ptr, x.ptr \o <<key, k>>, want, "field")
  OBVIOUS
<1>4. p \in promises
  BY <1>1, <1>2, <1>3 DEF Each
<1>5. p.to = x.ptr \o <<key, k>> /\ p.want = want
  BY <1>3 DEF Promise
<1>6. IsA(end[p.to], want) /\ p.to \in Pointers
  BY <1>4, <1>5, PromisedIsA DEF Linked
<1> QED BY <1>1, <1>2, <1>5, <1>6

LEMMA NamedIsA ==
  ASSUME Linked, NEW x, NEW key, NEW want, want # "any", Has(doc, x.ptr, key),
         Named(doc, x.ptr, x.ptr, key, want) \subseteq promises
  PROVE  IsA(NamedBy(x.ptr \o <<key>>), want)
<1>1. PICK p : p = Promise(x.ptr, doc[x.ptr \o <<key>>].ref, want, "$ref")
  OBVIOUS
<1>2. p \in promises
  BY <1>1 DEF Named
<1>3. p.to = doc[x.ptr \o <<key>>].ref /\ p.want = want
  BY <1>1 DEF Promise
<1>4. IsA(end[p.to], want)
  BY <1>2, <1>3, PromisedIsA
<1> QED BY <1>3, <1>4 DEF NamedBy

LEMMA NamedAreA ==
  ASSUME Linked, NEW x, NEW key, NEW want, want # "any",
         NamedEach(doc, x.ptr, x.ptr, key, want) \subseteq promises, NEW y \in NamedIn(x, key)
  PROVE  IsA(y, want)
<1>1. Has(doc, x.ptr, key)
  BY DEF NamedIn
<1>2. PICK k \in ToSet(doc[x.ptr \o <<key>>].keys) : y = NamedBy(x.ptr \o <<key, k>>)
  BY <1>1 DEF NamedIn
<1>3. PICK p : p = Promise(x.ptr, doc[x.ptr \o <<key, k>>].ref, want, "$ref")
  OBVIOUS
<1>4. p \in promises
  BY <1>1, <1>2, <1>3 DEF NamedEach
<1>5. p.to = doc[x.ptr \o <<key, k>>].ref /\ p.want = want
  BY <1>3 DEF Promise
<1>6. IsA(end[p.to], want)
  BY <1>4, <1>5, PromisedIsA
<1> QED BY <1>2, <1>5, <1>6 DEF NamedBy

LEMMA ChannelPromised ==
  ASSUME Whole, NEW c, IsA(c, "Channel"), ~Dummy(c)
  PROVE  /\ NamedEach(doc, c.ptr, c.ptr, "servers", "Server") \subseteq promises
         /\ Each(doc, c.ptr, c.ptr, "messages", "Message") \subseteq promises
         /\ One(doc, c.ptr, c.ptr, "bindings", "Bindings") \subseteq promises
<1>1. BuiltPromises(doc, c.ptr, c.ptr) \subseteq promises /\ doc[c.ptr].type = "Channel"
  BY PromisesMade
<1>2. BuiltPromises(doc, c.ptr, c.ptr) = ChannelPromises(doc, c.ptr, c.ptr)
  BY <1>1 DEF BuiltPromises
<1> QED BY <1>1, <1>2 DEF ChannelPromises

LEMMA OperationPromised ==
  ASSUME Whole, NEW o, IsA(o, "Operation"), ~Dummy(o)
  PROVE  /\ Has(doc, o.ptr, "channel")
         /\ Named(doc, o.ptr, o.ptr, "channel", "Channel") \subseteq promises
         /\ NamedEach(doc, o.ptr, o.ptr, "messages", "Message") \subseteq promises
         /\ One(doc, o.ptr, o.ptr, "bindings", "Bindings") \subseteq promises
         /\ One(doc, o.ptr, o.ptr, "reply", "OperationReply") \subseteq promises
<1>1. /\ BuiltPromises(doc, o.ptr, o.ptr) \subseteq promises /\ doc[o.ptr].type = "Operation"
      /\ ~Refused(doc, o.ptr) /\ ~Ignored(doc, o.ptr) /\ ~IsReference(doc, o.ptr)
  BY PromisesMade
<1>2. BuiltPromises(doc, o.ptr, o.ptr) = OperationPromises(doc, o.ptr, o.ptr)
  BY <1>1 DEF BuiltPromises
<1>3. Has(doc, o.ptr, "channel")
  BY <1>1 DEF Refused
<1> QED BY <1>1, <1>2, <1>3 DEF OperationPromises

LEMMA ReplyPromised ==
  ASSUME Whole, NEW r, IsA(r, "OperationReply"), ~Dummy(r)
  PROVE  Named(doc, r.ptr, r.ptr, "channel", "Channel") \subseteq promises
<1>1. BuiltPromises(doc, r.ptr, r.ptr) \subseteq promises /\ doc[r.ptr].type = "OperationReply"
  BY PromisesMade
<1>2. BuiltPromises(doc, r.ptr, r.ptr) = ReplyPromises(doc, r.ptr, r.ptr)
  BY <1>1 DEF BuiltPromises
<1> QED BY <1>1, <1>2 DEF ReplyPromises

LEMMA ServerPromised ==
  ASSUME Whole, NEW s, IsA(s, "Server"), ~Dummy(s)
  PROVE  One(doc, s.ptr, s.ptr, "bindings", "Bindings") \subseteq promises
<1>1. BuiltPromises(doc, s.ptr, s.ptr) \subseteq promises /\ doc[s.ptr].type = "Server"
  BY PromisesMade
<1>2. BuiltPromises(doc, s.ptr, s.ptr) = ServerPromises(doc, s.ptr, s.ptr)
  BY <1>1 DEF BuiltPromises
<1> QED BY <1>1, <1>2 DEF ServerPromises

LEMMA MessagePromised ==
  ASSUME Whole, NEW m, IsA(m, "Message"), ~Dummy(m)
  PROVE  /\ One(doc, m.ptr, m.ptr, "bindings", "Bindings") \subseteq promises
         /\ One(doc, m.ptr, m.ptr, "correlationId", "CorrelationID") \subseteq promises
<1>1. BuiltPromises(doc, m.ptr, m.ptr) \subseteq promises /\ doc[m.ptr].type = "Message"
  BY PromisesMade
<1>2. BuiltPromises(doc, m.ptr, m.ptr) = MessagePromises(doc, m.ptr, m.ptr)
  BY <1>1 DEF BuiltPromises
<1> QED BY <1>1, <1>2 DEF MessagePromises

LEMMA ActiveAreA ==
  ASSUME Linked, NEW section, NEW type, NEW x \in Active(section, type)
  PROVE  IsA(x, type) /\ Visible(x)
<1>1. PICK a \in All : x = end[a.ptr] /\ x.type = type /\ Visible(x)
  BY DEF Active
<1>2. a.ptr \in Pointers
  BY DEF Pointers
<1> QED BY <1>1, <1>2, EndIsA DEF IsA

(* An object that stands in a section of the root and is visible. *)
LEMMA InActive ==
  ASSUME NEW section, NEW type, NEW a \in All, Len(a.ptr) > 1, a.ptr[1] = section,
         end[a.ptr].type = type, Visible(end[a.ptr])
  PROVE  end[a.ptr] \in Active(section, type)
BY DEF Active

LEMMA BoundServersAreA ==
  ASSUME Whole, Linked, NEW c, IsA(c, "Channel"), NEW s \in BoundServers(c)
  PROVE  IsA(s, "Server") /\ ~Dummy(c)
<1>1. ~Dummy(c) /\ (s \in Active("servers", "Server") \/ s \in NamedIn(c, "servers"))
  BY DEF BoundServers
<1>2. NamedEach(doc, c.ptr, c.ptr, "servers", "Server") \subseteq promises
  BY <1>1, ChannelPromised
<1> QED BY <1>1, <1>2, ActiveAreA, NamedAreA

LEMMA ChannelOfIsA ==
  ASSUME Whole, Linked, NEW o, IsA(o, "Operation"), ~Dummy(o)
  PROVE  IsA(ChannelOf(o), "Channel")
BY OperationPromised, NamedIsA DEF ChannelOf

LEMMA ReplyIsA ==
  ASSUME Whole, Linked, NEW o, IsA(o, "Operation"), ~Dummy(o), HasReply(o)
  PROVE  IsA(Field(o, "reply"), "OperationReply")
BY OperationPromised, FieldIsA DEF HasReply

LEMMA ReplyChannelsAreA ==
  ASSUME Whole, Linked, NEW o, IsA(o, "Operation"), ~Dummy(o), NEW c \in ReplyChannels(o)
  PROVE  /\ IsA(c, "Channel") /\ HasReply(o) /\ ReplyChannels(o) = {c}
         /\ ~Dummy(Field(o, "reply"))
<1>1. PICK r \in IF HasReply(o) THEN {Field(o, "reply")} ELSE {} :
        ~Dummy(r) /\ Has(doc, r.ptr, "channel") /\ c = NamedBy(r.ptr \o <<"channel">>)
  BY DEF ReplyChannels
<1>2. HasReply(o) /\ r = Field(o, "reply")
  BY <1>1
<1>3. IsA(r, "OperationReply")
  BY <1>2, ReplyIsA
<1>4. IsA(c, "Channel")
  BY <1>1, <1>3, ReplyPromised, NamedIsA
<1>5. ReplyChannels(o) = {c}
  BY <1>1, <1>2 DEF ReplyChannels
<1> QED BY <1>1, <1>2, <1>4, <1>5

LEMMA ChannelMessagesAreA ==
  ASSUME Whole, Linked, NEW c, IsA(c, "Channel"), NEW m \in ChannelMessages(c)
  PROVE  /\ IsA(m, "Message") /\ Has(doc, c.ptr, "messages") /\ ~Dummy(c)
         /\ \E k \in ToSet(doc[c.ptr \o <<"messages">>].keys) :
              m = end[c.ptr \o <<"messages", k>>] /\ c.ptr \o <<"messages", k>> \in Pointers
<1>1. ~Dummy(c) /\ m \in Fields(c, "messages")
  BY DEF ChannelMessages
<1>2. Each(doc, c.ptr, c.ptr, "messages", "Message") \subseteq promises
  BY <1>1, ChannelPromised
<1> QED BY <1>1, <1>2, FieldsAreA

LEMMA GatheredIsA ==
  ASSUME Linked, Rendered, NEW x \in rendered
  PROVE  /\ IsA(x, x.type) /\ Visible(x) /\ ~Dummy(x)
         /\ \E a \in All : Selectable(a) /\ x = end[a.ptr] /\ a.ptr \in Pointers
<1>1. x \in Gathered /\ Visible(x)
  BY DEF Rendered
<1>2. PICK a \in All : Selectable(a) /\ x = end[a.ptr]
  BY <1>1 DEF Gathered
<1>3. a.ptr \in Pointers
  BY DEF Pointers
<1> QED BY <1>1, <1>2, <1>3, EndIsA DEF IsA, Visible

(* Selected servers, channels and operations that are rendered: where they *)
(* stand.                                                                  *)
LEMMA SelectedStands ==
  ASSUME Whole, Linked, NEW x, IsA(x, x.type), x.type \in Sectioned, x.sel = "yes"
  PROVE  /\ Len(x.ptr) > 1 /\ x.ptr[1] = SectionOf(x.type)
         /\ end[x.ptr] = x /\ ~Dummy(x)
<1>1. x \in All /\ x.form # "Ref"
  BY DEF IsA
<1> QED BY <1>1, SelInSection DEF Linked, Dummy

LEMMA SelectedActive ==
  ASSUME Whole, Linked, NEW x, IsA(x, x.type), x.type \in Sectioned, x.sel = "yes", Visible(x)
  PROVE  x \in Active(SectionOf(x.type), x.type)
<1>1. x \in All
  BY DEF IsA
<1> QED BY <1>1, SelectedStands, InActive

LEMMA RenderedActive ==
  ASSUME Whole, Linked, Rendered, ReferencesFit, NEW x \in rendered, x.type \in Sectioned
  PROVE  x \in Active(SectionOf(x.type), x.type)
<1>1. PICK a \in All : Selectable(a) /\ x = end[a.ptr] /\ Visible(x) /\ IsA(x, x.type)
  BY GatheredIsA
<1>2. CASE x.sel = "yes"
  BY <1>1, <1>2, SelectedActive
<1>3. CASE x.sel # "yes"
  <2>1. a.form = "Ref" /\ a.sel = "yes"
    <3>1. a.form # "Ref" => a = x
      BY <1>1 DEF Linked
    <3> QED BY <1>1, <1>3, <3>1 DEF Selectable, OwnSelectable
  <2>2. a.type = x.type
    BY <1>1, <2>1 DEF ReferencesFit
  <2>3. Len(a.ptr) > 1 /\ a.ptr[1] = SectionOf(x.type)
    BY <2>1, <2>2, SelInSection
  <2> QED BY <1>1, <2>3, InActive
<1> QED BY <1>2, <1>3

-----------------------------------------------------------------------------
(* Protocols *)

LEMMA ProtocolsByType ==
  ASSUME NEW x
  PROVE  /\ x.type = "Server" => ActiveProtocols(x) = {doc[x.ptr].info}
         /\ x.type = "Channel" => ActiveProtocols(x) = ChannelProtocols(x)
         /\ x.type = "Operation" => ActiveProtocols(x) = OperationProtocols(x)
         /\ x.type = "Message" => ActiveProtocols(x) = MessageProtocols(x)
         /\ x.type \notin Sectioned \cup {"Message"} => ActiveProtocols(x) = {}
<1>1. x.type = "Server" => ActiveProtocols(x) = {doc[x.ptr].info}
  BY DEF ActiveProtocols
<1>2. x.type = "Channel" => ActiveProtocols(x) = ChannelProtocols(x)
  BY DEF ActiveProtocols
<1>3. x.type = "Operation" => ActiveProtocols(x) = OperationProtocols(x)
  BY DEF ActiveProtocols
<1>4. x.type = "Message" => ActiveProtocols(x) = MessageProtocols(x)
  BY DEF ActiveProtocols
<1>5. x.type \notin Sectioned \cup {"Message"} => ActiveProtocols(x) = {}
  BY DEF ActiveProtocols, Sectioned
<1> QED BY <1>1, <1>2, <1>3, <1>4, <1>5

LEMMA ServerProtocol ==
  ASSUME Whole, NEW s, IsA(s, "Server"), s.sel = "yes"
  PROVE  doc[s.ptr].info \in ActiveServersProtocols
<1>1. s \in All /\ s.form # "Ref" /\ s.type = "Server"
  BY DEF IsA
<1>2. s.form = "Built"
  <2>1. s.form # "Dummy"
    BY <1>1, SelInSection DEF Sectioned
  <2> QED BY <1>1, <2>1, OfNode DEF IsOfNode
<1> QED BY <1>1, <1>2 DEF ActiveServersProtocols

LEMMA ProtocolsOfChannel ==
  ASSUME Whole, Linked, NEW c, IsA(c, "Channel")
  PROVE  ChannelProtocols(c) \subseteq ActiveServersProtocols
<1> SUFFICES ASSUME NEW s \in BoundServers(c), s.sel = "yes"
             PROVE  doc[s.ptr].info \in ActiveServersProtocols
  BY DEF ChannelProtocols
<1> QED BY BoundServersAreA, ServerProtocol

LEMMA ProtocolsOfOperation ==
  ASSUME Whole, Linked, NEW o, IsA(o, "Operation"), ~Dummy(o)
  PROVE  OperationProtocols(o) \subseteq ActiveServersProtocols
<1>1. ChannelProtocols(ChannelOf(o)) \subseteq ActiveServersProtocols
  BY ChannelOfIsA, ProtocolsOfChannel
<1>2. \A c \in ReplyChannels(o) : ChannelProtocols(c) \subseteq ActiveServersProtocols
  BY ReplyChannelsAreA, ProtocolsOfChannel
<1> QED BY <1>1, <1>2 DEF OperationProtocols

LEMMA ProtocolsOfMessage ==
  ASSUME Whole, Linked, NEW m
  PROVE  MessageProtocols(m) \subseteq ActiveServersProtocols
<1>1. \A c \in ChannelsOf(m) : ChannelProtocols(c) \subseteq ActiveServersProtocols
  BY ActiveAreA, ProtocolsOfChannel DEF ChannelsOf
<1>2. \A o \in OperationsOf(m) : ChannelProtocols(ChannelOf(o)) \subseteq ActiveServersProtocols
  <2>1. ASSUME NEW o \in OperationsOf(m)
        PROVE  IsA(o, "Operation") /\ ~Dummy(o)
    <3>1. o \in Active("operations", "Operation")
      BY DEF OperationsOf
    <3> QED BY <3>1, ActiveAreA DEF Visible
  <2> QED BY <2>1, ChannelOfIsA, ProtocolsOfChannel
<1> QED BY <1>1, <1>2 DEF MessageProtocols

LEMMA BindingsProtocol ==
  ASSUME Whole, Linked, NEW x, NEW type, type \in Sectioned \cup {"Message"}, IsA(x, type), ~Dummy(x),
         Has(doc, x.ptr, "bindings")
  PROVE  doc[Field(x, "bindings").ptr].info \in AllProtocols
<1>1. One(doc, x.ptr, x.ptr, "bindings", "Bindings") \subseteq promises
  BY ServerPromised, ChannelPromised, OperationPromised, MessagePromised DEF Sectioned
<1>2. IsA(Field(x, "bindings"), "Bindings")
  BY <1>1, FieldIsA
<1>3. PICK b \in All : b = Field(x, "bindings") /\ b.type = "Bindings" /\ b.form # "Ref"
  BY <1>2 DEF IsA
<1>4. b.form = "Built"
  BY <1>3, OfNode DEF IsOfNode, Ignored
<1> QED BY <1>3, <1>4 DEF AllProtocols

(* Whatever the document and the layout are, no object imports a utility   *)
(* package that has not been generated: unless a $ref has brought a server *)
(* into a place of another kind, or servers are active only by reference.  *)
THEOREM UtilCode == Spec => []UtilCodeIsThere
<1>1. ASSUME LinkInv
      PROVE  UtilCodeIsThere
  <2> SUFFICES ASSUME Generated, ReferencesFit, ServersInPlace, NEW x \in rendered
               PROVE  UsesUtil(x) \subseteq AllProtocols
    BY DEF UtilCodeIsThere
  <2>1. Whole /\ Linked /\ Rendered
    <3>1. Compiled
      BY DEF Generated, Compiled
    <3> QED BY <1>1, <3>1, CompiledWhole DEF LinkInv, Generated
  <2>2. IsA(x, x.type) /\ ~Dummy(x)
    BY <2>1, GatheredIsA
  <2>3. ActiveProtocols(x) \subseteq ActiveServersProtocols
    <3>1. CASE x.type = "Server"
      <4>1. x \in Active("servers", "Server")
        BY <2>1, <3>1, RenderedActive DEF Sectioned, SectionOf
      <4>2. x.sel = "yes"
        BY <4>1 DEF ServersInPlace
      <4>3. doc[x.ptr].info \in ActiveServersProtocols
        BY <2>1, <2>2, <3>1, <4>2, ServerProtocol
      <4> QED BY <3>1, <4>3, ProtocolsByType
    <3>2. CASE x.type = "Channel"
      BY <2>1, <2>2, <3>2, ProtocolsByType, ProtocolsOfChannel
    <3>3. CASE x.type = "Operation"
      BY <2>1, <2>2, <3>3, ProtocolsByType, ProtocolsOfOperation
    <3>4. CASE x.type = "Message"
      BY <2>1, <2>2, <3>4, ProtocolsByType, ProtocolsOfMessage
    <3>5. CASE x.type \notin Sectioned \cup {"Message"}
      BY <3>5, ProtocolsByType
    <3> QED BY <3>1, <3>2, <3>3, <3>4, <3>5 DEF Sectioned
  <2>4. ActiveServersProtocols \subseteq AllProtocols
    BY DEF AllProtocols
  <2>5. x.type \in Sectioned \cup {"Message"} /\ Has(doc, x.ptr, "bindings") =>
          doc[Field(x, "bindings").ptr].info \in AllProtocols
    BY <2>1, <2>2, BindingsProtocol
  <2> QED BY <2>3, <2>4, <2>5 DEF UsesUtil, Sectioned
<1> QED BY <1>1, LinkInvariance, PTL

-----------------------------------------------------------------------------
(* What servers open *)

LEMMA KindByType ==
  ASSUME NEW x
  PROVE  /\ x.type = "Server" => Kind(x) = "server"
         /\ x.type = "Channel" => Kind(x) = "channel"
         /\ x.type = "Operation" => Kind(x) = "operation"
         /\ x.type = "Message" => Kind(x) = "message"
<1>1. x.type = "Server" => Kind(x) = "server"
  BY DEF Kind
<1>2. x.type = "Channel" => Kind(x) = "channel"
  BY DEF Kind
<1>3. x.type = "Operation" => Kind(x) = "operation"
  BY DEF Kind
<1>4. x.type = "Message" => Kind(x) = "message"
  BY DEF Kind
<1> QED BY <1>1, <1>2, <1>3, <1>4

LEMMA GatheredRendered ==
  ASSUME Rendered, DefaultLayout, NEW x \in Gathered, Visible(x), x.type \in Sectioned \cup {"Message"}
  PROVE  x \in rendered
<1>1. Kind(x) \in EveryKind
  BY KindByType DEF Sectioned, EveryKind
<1> QED BY <1>1 DEF Rendered

(* An object that asks for itself to be selected. *)
LEMMA OwnRendered ==
  ASSUME Linked, Rendered, DefaultLayout, NEW x, IsA(x, x.type), OwnSelectable(x), Visible(x),
         x.type \in Sectioned \cup {"Message"}
  PROVE  x \in rendered
<1>1. x \in All /\ x.form # "Ref" /\ end[x.ptr] = x
  BY DEF IsA, Linked
<1>2. Selectable(x)
  BY <1>1 DEF Selectable
<1>3. x \in Gathered
  BY <1>1, <1>2 DEF Gathered
<1> QED BY <1>3, GatheredRendered

LEMMA ServerRendered ==
  ASSUME Whole, Linked, Rendered, DefaultLayout, NEW s, IsA(s, "Server"), s.sel = "yes"
  PROVE  s \in rendered
<1>1. s.type = "Server" /\ IsA(s, s.type) /\ ~Dummy(s)
  BY SelectedStands DEF IsA, Sectioned
<1> QED BY <1>1, OwnRendered DEF OwnSelectable, Visible, Sectioned

LEMMA ChannelRendered ==
  ASSUME Whole, Linked, Rendered, DefaultLayout, NEW c, IsA(c, "Channel"), c.sel = "yes"
  PROVE  c \in rendered /\ c \in Active("channels", "Channel")
<1>1. c.type = "Channel" /\ IsA(c, c.type) /\ ~Dummy(c)
  BY SelectedStands DEF IsA, Sectioned
<1>2. Visible(c)
  BY <1>1 DEF Visible
<1>3. c \in rendered
  BY <1>1, <1>2, OwnRendered DEF OwnSelectable, Sectioned
<1>4. c \in Active("channels", "Channel")
  <2>1. SectionOf(c.type) = "channels"
    BY <1>1 DEF SectionOf
  <2> QED BY <1>1, <1>2, <2>1, SelectedActive DEF Sectioned
<1> QED BY <1>3, <1>4

LEMMA OperationRendered ==
  ASSUME Whole, Linked, Rendered, DefaultLayout, ReferencesFit,
         NEW o \in Active("operations", "Operation"), ChannelOf(o).sel = "yes"
  PROVE  o \in rendered
<1>1. PICK a \in All : /\ o = end[a.ptr] /\ Len(a.ptr) > 1 /\ a.ptr[1] = "operations"
                       /\ o.type = "Operation" /\ Visible(o) /\ a.ptr \in Pointers
  BY DEF Active, Pointers
<1>2. ~Dummy(o) /\ HasCode(o) /\ IsA(o, "Operation")
  BY <1>1, ActiveAreA DEF Visible
<1>3. a.type = "Operation" /\ (a.form # "Ref" => a = o)
  <2>1. a.form # "Ref" => a = o
    BY <1>1 DEF Linked
  <2>2. a.form = "Ref" => a.type = o.type
    BY <1>1 DEF ReferencesFit
  <2> QED BY <1>1, <2>1, <2>2
<1>4. a.form # "Dummy"
  BY <1>2, <1>3 DEF Dummy
<1>5. a.sel = "yes"
  <2>1. SectionOf(a.type) = "operations"
    BY <1>3 DEF SectionOf
  <2> QED BY <1>1, <1>3, <1>4, <2>1, SelInSection DEF Sectioned
<1>6. Selectable(a)
  <2>1. CASE a.form = "Ref"
    BY <1>5, <2>1 DEF Selectable
  <2>2. CASE a.form # "Ref"
    BY <1>2, <1>3, <1>5, <2>2 DEF Selectable, OwnSelectable
  <2> QED BY <2>1, <2>2
<1>7. o \in Gathered
  BY <1>1, <1>6 DEF Gathered
<1> QED BY <1>1, <1>7, GatheredRendered DEF Sectioned

LEMMA GeneratedParts ==
  ASSUME LinkInv, Generated
  PROVE  Whole /\ Linked /\ Rendered
<1>1. Compiled
  BY DEF Generated, Compiled
<1> QED BY <1>1, CompiledWhole DEF LinkInv, Generated

(* The channel of an operation that is rendered. *)
LEMMA ChannelOfRendered ==
  ASSUME Whole, Linked, Rendered, DefaultLayout, ChannelsInPlace, NEW o \in rendered, o.type = "Operation"
  PROVE  /\ IsA(o, "Operation") /\ ~Dummy(o) /\ IsA(ChannelOf(o), "Channel") /\ ~Dummy(ChannelOf(o))
         /\ ChannelOf(o).sel = "yes"
         /\ ChannelOf(o) \in rendered /\ ChannelOf(o) \in Active("channels", "Channel")
<1>1. IsA(o, "Operation") /\ ~Dummy(o) /\ Visible(o)
  BY GatheredIsA
<1>2. IsA(ChannelOf(o), "Channel") /\ ~Dummy(ChannelOf(o))
  BY <1>1, ChannelOfIsA DEF Visible
<1>3. ChannelOf(o).sel = "yes"
  BY <1>2 DEF ChannelsInPlace
<1> QED BY <1>1, <1>2, <1>3, ChannelRendered

LEMMA CalledIsDeclared ==
  ASSUME Whole, Linked, Rendered, DefaultLayout, ReferencesFit, ChannelsInPlace,
         NEW s, s.type = "Server", NEW call \in Calls(s)
  PROVE  call \in Declared
<1>1. PICK x, p : /\ call = <<x, p>> /\ p \in ActiveProtocols(x)
                  /\ x \in BoundChannels(s) \/ \E c \in BoundChannels(s) : x \in BoundOperations(c)
  BY DEF Calls
<1>2. \A c \in BoundChannels(s) : c \in Active("channels", "Channel") /\ c.sel = "yes"
  BY DEF BoundChannels, ChannelsInPlace
<1>3. CASE x \in BoundChannels(s)
  <2>1. x.type = "Channel" /\ x \in rendered
    BY <1>2, <1>3, ActiveAreA, ChannelRendered DEF IsA
  <2> QED BY <1>1, <2>1 DEF Declared, Declares
<1>4. ASSUME NEW c \in BoundChannels(s), x \in BoundOperations(c)
      PROVE  call \in Declared
  <2>1. x \in Active("operations", "Operation") /\ ChannelOf(x) = c
    BY <1>4 DEF BoundOperations
  <2>2. x.type = "Operation" /\ x \in rendered
    BY <1>2, <2>1, ActiveAreA, OperationRendered DEF IsA
  <2> QED BY <1>1, <2>2 DEF Declared, Declares
<1> QED BY <1>1, <1>3, <1>4

(* The server that has made a protocol active for a channel opens it. *)
LEMMA ChannelIsCalled ==
  ASSUME Whole, Linked, Rendered, DefaultLayout,
         NEW c \in Active("channels", "Channel"), NEW p \in ChannelProtocols(c)
  PROVE  \E s \in rendered : s.type = "Server" /\ c \in BoundChannels(s) /\ ActiveProtocols(s) = {p}
<1>1. IsA(c, "Channel")
  BY ActiveAreA
<1>2. PICK s \in BoundServers(c) : s.sel = "yes" /\ p = doc[s.ptr].info
  BY DEF ChannelProtocols
<1>3. IsA(s, "Server") /\ s.type = "Server"
  BY <1>1, <1>2, BoundServersAreA DEF IsA
<1>4. s \in rendered
  BY <1>2, <1>3, ServerRendered
<1>5. c \in BoundChannels(s)
  BY <1>2 DEF BoundChannels
<1> QED BY <1>2, <1>3, <1>4, <1>5, ProtocolsByType

LEMMA CallsOfServer ==
  ASSUME NEW s, s.type = "Server", NEW x, NEW p, p \in ActiveProtocols(s), p \in ActiveProtocols(x),
         x \in BoundChannels(s) \/ \E c \in BoundChannels(s) : x \in BoundOperations(c)
  PROVE  <<x, p>> \in Calls(s)
<1>1. <<x, p>> \in (BoundChannels(s) \cup UNION {BoundOperations(c) : c \in BoundChannels(s)})
                    \X ActiveProtocols(s)
  OBVIOUS
<1>2. <<x, p>>[2] \in ActiveProtocols(<<x, p>>[1])
  OBVIOUS
<1>3. Calls(s) = {call \in (BoundChannels(s) \cup UNION {BoundOperations(c) : c \in BoundChannels(s)})
                             \X ActiveProtocols(s) : call[2] \in ActiveProtocols(call[1])}
  BY DEF Calls
<1> QED BY <1>1, <1>2, <1>3

LEMMA DeclaredIsCalled ==
  ASSUME Whole, Linked, Rendered, DefaultLayout, ReferencesFit, ChannelsInPlace, RepliesFit,
         NEW x \in rendered, NEW call \in Declares(x)
  PROVE  \E s \in rendered : s.type = "Server" /\ call \in Calls(s)
<1>1. x.type \in {"Channel", "Operation"}
  BY DEF Declares
<1>2. PICK p \in ActiveProtocols(x) : call = <<x, p>>
  BY <1>1 DEF Declares
<1>3. CASE x.type = "Channel"
  <2>1. x \in Active("channels", "Channel")
    <3>1. SectionOf(x.type) = "channels"
      BY <1>3 DEF SectionOf
    <3> QED BY <1>3, <3>1, RenderedActive DEF Sectioned
  <2>2. p \in ChannelProtocols(x)
    BY <1>3, ProtocolsByType
  <2>3. PICK s \in rendered : s.type = "Server" /\ x \in BoundChannels(s) /\ ActiveProtocols(s) = {p}
    BY <2>1, <2>2, ChannelIsCalled
  <2> QED BY <1>2, <2>3, CallsOfServer
<1>4. CASE x.type = "Operation"
  <2>1. x \in Active("operations", "Operation")
    <3>1. SectionOf(x.type) = "operations"
      BY <1>4 DEF SectionOf
    <3> QED BY <1>4, <3>1, RenderedActive DEF Sectioned
  <2>2. p \in ChannelProtocols(ChannelOf(x))
    <3>1. p \in OperationProtocols(x)
      BY <1>4, ProtocolsByType
    <3> QED BY <2>1, <3>1 DEF RepliesFit
  <2>3. ChannelOf(x) \in Active("channels", "Channel") /\ ~Dummy(ChannelOf(x))
    BY <1>4, ChannelOfRendered
  <2>4. PICK s \in rendered :
          s.type = "Server" /\ ChannelOf(x) \in BoundChannels(s) /\ ActiveProtocols(s) = {p}
    BY <2>2, <2>3, ChannelIsCalled
  <2>5. x \in BoundOperations(ChannelOf(x))
    BY <2>1, <2>3 DEF BoundOperations
  <2> QED BY <1>2, <2>4, <2>5, CallsOfServer
<1> QED BY <1>1, <1>3, <1>4

(* An Open function is generated exactly when a server calls it, whatever  *)
(* the document is: the flags that select an object, the list promises     *)
(* that make it visible and the protocols active for it come to the same,  *)
(* where references and replies fit their places.                          *)
THEOREM ServersOpen == Spec => []ServersOpenWhatIsGenerated
<1>1. ASSUME LinkInv
      PROVE  ServersOpenWhatIsGenerated
  <2> SUFFICES ASSUME Generated, DefaultLayout, ReferencesFit, ChannelsInPlace, RepliesFit
               PROVE  /\ UNION {Calls(s) : s \in {s \in rendered : s.type = "Server"}} = Declared
                      /\ \A o \in {o \in rendered : o.type = "Operation"} : Calls(o) \subseteq Declared
    BY DEF ServersOpenWhatIsGenerated
  <2>1. Whole /\ Linked /\ Rendered
    BY <1>1, GeneratedParts
  <2>2. \A s \in {s \in rendered : s.type = "Server"} : Calls(s) \subseteq Declared
    BY <2>1, CalledIsDeclared
  <2>3. \A call \in Declared : \E s \in rendered : s.type = "Server" /\ call \in Calls(s)
    BY <2>1, DeclaredIsCalled DEF Declared
  <2>4. ASSUME NEW o \in rendered, o.type = "Operation"
        PROVE  Calls(o) \subseteq Declared
    <3>1. Calls(o) = {<<ChannelOf(o), p>> : p \in OperationProtocols(o)}
      BY <2>4 DEF Calls
    <3>2. ChannelOf(o) \in rendered /\ ChannelOf(o).type = "Channel"
      BY <2>1, <2>4, ChannelOfRendered DEF IsA
    <3>3. OperationProtocols(o) \subseteq ActiveProtocols(ChannelOf(o))
      <4>1. o \in Active("operations", "Operation")
        <5>1. SectionOf(o.type) = "operations"
          BY <2>4 DEF SectionOf
        <5> QED BY <2>1, <2>4, <5>1, RenderedActive DEF Sectioned
      <4> QED BY <3>2, <4>1, ProtocolsByType DEF RepliesFit
    <3>4. Declares(ChannelOf(o)) = {<<ChannelOf(o), p>> : p \in ActiveProtocols(ChannelOf(o))}
      BY <3>2 DEF Declares
    <3>5. Calls(o) \subseteq Declares(ChannelOf(o))
      BY <3>1, <3>3, <3>4
    <3> QED BY <3>2, <3>5 DEF Declared
  <2> QED BY <2>2, <2>3, <2>4
<1> QED BY <1>1, LinkInvariance, PTL

-----------------------------------------------------------------------------
(* Messages and channels *)

LEMMA MessagesOfChannel ==
  ASSUME IsTyped(doc), NEW q \in DOMAIN doc, doc[q].type = "Channel", Has(doc, q, "messages")
  PROVE  /\ doc[q \o <<"messages">>].type = "Map"
         /\ \A k \in ToSet(doc[q \o <<"messages">>].keys) : doc[q \o <<"messages", k>>].type = "Message"
<1>1. PICK e \in ElementTypes : e[1] = "Channel" /\ e[2] = "messages" /\ e[3] = "Map" /\ e[4] = "Message"
  <2>1. <<"Channel", "messages", "Map", "Message">> \in ElementTypes
    BY DEF ElementTypes
  <2> QED BY <2>1
<1>2. /\ doc[q \o <<e[2]>>].type = e[3]
      /\ \A k \in ToSet(doc[q \o <<e[2]>>].keys) : doc[q \o <<e[2], k>>].type = e[4]
  BY <1>1 DEF IsTyped
<1> QED BY <1>1, <1>2

LEMMA MessageRendered ==
  ASSUME Whole, Linked, Rendered, DefaultLayout, NEW c, IsA(c, "Channel"),
         NEW m \in ChannelMessages(c), Visible(m)
  PROVE  m \in rendered
<1>1. /\ IsA(m, "Message") /\ Has(doc, c.ptr, "messages") /\ ~Dummy(c)
      /\ \E k \in ToSet(doc[c.ptr \o <<"messages">>].keys) :
           m = end[c.ptr \o <<"messages", k>>] /\ c.ptr \o <<"messages", k>> \in Pointers
  BY ChannelMessagesAreA
<1>2. PICK k \in ToSet(doc[c.ptr \o <<"messages">>].keys) :
        m = end[c.ptr \o <<"messages", k>>] /\ c.ptr \o <<"messages", k>> \in Pointers
  BY <1>1
<1>3. PICK q \in DOMAIN doc : q = c.ptr /\ doc[q].type = "Channel" /\ "messages" \in ToSet(doc[q].keys)
  BY <1>1, PromisesMade DEF Has
<1>4. PICK l \in DOMAIN doc :
        /\ l = q \o <<"messages">> /\ l # <<>> /\ Front(l) = q /\ Last(l) = "messages"
        /\ doc[l].type = "Map"
  <2>1. q \o <<"messages">> \in DOMAIN doc /\ q \o <<"messages">> # <<>>
    BY <1>3, ChildIn DEF Whole
  <2>2. Front(q \o <<"messages">>) = q /\ Last(q \o <<"messages">>) = "messages"
    BY <1>3, ChildIn DEF Whole
  <2>3. doc[q \o <<"messages">>].type = "Map"
    BY <1>3, MessagesOfChannel DEF Whole, Has
  <2> QED BY <2>1, <2>2, <2>3
<1>5. PICK p \in DOMAIN doc :
        p = l \o <<k>> /\ p # <<>> /\ Front(p) = l /\ doc[p].type = "Message" /\ p = c.ptr \o <<"messages", k>>
  <2>1. k \in ToSet(doc[l].keys)
    BY <1>2, <1>3, <1>4
  <2>2. l \o <<k>> \in DOMAIN doc /\ l \o <<k>> # <<>> /\ Front(l \o <<k>>) = l
    BY <2>1, ChildIn DEF Whole
  <2>3. q \o <<"messages", k>> = l \o <<k>>
    BY <1>3, <1>4, <2>1, OfContainer
  <2>4. doc[q \o <<"messages", k>>].type = "Message"
    BY <1>3, <1>4, <2>1, MessagesOfChannel DEF Whole, Has
  <2> QED BY <1>3, <2>2, <2>3, <2>4
<1>6. SelectableAt(p)
  <2>1. SelectableAt(p) <=> "selectable" \in FieldTags(doc[q].type, "messages")
    BY <1>4, <1>5 DEF SelectableAt, Containers
  <2> QED BY <1>3, <2>1, SelectableTagsOf
<1>7. PICK a \in All : a.ptr = p /\ IsOfNode(a)
  BY <1>2, <1>5, OfNode DEF Pointers
<1>8. PICK flags : a = Artifact(doc, p, p, flags) /\ AreTags(p, flags)
  BY <1>5, <1>7 DEF IsOfNode, IsArtifact
<1>9. a.form # "Dummy" => a.sel = "yes"
  BY <1>5, <1>6, <1>8, ArtifactSel DEF AreTags
<1>10. m = end[a.ptr] /\ m.type = "Message" /\ ~Dummy(m)
  BY <1>1, <1>2, <1>5, <1>7 DEF IsA, Visible
<1>11. a.form # "Ref" => a = m
  BY <1>10 DEF Linked
<1>12. Selectable(a)
  <2>1. a.sel = "yes"
    BY <1>9, <1>10, <1>11 DEF Dummy
  <2>2. CASE a.form = "Ref"
    BY <2>1, <2>2 DEF Selectable
  <2>3. CASE a.form # "Ref"
    BY <1>10, <1>11, <2>1, <2>3 DEF Selectable, OwnSelectable
  <2> QED BY <2>2, <2>3
<1>13. m \in Gathered
  BY <1>10, <1>12 DEF Gathered
<1> QED BY <1>10, <1>13, GatheredRendered DEF Sectioned

LEMMA MessageFits ==
  ASSUME Whole, Linked, Rendered, DefaultLayout, NEW c, IsA(c, "Channel"), c.sel = "yes",
         NEW m \in ChannelMessages(c), Visible(m)
  PROVE  Fits(m, c)
<1>1. m \in rendered
  BY MessageRendered
<1>2. c \in ChannelsOf(m)
  BY ChannelRendered DEF ChannelsOf
<1>3. ChannelProtocols(c) \subseteq MessageProtocols(m)
  BY <1>2 DEF MessageProtocols
<1> QED BY <1>1, <1>2, <1>3 DEF Fits

(* A message that an operation or its reply takes has its code, with the   *)
(* methods of that channel for every protocol, whatever the document is:   *)
(* where checkArtifacts has not warned of it.                              *)
THEOREM MessagesFit == Spec => []MessagesFitTheirChannels
<1>1. ASSUME LinkInv
      PROVE  MessagesFitTheirChannels
  <2> SUFFICES ASSUME Generated, DefaultLayout, ChannelsInPlace,
                      NEW o \in rendered, o.type = "Operation", ~Warned(o), ReplyHasMessages(o)
               PROVE  /\ \A m \in {m \in BoundMessages(o) : Visible(m)} : Fits(m, ChannelOf(o))
                      /\ HasReply(o) /\ Visible(BoundReplyChannel(o)) =>
                           \A m \in {m \in BoundReplyMessages(o) : Visible(m)} : Fits(m, BoundReplyChannel(o))
    BY DEF MessagesFitTheirChannels
  <2>1. Whole /\ Linked /\ Rendered
    BY <1>1, GeneratedParts
  <2>2. /\ IsA(o, "Operation") /\ ~Dummy(o) /\ IsA(ChannelOf(o), "Channel")
        /\ ChannelOf(o).sel = "yes"
    BY <2>1, ChannelOfRendered
  <2>3. ASSUME NEW m \in BoundMessages(o), Visible(m)
        PROVE  Fits(m, ChannelOf(o))
    <3>1. m \in ChannelMessages(ChannelOf(o))
      BY <2>2, <2>3 DEF BoundMessages, Warned, Messages
    <3> QED BY <2>1, <2>2, <2>3, <3>1, MessageFits
  <2>4. ASSUME HasReply(o), Visible(BoundReplyChannel(o)), NEW m \in BoundReplyMessages(o), Visible(m)
        PROVE  Fits(m, BoundReplyChannel(o))
    <3>1. Messages(Field(o, "reply")) \subseteq ChannelMessages(BoundReplyChannel(o))
      BY <2>4 DEF Warned
    <3>2. CASE ReplyChannels(o) = {}
      <4>1. BoundReplyChannel(o) = ChannelOf(o)
        BY <3>2 DEF BoundReplyChannel
      <4>2. CASE m \in BoundMessages(o)
        BY <2>3, <2>4, <4>1, <4>2
      <4>3. CASE m \in ReplyMessages(o)
        <5>1. m \in Messages(Field(o, "reply"))
          BY <3>2, <4>3 DEF ReplyMessages
        <5> QED BY <2>1, <2>2, <2>4, <3>1, <4>1, <5>1, MessageFits
      <4> QED BY <2>4, <4>2, <4>3 DEF BoundReplyMessages
    <3>3. ASSUME NEW c \in ReplyChannels(o)
          PROVE  Fits(m, BoundReplyChannel(o))
      <4>1. IsA(c, "Channel") /\ ReplyChannels(o) = {c}
        BY <2>1, <2>2, ReplyChannelsAreA
      <4>2. BoundReplyChannel(o) = c
        BY <4>1 DEF BoundReplyChannel
      <4>3. c.sel = "yes"
        BY <2>4, <4>2, <4>1 DEF ChannelsInPlace, Visible
      <4>4. m \in ReplyMessages(o)
        BY <2>4, <4>1 DEF ReplyHasMessages, BoundReplyMessages
      <4>5. m \in ChannelMessages(c)
        BY <3>1, <4>1, <4>2, <4>4 DEF ReplyMessages
      <4> QED BY <2>1, <2>4, <4>1, <4>2, <4>3, <4>5, MessageFits
    <3> QED BY <3>2, <3>3
  <2> QED BY <2>3, <2>4
<1> QED BY <1>1, LinkInvariance, PTL

-----------------------------------------------------------------------------
(* Accessors *)

LEMMA Smallest ==
  ASSUME NEW S \in SUBSET Nat, S # {}
  PROVE  \E n \in S : \A m \in S : n <= m
<1>1. PICK n \in S : \A m \in S : ~(<<m, n>> \in OpToRel(<, Nat))
  BY NatLessThanWellFounded, WFMin
<1>2. \A m \in S : ~(m < n)
  BY <1>1, Zenon DEF OpToRel
<1> QED BY <1>2

(* What may lie on the path of a location with n members. *)
IsContent(types, content, n) ==
  /\ DOMAIN content.of = 1 .. n /\ Len(content.of) = n
  /\ \A i \in 1 .. n : content.of[i] \in MayBe(types[i - 1])

LEMMA ContentParts ==
  ASSUME NEW types, NEW n \in Nat, NEW values, NEW content \in Contents(types, n, values)
  PROVE  IsContent(types, content, n)
<1>1. PICK of \in [1 .. n -> {"there", "empty", "nil"}], v \in values :
        content = [of |-> of, value |-> v] /\ \A i \in 1 .. n : of[i] \in MayBe(types[i - 1])
  BY DEF Contents, IsPossible
<1>2. content.of = of /\ DOMAIN of = 1 .. n /\ Len(of) = n
  BY <1>1
<1> QED BY <1>1, <1>2 DEF IsContent

LEMMA GetAll ==
  ASSUME NEW types, NEW content, \A i \in DOMAIN content.of : content.of[i] = "there"
  PROVE  Get(types, content) = Value(content.value)
BY DEF Get

(* The getter stops at the first container that is not there. *)
LEMMA GetMisses ==
  ASSUME NEW types, NEW n \in Nat, NEW content, IsContent(types, content, n),
         NEW j \in 1 .. n, content.of[j] # "there"
  PROVE  \E i \in 1 .. n : /\ content.of[i] # "there"
                           /\ Get(types, content) = Misses(types[i - 1], content.of[i])
<1>1. PICK missing : missing = {i \in DOMAIN content.of : content.of[i] # "there"}
  OBVIOUS
<1>2. missing \subseteq 1 .. n /\ j \in missing /\ missing # {}
  BY <1>1 DEF IsContent
<1>3. \E i \in missing : \A k \in missing : i <= k
  BY <1>2, Smallest
<1>4. PICK first : first = CHOOSE i \in missing : \A k \in missing : i <= k
  OBVIOUS
<1>5. first \in missing
  BY <1>3, <1>4
<1>6. Get(types, content) = Misses(types[first - 1], content.of[first])
  BY <1>1, <1>2, <1>4 DEF Get
<1> QED BY <1>1, <1>2, <1>5, <1>6

LEMMA Outcomes ==
  /\ \A v : Value(v).status = "ok" /\ Value(v).value = v
  /\ Panic.status = "panic" /\ Error.status = "error"
BY DEF Value, Panic, Error

LEMMA SetThenGet ==
  ASSUME NEW types, NEW n \in Nat, NEW content, IsContent(types, content, n), NEW v,
         Set(types, content, v).status = "ok"
  PROVE  Get(types, Set(types, content, v).value) = Value(v)
<1>1. PICK after : after = AssignedBack(types, content, v)
  OBVIOUS
<1>2. Set(types, content, v) = Value(after)
  BY <1>1, Outcomes DEF Set
<1>3. PICK of : of = [i \in DOMAIN content.of |-> "there"]
  OBVIOUS
<1>4. after.of = of /\ after.value = v
  BY <1>1, <1>3 DEF AssignedBack
<1>5. Get(types, after) = Value(v)
  BY <1>3, <1>4, GetAll
<1> QED BY <1>2, <1>5, Outcomes

LEMMA SetPanics ==
  ASSUME NEW types, NEW n \in Nat \ {0}, NEW content, IsContent(types, content, n), NEW v,
         Set(types, content, v).status = "panic"
  PROVE  \E i \in 1 .. n : content.of[i] # "there"
<1>1. Len(content.of) = n
  BY DEF IsContent
<1>2. \/ \E i \in 1 .. n - 1 : ~CanRead(types[i - 1], content.of[i])
      \/ ~CanWrite(types[n - 1], content.of[n])
  BY <1>1, Outcomes DEF Set
<1>3. n \in 1 .. n /\ \A i \in 1 .. n - 1 : i \in 1 .. n
  OBVIOUS
<1> QED BY <1>2, <1>3 DEF CanRead, CanWrite

LEMMA GetPanics ==
  ASSUME NEW types, NEW n \in Nat, NEW content, IsContent(types, content, n),
         Get(types, content) = Panic
  PROVE  \E i \in 1 .. n : types[i - 1].star /\ content.of[i] = "nil"
<1>1. PICK j \in 1 .. n : content.of[j] # "there"
  <2>1. CASE \A i \in DOMAIN content.of : content.of[i] = "there"
    <3>1. Get(types, content) = Value(content.value)
      BY <2>1, GetAll
    <3> QED BY <3>1, Outcomes
  <2> QED BY <2>1 DEF IsContent
<1>2. PICK i \in 1 .. n : /\ content.of[i] # "there"
                          /\ Get(types, content) = Misses(types[i - 1], content.of[i])
  BY <1>1, GetMisses
<1>3. types[i - 1].kind = "struct"
  BY <1>2, Outcomes DEF Misses
<1>4. content.of[i] \in MayBe(types[i - 1])
  BY DEF IsContent
<1>5. MayBe(types[i - 1]) = IF types[i - 1].star THEN {"there", "nil"} ELSE {"there"}
  BY <1>3 DEF MayBe
<1> QED BY <1>2, <1>4, <1>5

LEMMA CorrelatedPath ==
  ASSUME Whole, Linked, Rendered, NEW m \in Correlated
  PROVE  Len(Location(m).path) \in Nat \ {0}
<1>1. /\ m \in rendered /\ m.type = "Message" /\ Has(doc, m.ptr, "correlationId")
      /\ ~Dummy(Field(m, "correlationId"))
  BY DEF Correlated
<1>2. IsA(m, "Message") /\ ~Dummy(m)
  BY <1>1, GatheredIsA
<1>3. IsA(Field(m, "correlationId"), "CorrelationID")
  BY <1>1, <1>2, MessagePromised, FieldIsA
<1>4. PICK p \in DOMAIN doc : p = Field(m, "correlationId").ptr /\ doc[p].type = "CorrelationID"
  BY <1>1, <1>3, PromisesMade
<1>5. PICK S : S = [key : STRING, number : BOOLEAN]
  OBVIOUS
<1>6. doc[p].location.path \in Seq(S) \ {<<>>}
  BY <1>4, <1>5 DEF Whole, IsPlaced
<1>7. PICK path \in Seq(S) : path = doc[p].location.path /\ path # <<>>
  BY <1>6
<1>8. Len(path) \in Nat \ {0}
  BY <1>7
<1> QED BY <1>4, <1>7, <1>8 DEF Location

(* Of every location, whatever the types on its path and the message hold: *)
(* an id that was set is the one that is read; setting fails only for want *)
(* of a container, and reading panics only at a nil pointer.               *)
THEOREM AccessorsFit == Spec => []AccessorsFitTogether
<1>1. ASSUME LinkInv
      PROVE  AccessorsFitTogether
  <2> SUFFICES ASSUME Generated, NEW m \in Correlated,
                      NEW types, types = Types(m, Location(m)),
                      NEW n, n = Len(Location(m).path),
                      NEW content \in Contents(types, n, {"old"}),
                      NEW after, after = Set(types, content, "new")
               PROVE  /\ after.status = "ok" => Get(types, after.value) = Value("new")
                      /\ after.status = "panic" => \E i \in 1 .. n : content.of[i] # "there"
                      /\ Get(types, content) = Panic =>
                           \E i \in 1 .. n : types[i - 1].star /\ content.of[i] = "nil"
    BY Zenon DEF AccessorsFitTogether
  <2>1. n \in Nat \ {0} /\ n \in Nat
    <3>1. Whole /\ Linked /\ Rendered
      BY <1>1, GeneratedParts
    <3> QED BY <3>1, CorrelatedPath
  <2>2. IsContent(types, content, n)
    BY <2>1, ContentParts
  <2>3. after.status = "ok" => Get(types, after.value) = Value("new")
    BY <2>1, <2>2, SetThenGet
  <2>4. after.status = "panic" => \E i \in 1 .. n : content.of[i] # "there"
    BY <2>1, <2>2, SetPanics
  <2>5. Get(types, content) = Panic => \E i \in 1 .. n : types[i - 1].star /\ content.of[i] = "nil"
    BY <2>1, <2>2, GetPanics
  <2> QED BY <2>3, <2>4, <2>5
<1> QED BY <1>1, LinkInvariance, PTL
=============================================================================
