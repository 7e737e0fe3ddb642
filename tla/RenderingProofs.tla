--------------------------- MODULE RenderingProofs --------------------------
(***************************************************************************)
(* A failed attempt to render leaves no trace, and the qualified names in  *)
(* the text of a file mean what they were written for, in every world.     *)
(* And where extra code files are apart and the onces agree, rendering     *)
(* succeeds when some order of the queue does, with every object in its    *)
(* file as often as the queue has it there.                                *)
(***************************************************************************)
EXTENDS Rendering, FiniteSetTheorems, SequenceTheorems, TLAPS

-----------------------------------------------------------------------------
(* The imports of a file: AddImport keeps them numbered, and numbered      *)
(* imports declare different names, however many there are.                *)

(* The imports of one package name have different numbers, none above how  *)
(* many they are; an alias is made with the number, and the first import   *)
(* alone may do without.                                                   *)
IsNumbering(imports, number) ==
  /\ number \in [DOMAIN imports -> Nat \ {0}]
  /\ \A p \in DOMAIN imports :
       /\ number[p] <= Cardinality(SameName(imports, imports[p].package))
       /\ imports[p].aliased => imports[p].name = Numbered(imports[p].package, number[p])
       /\ ~imports[p].aliased => number[p] = 1 /\ imports[p].name = imports[p].package
  /\ \A p, q \in DOMAIN imports :
       imports[p].package = imports[q].package /\ number[p] = number[q] => p = q

IsNumbered(imports) ==
  /\ IsFiniteSet(DOMAIN imports)
  /\ \E number : IsNumbering(imports, number)

LEMMA NoImportsNumbered == IsNumbered(NoImports)
<1>1. DOMAIN NoImports = {}
  BY DEF NoImports
<1>2. IsNumbering(NoImports, [p \in {} |-> 1])
  BY <1>1 DEF IsNumbering
<1> QED
  BY <1>1, <1>2, FS_EmptySet DEF IsNumbered

LEMMA SameNameFinite ==
  ASSUME NEW imports, NEW name, IsFiniteSet(DOMAIN imports)
  PROVE  /\ IsFiniteSet(SameName(imports, name))
         /\ Cardinality(SameName(imports, name)) \in Nat
         /\ Cardinality(SameName(imports, name)) <= Cardinality(DOMAIN imports)
         /\ (SameName(imports, name) = {}) <=> (Cardinality(SameName(imports, name)) = 0)
<1>1. SameName(imports, name) \subseteq DOMAIN imports
  BY DEF SameName
<1> QED
  BY <1>1, FS_Subset, FS_CardinalityType, FS_EmptySet

LEMMA AddImportNumbered ==
  ASSUME NEW imports, NEW path, NEW name, IsNumbered(imports)
  PROVE  IsNumbered(AddImport(imports, path, name))
<1> DEFINE added == AddImport(imports, path, name)
           same == SameName(imports, name)
<1>1. CASE path \in DOMAIN imports
  <2>1. DOMAIN added = DOMAIN imports /\ \A p \in DOMAIN imports : added[p] = imports[p]
    BY <1>1 DEF AddImport
  <2>2. \A n : SameName(added, n) = SameName(imports, n)
    BY <2>1 DEF SameName
  <2>3. PICK number : IsNumbering(imports, number)
    BY DEF IsNumbered
  <2>4. IsNumbering(added, number)
    <3> HIDE DEF added
    <3> QED BY <2>1, <2>2, <2>3 DEF IsNumbering
  <2> QED
    BY <2>1, <2>4 DEF IsNumbered
<1>2. CASE path \notin DOMAIN imports
  <2>1. PICK number : IsNumbering(imports, number)
    BY DEF IsNumbered
  <2>2. IsFiniteSet(DOMAIN imports)
    BY DEF IsNumbered
  <2>3. /\ IsFiniteSet(same) /\ Cardinality(same) \in Nat
        /\ same = {} => Cardinality(same) = 0
    BY <2>2, SameNameFinite
  <2> DEFINE next == [p \in DOMAIN imports \cup {path} |->
                        IF p = path THEN Cardinality(same) + 1 ELSE number[p]]
  <2>4. /\ DOMAIN added = DOMAIN imports \cup {path}
        /\ \A p \in DOMAIN imports : added[p] = imports[p]
        /\ added[path] = NewItem(imports, name)
    BY <1>2 DEF AddImport
  <2>5. /\ added[path].package = name
        /\ added[path].aliased => added[path].name = Numbered(name, Cardinality(same) + 1)
        /\ ~added[path].aliased => same = {} /\ added[path].name = name
    <3> DEFINE taken == same # {} \/ name \notin Identifiers
               called == IF taken THEN Numbered(name, Cardinality(same) + 1) ELSE name
    <3>1. added[path] = [package |-> name, name |-> called, aliased |-> taken]
      BY <2>4 DEF NewItem
    <3>0. taken \in BOOLEAN
      OBVIOUS
    <3> HIDE DEF added, called, taken
    <3>2. added[path].package = name /\ added[path].name = called
      BY <3>1
    <3>3. added[path].aliased = taken
      BY <3>0, <3>1
    <3> QED
      BY <3>2, <3>3 DEF called, taken
  <2> HIDE DEF added
  <2>6. \A n : SameName(added, n) = IF n = name THEN same \cup {path} ELSE SameName(imports, n)
    BY <1>2, <2>4, <2>5 DEF SameName
  <2>7. path \notin same
    BY <1>2 DEF SameName
  <2>8. Cardinality(same \cup {path}) = Cardinality(same) + 1 /\ IsFiniteSet(same \cup {path})
    BY <2>3, <2>7, FS_AddElement
  <2>9. IsFiniteSet(DOMAIN added)
    BY <2>2, <2>4, FS_AddElement
  <2>10. number \in [DOMAIN imports -> Nat \ {0}]
    BY <2>1 DEF IsNumbering
  <2>11. next \in [DOMAIN added -> Nat \ {0}]
    BY <2>3, <2>4, <2>10
  <2>12. /\ next[path] = Cardinality(same) + 1
         /\ \A p \in DOMAIN imports : next[p] = number[p]
    BY <1>2
  <2> HIDE DEF next, same
  <2>13. ASSUME NEW p \in DOMAIN added
         PROVE  /\ next[p] <= Cardinality(SameName(added, added[p].package))
                /\ added[p].aliased => added[p].name = Numbered(added[p].package, next[p])
                /\ ~added[p].aliased => next[p] = 1 /\ added[p].name = added[p].package
    <3>1. CASE p = path
      BY <3>1, <2>3, <2>5, <2>6, <2>8, <2>12
    <3>2. CASE p # path
      <4>1. p \in DOMAIN imports /\ added[p] = imports[p] /\ next[p] = number[p]
        BY <3>2, <2>4, <2>12
      <4>2. /\ number[p] \in Nat
            /\ number[p] <= Cardinality(SameName(imports, imports[p].package))
            /\ imports[p].aliased => imports[p].name = Numbered(imports[p].package, number[p])
            /\ ~imports[p].aliased => number[p] = 1 /\ imports[p].name = imports[p].package
        BY <4>1, <2>1, <2>10 DEF IsNumbering
      <4>3. number[p] <= Cardinality(SameName(added, imports[p].package))
        <5>1. CASE imports[p].package = name
          <6>1. number[p] <= Cardinality(same)
            BY <4>2, <5>1 DEF same
          <6> QED BY <6>1, <4>2, <5>1, <2>3, <2>6, <2>8
        <5>2. CASE imports[p].package # name
          BY <4>2, <5>2, <2>6
        <5> QED BY <5>1, <5>2
      <4> QED BY <4>1, <4>2, <4>3
    <3> QED BY <3>1, <3>2
  <2>14. ASSUME NEW p \in DOMAIN added, NEW q \in DOMAIN added,
                added[p].package = added[q].package, next[p] = next[q]
         PROVE  p = q
    <3>1. ASSUME NEW r \in DOMAIN imports, added[r].package = name
          PROVE  next[r] # next[path]
      <4>1. number[r] <= Cardinality(same) /\ number[r] \in Nat
        BY <3>1, <2>1, <2>4, <2>10 DEF IsNumbering, same
      <4> QED BY <4>1, <2>3, <2>12
    <3>2. CASE p = path \/ q = path
      BY <3>1, <3>2, <2>4, <2>5, <2>14
    <3>3. CASE p # path /\ q # path
      <4>1. /\ p \in DOMAIN imports /\ q \in DOMAIN imports
            /\ imports[p].package = imports[q].package /\ number[p] = number[q]
        BY <3>3, <2>4, <2>12, <2>14
      <4> QED BY <4>1, <2>1 DEF IsNumbering
    <3> QED BY <3>2, <3>3
  <2>15. IsNumbering(added, next)
    BY <2>11, <2>13, <2>14 DEF IsNumbering
  <2> QED
    BY <2>9, <2>15 DEF IsNumbered, added
<1> QED
  BY <1>1, <1>2

(* AddImport of import.go never gives two imports one name, as long as no  *)
(* package is called like an alias.                                        *)
THEOREM NumberedIsDistinct ==
  ASSUME NEW imports, IsNumbered(imports)
  PROVE  NamesDistinct(imports)
<1> DEFINE last == Cardinality(DOMAIN imports)
<1>1. SUFFICES ASSUME Plain(Packages(imports), last),
                      NEW p \in DOMAIN imports, NEW q \in DOMAIN imports,
                      imports[p].name = imports[q].name
               PROVE  p = q
  BY DEF NamesDistinct
<1>2. PICK number : IsNumbering(imports, number)
  BY DEF IsNumbered
<1>3. IsFiniteSet(DOMAIN imports)
  BY DEF IsNumbered
<1>4. ASSUME NEW r \in DOMAIN imports
      PROVE  number[r] \in 1 .. last /\ imports[r].package \in Packages(imports)
  <2>1. number[r] \in Nat \ {0} /\ number[r] <= Cardinality(SameName(imports, imports[r].package))
    BY <1>2 DEF IsNumbering
  <2>2. /\ Cardinality(SameName(imports, imports[r].package)) \in Nat
        /\ Cardinality(SameName(imports, imports[r].package)) <= last
    BY <1>3, SameNameFinite
  <2>3. last \in Nat
    BY <1>3, FS_CardinalityType
  <2> QED BY <2>1, <2>2, <2>3 DEF Packages
<1>5. ASSUME NEW r \in DOMAIN imports
      PROVE  /\ imports[r].aliased => imports[r].name = Numbered(imports[r].package, number[r])
             /\ ~imports[r].aliased => number[r] = 1 /\ imports[r].name = imports[r].package
  BY <1>2 DEF IsNumbering
<1>6. imports[p].package = imports[q].package /\ number[p] = number[q]
  <2> HIDE DEF last
  <2>1. CASE imports[p].aliased /\ imports[q].aliased
    BY <2>1, <1>1, <1>4, <1>5 DEF Plain
  <2>2. CASE imports[p].aliased /\ ~imports[q].aliased
    BY <2>2, <1>1, <1>4, <1>5 DEF Plain
  <2>3. CASE ~imports[p].aliased /\ imports[q].aliased
    BY <2>3, <1>1, <1>4, <1>5 DEF Plain
  <2>4. CASE ~imports[p].aliased /\ ~imports[q].aliased
    BY <2>4, <1>1, <1>5
  <2> QED BY <2>1, <2>2, <2>3, <2>4
<1> QED
  BY <1>2, <1>6 DEF IsNumbering

-----------------------------------------------------------------------------
(* The inductive invariant *)

IsText(s) == s \in Seq(ToSet(s))

IsState(s) ==
  s = [file |-> s.file, package |-> s.package, protocol |-> s.protocol, impl |-> s.impl,
       imports |-> s.imports, namespace |-> s.namespace, buffer |-> s.buffer]
IsNamespace(n) == n = [pins |-> n.pins, once |-> n.once]
IsBuffer(b) == b = [refs |-> b.refs, pins |-> b.pins, once |-> b.once]
IsFile(s) ==
  /\ s = [package |-> s.package, protocol |-> s.protocol, impl |-> s.impl, imports |-> s.imports,
          text |-> s.text]
  /\ IsText(s.text)

Shapes ==
  /\ files = [f \in DOMAIN files |-> files[f]]
  /\ \A f \in DOMAIN files : IsFile(files[f])
  /\ IsNamespace(committed)
  /\ IsState(current) /\ IsNamespace(current.namespace) /\ IsBuffer(current.buffer)

QueueInv ==
  /\ world \in Worlds
  /\ mode \in {"next", "name", "body"}
  /\ postponed \in Seq(Items)
  /\ stage = "objects" => queue \in Seq(Items)
  /\ mode # "next" => queue # <<>>
  /\ mode = "name" => stage = "objects" /\ left \in Seq(ToSet(Head(queue).name))

(* What an attempt has done so far is in its buffer. *)
AttemptInv ==
  mode = "body" =>
    /\ current.file \in DOMAIN files
    /\ shared = None
    /\ DOMAIN current.namespace.pins = DOMAIN committed.pins \cup current.buffer.pins
    /\ \A a \in DOMAIN committed.pins : current.namespace.pins[a] = committed.pins[a]
    /\ \A a \in DOMAIN current.namespace.pins \ DOMAIN committed.pins :
         current.namespace.pins[a].file = current.file
    /\ current.namespace.once = committed.once \cup current.buffer.once
    /\ committed.once \cap current.buffer.once = {}

PinsInv ==
  /\ PinsMatchText
  /\ \A a \in DOMAIN committed.pins : committed.pins[a].file \in DOMAIN files

OnceInv ==
  /\ OnceMatchesText
  /\ UNION {t.buffer.once : t \in Texts} \subseteq committed.once

NoNames == \A i \in Items : i.name = <<>>

ImportsInv ==
  NoNames =>
    /\ ImportsMatchText
    /\ mode = "body" =>
         DOMAIN current.imports = {r.path : r \in Refs(current.file) \cup current.buffer.refs}

NumberedInv ==
  /\ IsNumbered(current.imports)
  /\ \A f \in DOMAIN files : IsNumbered(files[f].imports)

StateInv == Shapes /\ AttemptInv /\ PinsInv /\ OnceInv /\ ImportsInv /\ NumberedInv

Inv == QueueInv /\ StateInv

-----------------------------------------------------------------------------
(* Updates of the current state *)

Extends(old, new) ==
  /\ DOMAIN old \subseteq DOMAIN new
  /\ \A x \in DOMAIN old : new[x] = old[x]

Fields(s, file, package, protocol, impl, imports, namespace, buffer) ==
  /\ IsState(s)
  /\ s.file = file /\ s.package = package /\ s.protocol = protocol /\ s.impl = impl
  /\ s.imports = imports /\ s.namespace = namespace /\ s.buffer = buffer

LEMMA RecordFields ==
  ASSUME NEW file, NEW package, NEW protocol, NEW impl, NEW imports, NEW namespace, NEW buffer,
         NEW t, t = [file |-> file, package |-> package, protocol |-> protocol, impl |-> impl,
                     imports |-> imports, namespace |-> namespace, buffer |-> buffer]
  PROVE  Fields(t, file, package, protocol, impl, imports, namespace, buffer)
BY DEF Fields, IsState

LEMMA ExceptFile ==
  ASSUME NEW s, IsState(s), NEW x, NEW t, t = [s EXCEPT !.file = x]
  PROVE  Fields(t, x, s.package, s.protocol, s.impl, s.imports, s.namespace, s.buffer)
<1>1. t = [file |-> x, package |-> s.package, protocol |-> s.protocol, impl |-> s.impl,
           imports |-> s.imports, namespace |-> s.namespace, buffer |-> s.buffer]
  BY DEF IsState
<1> QED
  BY <1>1, RecordFields

LEMMA ExceptProtocol ==
  ASSUME NEW s, IsState(s), NEW x, NEW t, t = [s EXCEPT !.protocol = x]
  PROVE  Fields(t, s.file, s.package, x, s.impl, s.imports, s.namespace, s.buffer)
<1>1. t = [file |-> s.file, package |-> s.package, protocol |-> x, impl |-> s.impl,
           imports |-> s.imports, namespace |-> s.namespace, buffer |-> s.buffer]
  BY DEF IsState
<1> QED
  BY <1>1, RecordFields

LEMMA ExceptImpl ==
  ASSUME NEW s, IsState(s), NEW x, NEW t, t = [s EXCEPT !.impl = x]
  PROVE  Fields(t, s.file, s.package, s.protocol, x, s.imports, s.namespace, s.buffer)
<1>1. t = [file |-> s.file, package |-> s.package, protocol |-> s.protocol, impl |-> x,
           imports |-> s.imports, namespace |-> s.namespace, buffer |-> s.buffer]
  BY DEF IsState
<1> QED
  BY <1>1, RecordFields

LEMMA ExceptImports ==
  ASSUME NEW s, IsState(s), NEW x, NEW t, t = [s EXCEPT !.imports = x]
  PROVE  Fields(t, s.file, s.package, s.protocol, s.impl, x, s.namespace, s.buffer)
<1>1. t = [file |-> s.file, package |-> s.package, protocol |-> s.protocol, impl |-> s.impl,
           imports |-> x, namespace |-> s.namespace, buffer |-> s.buffer]
  BY DEF IsState
<1> QED
  BY <1>1, RecordFields

LEMMA ExceptNamespace ==
  ASSUME NEW s, IsState(s), NEW x, NEW t, t = [s EXCEPT !.namespace = x]
  PROVE  Fields(t, s.file, s.package, s.protocol, s.impl, s.imports, x, s.buffer)
<1>1. t = [file |-> s.file, package |-> s.package, protocol |-> s.protocol, impl |-> s.impl,
           imports |-> s.imports, namespace |-> x, buffer |-> s.buffer]
  BY DEF IsState
<1> QED
  BY <1>1, RecordFields

LEMMA ExceptBuffer ==
  ASSUME NEW s, IsState(s), NEW x, NEW t, t = [s EXCEPT !.buffer = x]
  PROVE  Fields(t, s.file, s.package, s.protocol, s.impl, s.imports, s.namespace, x)
<1>1. t = [file |-> s.file, package |-> s.package, protocol |-> s.protocol, impl |-> s.impl,
           imports |-> s.imports, namespace |-> s.namespace, buffer |-> x]
  BY DEF IsState
<1> QED
  BY <1>1, RecordFields

LEMMA ExceptNamespaceBuffer ==
  ASSUME NEW s, IsState(s), NEW x, NEW y, NEW t, t = [s EXCEPT !.namespace = x, !.buffer = y]
  PROVE  Fields(t, s.file, s.package, s.protocol, s.impl, s.imports, x, y)
<1>1. PICK u : u = [s EXCEPT !.namespace = x]
  OBVIOUS
<1>2. Fields(u, s.file, s.package, s.protocol, s.impl, s.imports, x, s.buffer)
  BY <1>1, ExceptNamespace
<1>3. t = [u EXCEPT !.buffer = y]
  BY <1>1, Zenon
<1>4. IsState(u)
  BY <1>2 DEF Fields
<1>5. Fields(t, u.file, u.package, u.protocol, u.impl, u.imports, u.namespace, y)
  BY <1>3, <1>4, ExceptBuffer
<1> QED
  BY <1>2, <1>5 DEF Fields

LEMMA ExceptImportsBuffer ==
  ASSUME NEW s, IsState(s), NEW x, NEW y, NEW t, t = [s EXCEPT !.imports = x, !.buffer = y]
  PROVE  Fields(t, s.file, s.package, s.protocol, s.impl, x, s.namespace, y)
<1>1. PICK u : u = [s EXCEPT !.imports = x]
  OBVIOUS
<1>2. Fields(u, s.file, s.package, s.protocol, s.impl, x, s.namespace, s.buffer)
  BY <1>1, ExceptImports
<1>3. t = [u EXCEPT !.buffer = y]
  BY <1>1, Zenon
<1>4. IsState(u)
  BY <1>2 DEF Fields
<1>5. Fields(t, u.file, u.package, u.protocol, u.impl, u.imports, u.namespace, y)
  BY <1>3, <1>4, ExceptBuffer
<1> QED
  BY <1>2, <1>5 DEF Fields

LEMMA ExceptProtocolImpl ==
  ASSUME NEW s, IsState(s), NEW x, NEW y, NEW t, t = [s EXCEPT !.protocol = x, !.impl = y]
  PROVE  Fields(t, s.file, s.package, x, y, s.imports, s.namespace, s.buffer)
<1>1. PICK u : u = [s EXCEPT !.protocol = x]
  OBVIOUS
<1>2. Fields(u, s.file, s.package, x, s.impl, s.imports, s.namespace, s.buffer)
  BY <1>1, ExceptProtocol
<1>3. t = [u EXCEPT !.impl = y]
  BY <1>1, Zenon
<1>4. IsState(u)
  BY <1>2 DEF Fields
<1>5. Fields(t, u.file, u.package, u.protocol, y, u.imports, u.namespace, u.buffer)
  BY <1>3, <1>4, ExceptImpl
<1> QED
  BY <1>2, <1>5 DEF Fields

-----------------------------------------------------------------------------
(* Text *)

LEMMA AppendText ==
  ASSUME NEW s, IsText(s), NEW t
  PROVE  /\ IsText(Append(s, t))
         /\ ToSet(Append(s, t)) = ToSet(s) \cup {t}
         /\ Len(s) \in Nat /\ DOMAIN s = 1 .. Len(s)
         /\ DOMAIN Append(s, t) = 1 .. Len(s) + 1
         /\ \A k \in 1 .. Len(s) : Append(s, t)[k] = s[k]
         /\ Append(s, t)[Len(s) + 1] = t
<1> DEFINE S == ToSet(s) \cup {t}
<1>1. ToSet(s) \subseteq S /\ t \in S
  OBVIOUS
<1>2. s \in Seq(S)
  <2> HIDE DEF S
  <2>1. s \in Seq(ToSet(s))
    BY DEF IsText
  <2> QED BY <2>1, <1>1, SeqMonotonic
<1> HIDE DEF S
<1>3. /\ Append(s, t) \in Seq(S)
      /\ Len(Append(s, t)) = Len(s) + 1
      /\ \A k \in 1 .. Len(s) : Append(s, t)[k] = s[k]
      /\ Append(s, t)[Len(s) + 1] = t
      /\ Len(s) \in Nat /\ DOMAIN s = 1 .. Len(s)
      /\ DOMAIN Append(s, t) = 1 .. Len(s) + 1
  BY <1>1, <1>2
<1>4. ToSet(Append(s, t)) = ToSet(s) \cup {t}
  <2> DEFINE u == Append(s, t)
  <2>1. /\ DOMAIN u = 1 .. Len(s) + 1 /\ u[Len(s) + 1] = t
        /\ \A k \in 1 .. Len(s) : u[k] = s[k]
    BY <1>3
  <2> HIDE DEF u
  <2>2. ToSet(u) = {u[k] : k \in DOMAIN u}
    BY DEF ToSet
  <2>3. ToSet(s) = {s[k] : k \in DOMAIN s}
    BY DEF ToSet
  <2>4. ToSet(u) = ToSet(s) \cup {t}
    BY <1>3, <2>1, <2>2, <2>3
  <2> QED BY <2>4 DEF u
<1>5. IsText(Append(s, t))
  BY <1>3, <1>4 DEF IsText, S
<1> QED
  BY <1>3, <1>4, <1>5

LEMMA EmptyText == IsText(<<>>) /\ ToSet(<<>>) = {} /\ DOMAIN <<>> = {}
<1>1. ToSet(<<>>) = {}
  BY DEF ToSet
<1> QED
  BY <1>1 DEF IsText

(* A step that commits nothing: no text is added or lost, a new file has   *)
(* none.                                                                   *)
TextsKept ==
  /\ committed' = committed
  /\ DOMAIN files \subseteq DOMAIN files'
  /\ \A f \in DOMAIN files : files'[f].text = files[f].text
  /\ \A f \in DOMAIN files' \ DOMAIN files : files'[f].text = <<>>

LEMMA KeptTexts ==
  ASSUME TextsKept
  PROVE  /\ Texts' = Texts
         /\ \A f \in DOMAIN files : TextsOf(f)' = TextsOf(f) /\ Refs(f)' = Refs(f)
         /\ \A f \in DOMAIN files' \ DOMAIN files : TextsOf(f)' = {} /\ Refs(f)' = {}
<1>1. \A f \in DOMAIN files : TextsOf(f)' = TextsOf(f)
  BY DEF TextsKept, TextsOf
<1>2. \A f \in DOMAIN files' \ DOMAIN files : TextsOf(f)' = {}
  BY EmptyText DEF TextsKept, TextsOf
<1>3. Texts' = Texts
  BY <1>1, <1>2 DEF Texts, TextsKept
<1> QED
  BY <1>1, <1>2, <1>3 DEF Refs

LEMMA KeptInv ==
  ASSUME TextsKept, PinsInv, OnceInv
  PROVE  PinsInv' /\ OnceInv'
<1>1. PinsInv'
  BY KeptTexts DEF PinsInv, PinsMatchText, TextsKept
<1>2. OnceInv'
  <2>1. UNION {t.buffer.once : t \in Texts'} \subseteq committed'.once
    BY KeptTexts DEF OnceInv, TextsKept
  <2>2. \A f \in DOMAIN files : DOMAIN files'[f].text = DOMAIN files[f].text
    BY DEF TextsKept
  <2>3. \A f \in DOMAIN files' \ DOMAIN files : DOMAIN files'[f].text = {}
    BY EmptyText DEF TextsKept
  <2>4. OnceMatchesText'
    <3>1. SUFFICES ASSUME NEW x \in committed'.once \cup UNION {t.buffer.once : t \in Texts'}
                   PROVE  \E f \in DOMAIN files' : \E k \in DOMAIN files'[f].text :
                            /\ x \in files'[f].text[k].buffer.once
                            /\ \A g \in DOMAIN files' : \A l \in DOMAIN files'[g].text :
                                 x \in files'[g].text[l].buffer.once => <<g, l>> = <<f, k>>
      BY DEF OnceMatchesText
    <3>2. x \in committed.once \cup UNION {t.buffer.once : t \in Texts}
      BY KeptTexts DEF TextsKept
    <3>3. PICK f \in DOMAIN files : \E k \in DOMAIN files[f].text :
            /\ x \in files[f].text[k].buffer.once
            /\ \A g \in DOMAIN files : \A l \in DOMAIN files[g].text :
                 x \in files[g].text[l].buffer.once => <<g, l>> = <<f, k>>
      BY <3>2 DEF OnceInv, OnceMatchesText
    <3>4. PICK k \in DOMAIN files[f].text :
            /\ x \in files[f].text[k].buffer.once
            /\ \A g \in DOMAIN files : \A l \in DOMAIN files[g].text :
                 x \in files[g].text[l].buffer.once => <<g, l>> = <<f, k>>
      BY <3>3
    <3>5. f \in DOMAIN files' /\ k \in DOMAIN files'[f].text /\ files'[f].text[k] = files[f].text[k]
      BY <2>2, <3>3, <3>4 DEF TextsKept
    <3>6. ASSUME NEW g \in DOMAIN files', NEW l \in DOMAIN files'[g].text,
                 x \in files'[g].text[l].buffer.once
          PROVE  <<g, l>> = <<f, k>>
      <4>1. g \in DOMAIN files
        BY <2>3, <3>6
      <4>2. files'[g].text = files[g].text
        BY <4>1 DEF TextsKept
      <4> QED BY <3>4, <3>6, <4>1, <4>2
    <3> QED BY <3>4, <3>5, <3>6
  <2> QED BY <2>1, <2>4 DEF OnceInv
<1> QED
  BY <1>1, <1>2

-----------------------------------------------------------------------------
(* Steps of the manager *)

LEMMA QuietStep ==
  ASSUME StateInv, UNCHANGED <<world, manager>>, mode' = "body" => mode = "body"
  PROVE  StateInv'
<1>1. UNCHANGED <<world, files, committed, current, shared>>
  BY DEF manager
<1>2. TextsKept
  BY <1>1 DEF TextsKept
<1>3. Shapes'
  BY <1>1 DEF StateInv, Shapes
<1>4. AttemptInv'
  BY <1>1 DEF StateInv, AttemptInv
<1>5. PinsInv' /\ OnceInv'
  BY <1>2, KeptInv DEF StateInv
<1>6. ImportsInv'
  <2>1. ImportsMatchText' = ImportsMatchText
    BY <1>1, <1>2, KeptTexts DEF ImportsMatchText
  <2>2. NoNames' = NoNames
    BY <1>1 DEF NoNames, Items
  <2>3. mode = "body" => Refs(current.file)' = Refs(current.file)
    BY <1>1, <1>2, KeptTexts DEF StateInv, AttemptInv
  <2> QED BY <1>1, <2>1, <2>2, <2>3 DEF StateInv, ImportsInv
<1>7. NumberedInv'
  BY <1>1 DEF StateInv, NumberedInv
<1> QED
  BY <1>3, <1>4, <1>5, <1>6, <1>7 DEF StateInv

LEMMA BeginStep ==
  ASSUME StateInv, UNCHANGED <<world, committed>>, shared' = None,
         NEW file, NEW package, NEW state, state = StateOf(file, package),
         files' = WithFile(file, state), NEW protocol, NEW impl,
         Fields(current', file, state.package, protocol, impl, state.imports, committed, NoText)
  PROVE  StateInv'
<1>1. /\ DOMAIN files' = DOMAIN files \cup {file}
      /\ files' = [f \in DOMAIN files' |-> files'[f]]
      /\ \A f \in DOMAIN files' : files'[f] = IF f = file THEN state ELSE files[f]
  BY DEF WithFile
<1>2. /\ IsFile(state)
      /\ file \in DOMAIN files => state = files[file]
      /\ file \notin DOMAIN files => state.imports = NoImports /\ state.text = <<>>
  BY EmptyText DEF StateOf, StateInv, Shapes, IsFile
<1>3. /\ IsState(current') /\ current'.file = file /\ current'.imports = state.imports
      /\ current'.namespace = committed
      /\ current'.buffer.refs = {} /\ current'.buffer.pins = {} /\ current'.buffer.once = {}
      /\ IsBuffer(current'.buffer)
  <2>1. IsState(current') /\ current'.file = file /\ current'.imports = state.imports
    BY DEF Fields
  <2>2. current'.namespace = committed /\ current'.buffer = NoText
    BY DEF Fields
  <2>3. IsBuffer(NoText) /\ NoText.refs = {} /\ NoText.pins = {} /\ NoText.once = {}
    BY DEF NoText, IsBuffer
  <2> QED BY <2>1, <2>2, <2>3
<1>4. TextsKept
  BY <1>1, <1>2 DEF TextsKept
<1>5. Shapes'
  <2>1. \A f \in DOMAIN files' : IsFile(files'[f])
    BY <1>1, <1>2 DEF StateInv, Shapes
  <2>2. IsNamespace(committed) /\ IsNamespace(current'.namespace)
    BY <1>3 DEF StateInv, Shapes
  <2> QED BY <1>1, <1>3, <2>1, <2>2 DEF Shapes
<1>6. AttemptInv'
  <2>1. current'.file \in DOMAIN files' /\ shared' = None /\ committed' = committed
    BY <1>1, <1>3
  <2> QED BY <1>3, <2>1 DEF AttemptInv
<1>7. PinsInv' /\ OnceInv'
  BY <1>4, KeptInv DEF StateInv
<1>8. ImportsInv'
  <2>1. NoNames' = NoNames
    BY DEF NoNames, Items
  <2>2. SUFFICES ASSUME NoNames
                 PROVE  /\ ImportsMatchText'
                        /\ DOMAIN current'.imports =
                             {r.path : r \in Refs(current.file)' \cup current'.buffer.refs}
    BY <2>1 DEF ImportsInv
  <2>3. ASSUME NEW f \in DOMAIN files'
        PROVE  DOMAIN files'[f].imports = {r.path : r \in Refs(f)'}
    <3>1. CASE f \in DOMAIN files
      <4>1. files'[f].imports = files[f].imports
        BY <1>1, <1>2, <3>1
      <4>2. Refs(f)' = Refs(f)
        BY <1>4, <3>1, KeptTexts
      <4> QED BY <3>1, <4>1, <4>2, <2>2 DEF StateInv, ImportsInv, ImportsMatchText
    <3>2. CASE f \notin DOMAIN files
      <4>1. files'[f].imports = NoImports
        BY <1>1, <1>2, <3>2
      <4>2. Refs(f)' = {}
        BY <1>4, <3>2, KeptTexts
      <4> QED BY <4>1, <4>2 DEF NoImports
    <3> QED BY <3>1, <3>2
  <2>4. current'.imports = files'[file].imports /\ file \in DOMAIN files'
    BY <1>1, <1>3
  <2>5. Refs(current.file)' = Refs(file)'
    BY <1>3 DEF Refs, TextsOf
  <2>6. ImportsMatchText'
    BY <2>3 DEF ImportsMatchText
  <2> QED BY <1>3, <2>3, <2>4, <2>5, <2>6
<1>9. NumberedInv'
  <2>1. IsNumbered(state.imports)
    BY <1>2, NoImportsNumbered DEF StateInv, NumberedInv
  <2> QED BY <1>1, <1>3, <2>1 DEF StateInv, NumberedInv
<1> QED
  BY <1>5, <1>6, <1>7, <1>8, <1>9 DEF StateInv

(* A step of a template that commits nothing and changes no file but the   *)
(* imports of the one that shares them.                                    *)
LEMMA TemplateStep ==
  ASSUME StateInv, UNCHANGED <<world, mode, committed, shared>>, mode = "body" \/ ~NoNames,
         NEW imports, NEW new, NEW buffer, IsNumbered(imports), IsNamespace(new), IsBuffer(buffer),
         Fields(current', current.file, current.package, current.protocol, current.impl,
                imports, new, buffer),
         \/ imports = current.imports /\ files' = files
         \/ files' = IF shared = None THEN files ELSE [files EXCEPT ![shared].imports = imports],
         (* what else is true of the new namespace and buffer in an attempt *)
         mode = "body" =>
           /\ DOMAIN new.pins = DOMAIN committed.pins \cup buffer.pins
           /\ \A a \in DOMAIN committed.pins : new.pins[a] = committed.pins[a]
           /\ \A a \in DOMAIN new.pins \ DOMAIN committed.pins : new.pins[a].file = current.file
           /\ new.once = committed.once \cup buffer.once
           /\ committed.once \cap buffer.once = {}
           /\ DOMAIN current.imports = {r.path : r \in Refs(current.file) \cup current.buffer.refs} =>
                DOMAIN imports = {r.path : r \in Refs(current.file) \cup buffer.refs}
  PROVE  StateInv'
<1>1. /\ IsState(current') /\ current'.file = current.file /\ current'.imports = imports
      /\ current'.namespace = new /\ current'.buffer = buffer
  BY DEF Fields
<1>2. /\ DOMAIN files' = DOMAIN files
      /\ files' = [f \in DOMAIN files' |-> files'[f]]
  BY DEF StateInv, Shapes
<1>3. ASSUME NEW f \in DOMAIN files
      PROVE  /\ IsFile(files'[f])
             /\ files'[f].text = files[f].text
             /\ files'[f].imports = files[f].imports \/ files'[f].imports = imports
  <2>1. files[f] = [package |-> files[f].package, protocol |-> files[f].protocol,
                    impl |-> files[f].impl, imports |-> files[f].imports, text |-> files[f].text]
        /\ IsText(files[f].text)
    BY DEF StateInv, Shapes, IsFile
  <2>2. CASE files' = files
    BY <2>1, <2>2 DEF IsFile
  <2>3. CASE files' = [files EXCEPT ![shared].imports = imports]
    <3>1. CASE f = shared
      <4>1. files'[f] = [files[f] EXCEPT !.imports = imports]
        BY <2>3, <3>1
      <4>2. files'[f] = [package |-> files[f].package, protocol |-> files[f].protocol,
                    impl |-> files[f].impl, imports |-> imports, text |-> files[f].text]
        BY <2>1, <4>1
      <4> QED BY <2>1, <4>2 DEF IsFile
    <3>2. CASE f # shared
      BY <2>1, <2>3, <3>2 DEF IsFile
    <3> QED BY <3>1, <3>2
  <2> QED BY <2>2, <2>3
<1>4. TextsKept
  BY <1>2, <1>3 DEF TextsKept
<1>5. Shapes'
  <2>1. \A f \in DOMAIN files' : IsFile(files'[f])
    BY <1>2, <1>3
  <2> QED BY <1>1, <1>2, <2>1 DEF StateInv, Shapes
<1>6. AttemptInv'
  <2>1. mode = "body" => current'.file \in DOMAIN files' /\ shared' = None
    BY <1>1, <1>2 DEF StateInv, AttemptInv
  <2> QED BY <1>1, <2>1 DEF AttemptInv
<1>7. PinsInv' /\ OnceInv'
  BY <1>4, KeptInv DEF StateInv
<1>8. ImportsInv'
  <2>1. NoNames' = NoNames
    BY DEF NoNames, Items
  <2>2. SUFFICES ASSUME NoNames
                 PROVE  /\ ImportsMatchText'
                        /\ DOMAIN current'.imports =
                             {r.path : r \in Refs(current.file)' \cup current'.buffer.refs}
    BY <2>1 DEF ImportsInv
  <2>3. mode = "body" /\ shared = None /\ files' = files
    BY <2>2 DEF StateInv, AttemptInv
  <2>4. ImportsMatchText'
    BY <1>4, <2>2, <2>3, KeptTexts DEF StateInv, ImportsInv, ImportsMatchText
  <2>5. Refs(current.file)' = Refs(current.file)
    BY <1>1, <2>3 DEF Refs, TextsOf
  <2>6. DOMAIN imports = {r.path : r \in Refs(current.file) \cup buffer.refs}
    BY <2>2, <2>3 DEF StateInv, ImportsInv
  <2> QED BY <1>1, <2>4, <2>5, <2>6
<1>9. NumberedInv'
  BY <1>1, <1>2, <1>3 DEF StateInv, NumberedInv
<1> QED
  BY <1>5, <1>6, <1>7, <1>8, <1>9 DEF StateInv

(* What the template functions and a commit do, field by field. *)
Unmoved(imports) ==
  Fields(current', current.file, current.package, current.protocol, current.impl,
         imports, current'.namespace, current'.buffer)

LEMMA PinEffect ==
  ASSUME Shapes, NEW a, Pin(a)
  PROVE  /\ UNCHANGED <<files, committed, shared>> /\ Unmoved(current.imports)
         /\ IsNamespace(current'.namespace) /\ IsBuffer(current'.buffer)
         /\ Extends(current.namespace.pins, current'.namespace.pins)
         /\ DOMAIN current'.namespace.pins = DOMAIN current.namespace.pins \cup {a}
         /\ a \notin DOMAIN current.namespace.pins =>
              /\ current'.namespace.pins[a].file = current.file
              /\ current'.namespace.pins[a].package = current.package
         /\ current'.namespace.once = current.namespace.once
         /\ current'.buffer.refs = current.buffer.refs
         /\ current'.buffer.once = current.buffer.once
         /\ current'.buffer.pins = current.buffer.pins \cup {a}
<1> DEFINE pins == current.namespace.pins
           here == [file |-> current.file, package |-> current.package]
<1>1. PICK extended :
        extended = [x \in DOMAIN pins \cup {a} |-> IF x \in DOMAIN pins THEN pins[x] ELSE here]
  OBVIOUS
<1>2. /\ DOMAIN extended = DOMAIN pins \cup {a}
      /\ Extends(pins, extended)
      /\ a \notin DOMAIN pins =>
           extended[a].file = current.file /\ extended[a].package = current.package
  BY <1>1 DEF Extends
<1>3. PICK new : new = [current.namespace EXCEPT !.pins = extended]
  OBVIOUS
<1>4. new = [pins |-> extended, once |-> current.namespace.once]
  BY <1>3 DEF Shapes, IsNamespace
<1>5. PICK buffer : buffer = [current.buffer EXCEPT !.pins = @ \cup {a}]
  OBVIOUS
<1>6. buffer = [refs |-> current.buffer.refs, pins |-> current.buffer.pins \cup {a},
                once |-> current.buffer.once]
  BY <1>5 DEF Shapes, IsBuffer
<1>7. UNCHANGED <<files, committed, shared>> /\ IsState(current)
  BY DEF Pin, Shapes
<1>8. current' = [current EXCEPT !.namespace = new, !.buffer = buffer]
  BY <1>1, <1>3, <1>5, Zenon DEF Pin
<1>9. Fields(current', current.file, current.package, current.protocol, current.impl,
             current.imports, new, buffer)
  BY <1>7, <1>8, ExceptNamespaceBuffer
<1>10. /\ new.pins = extended /\ new.once = current.namespace.once
       /\ buffer.refs = current.buffer.refs /\ buffer.once = current.buffer.once
       /\ buffer.pins = current.buffer.pins \cup {a}
       /\ IsNamespace(new) /\ IsBuffer(buffer)
  BY <1>4, <1>6 DEF IsNamespace, IsBuffer
<1>11. current'.namespace = new /\ current'.buffer = buffer
  BY <1>9 DEF Fields
<1> QED
  BY <1>2, <1>7, <1>9, <1>10, <1>11 DEF Unmoved

LEMMA BeginEffect ==
  ASSUME NEW file, NEW package, NEW state, state = StateOf(file, package),
         BeginFile(file, package)
  PROVE  /\ UNCHANGED committed /\ shared' = None /\ files' = WithFile(file, state)
         /\ Fields(current', file, state.package, state.protocol, state.impl, state.imports,
                   committed, NoText)
<1>1. current' = [file |-> file, package |-> state.package, protocol |-> state.protocol,
                  impl |-> state.impl, imports |-> state.imports, namespace |-> committed,
                  buffer |-> NoText]
  BY DEF BeginFile, Loaded
<1>2. Fields(current', file, state.package, state.protocol, state.impl, state.imports,
             committed, NoText)
  BY <1>1, RecordFields
<1> QED
  BY <1>2 DEF BeginFile

LEMMA BeginExtraEffect ==
  ASSUME NEW file, NEW package, NEW protocol, NEW impl,
         NEW state, state = StateOf(file, package),
         BeginExtraFile(file, package, protocol, impl)
  PROVE  /\ UNCHANGED committed /\ shared' = None /\ files' = WithFile(file, state)
         /\ \E mark :
              /\ mark = (state.impl \/ impl)
              /\ Fields(current', file, state.package, protocol, mark, state.imports,
                        committed, NoText)
<1>1. PICK loaded : loaded = Loaded(file, package)
  OBVIOUS
<1>2. loaded = [file |-> file, package |-> state.package, protocol |-> state.protocol,
                impl |-> state.impl, imports |-> state.imports, namespace |-> committed,
                buffer |-> NoText]
  BY <1>1 DEF Loaded
<1>3. Fields(loaded, file, state.package, state.protocol, state.impl, state.imports,
             committed, NoText)
  BY <1>2, RecordFields
<1>4. PICK mark : /\ mark = (loaded.impl \/ impl)
                  /\ current' = [loaded EXCEPT !.protocol = protocol, !.impl = mark]
  BY <1>1, Zenon DEF BeginExtraFile
<1>5. IsState(loaded)
  BY <1>3 DEF Fields
<1>6. Fields(current', loaded.file, loaded.package, protocol, mark, loaded.imports,
             loaded.namespace, loaded.buffer)
  BY <1>4, <1>5, ExceptProtocolImpl
<1>7. Fields(current', file, state.package, protocol, mark, state.imports, committed, NoText)
  BY <1>3, <1>6 DEF Fields
<1>8. loaded.impl = state.impl
  BY <1>3 DEF Fields
<1>9. mark = (state.impl \/ impl)
  BY <1>4, <1>8, Zenon
<1> QED
  BY <1>7, <1>9 DEF BeginExtraFile

LEMMA CommitEffect ==
  ASSUME StateInv, mode = "body", NEW of, Commit(of), NEW file, file = current.file,
         NEW entry, entry = [of |-> of, buffer |-> current.buffer],
         NEW text, text = Append(files[file].text, entry)
  PROVE  /\ file \in DOMAIN files /\ IsText(files[file].text)
         /\ DOMAIN files' = DOMAIN files
         /\ files' = [f \in DOMAIN files' |-> files'[f]]
         /\ \A f \in DOMAIN files : f # file => files'[f] = files[f]
         /\ files'[file].package = files[file].package
         /\ files'[file].protocol = current.protocol
         /\ files'[file].impl = current.impl
         /\ files'[file].imports = current.imports
         /\ files'[file].text = text
         /\ IsFile(files'[file])
         /\ committed' = current.namespace /\ shared' = file
         /\ IsState(current') /\ current'.imports = current.imports
         /\ current'.namespace = current.namespace /\ current'.buffer = current.buffer
         /\ TextsOf(file)' = TextsOf(file) \cup {entry}
         /\ \A f \in DOMAIN files : f # file => TextsOf(f)' = TextsOf(f)
<1>1. file \in DOMAIN files /\ IsFile(files[file]) /\ IsText(files[file].text)
  BY DEF StateInv, AttemptInv, Shapes, IsFile
<1>2. IsText(text) /\ ToSet(text) = ToSet(files[file].text) \cup {entry}
  BY <1>1, AppendText
<1>3. PICK state : state = [files[file] EXCEPT !.protocol = current.protocol, !.impl = current.impl,
                              !.imports = current.imports, !.text = text]
  OBVIOUS
<1>4. files' = [files EXCEPT ![file] = state]
  BY <1>3, Zenon DEF Commit
<1>5. state = [package |-> files[file].package, protocol |-> current.protocol,
               impl |-> current.impl, imports |-> current.imports, text |-> text]
  <2>1. PICK u : u = [files[file] EXCEPT !.protocol = current.protocol]
    OBVIOUS
  <2>2. PICK v : v = [u EXCEPT !.impl = current.impl]
    OBVIOUS
  <2>3. PICK w : w = [v EXCEPT !.imports = current.imports]
    OBVIOUS
  <2>4. state = [w EXCEPT !.text = text]
    BY <1>3, <2>1, <2>2, <2>3, Zenon
  <2>5. u = [package |-> files[file].package, protocol |-> current.protocol,
             impl |-> files[file].impl, imports |-> files[file].imports,
             text |-> files[file].text]
    BY <1>1, <2>1 DEF IsFile
  <2>6. v = [package |-> files[file].package, protocol |-> current.protocol,
             impl |-> current.impl, imports |-> files[file].imports, text |-> files[file].text]
    BY <2>2, <2>5
  <2>7. w = [package |-> files[file].package, protocol |-> current.protocol,
             impl |-> current.impl, imports |-> current.imports, text |-> files[file].text]
    BY <2>3, <2>6
  <2> QED BY <2>4, <2>7
<1>6. /\ state.package = files[file].package /\ state.protocol = current.protocol
      /\ state.imports = current.imports /\ state.text = text
  BY <1>5
<1>7. state.impl = current.impl
  BY <1>5, Zenon
<1>8. IsFile(state)
  BY <1>2, <1>5, <1>6 DEF IsFile
<1>9. /\ DOMAIN files' = DOMAIN files
      /\ files' = [f \in DOMAIN files' |-> files'[f]]
      /\ files'[file] = state
      /\ \A f \in DOMAIN files : f # file => files'[f] = files[f]
  BY <1>1, <1>4 DEF StateInv, Shapes
<1>10. committed' = current.namespace /\ shared' = file
  BY DEF Commit
<1>11. /\ IsState(current') /\ current'.imports = current.imports
       /\ current'.namespace = current.namespace /\ current'.buffer = current.buffer
  <2>1. current' = [current EXCEPT !.file = None] /\ IsState(current)
    BY DEF Commit, StateInv, Shapes
  <2>2. Fields(current', None, current.package, current.protocol, current.impl, current.imports,
               current.namespace, current.buffer)
    BY <2>1, ExceptFile
  <2> QED BY <2>2 DEF Fields
<1>12. /\ TextsOf(file)' = TextsOf(file) \cup {entry}
       /\ \A f \in DOMAIN files : f # file => TextsOf(f)' = TextsOf(f)
  BY <1>2, <1>6, <1>9 DEF TextsOf
<1> QED
  BY <1>1, <1>6, <1>7, <1>8, <1>9, <1>10, <1>11, <1>12

LEMMA PinStep ==
  ASSUME StateInv, UNCHANGED <<world, mode>>, mode = "body", NEW a, Pin(a)
  PROVE  StateInv'
<1>1. Shapes
  BY DEF StateInv
<1>2. /\ UNCHANGED <<files, committed, shared>> /\ Unmoved(current.imports)
      /\ IsNamespace(current'.namespace) /\ IsBuffer(current'.buffer)
      /\ Extends(current.namespace.pins, current'.namespace.pins)
      /\ DOMAIN current'.namespace.pins = DOMAIN current.namespace.pins \cup {a}
      /\ a \notin DOMAIN current.namespace.pins =>
           current'.namespace.pins[a].file = current.file
      /\ current'.namespace.once = current.namespace.once
      /\ current'.buffer.refs = current.buffer.refs
      /\ current'.buffer.once = current.buffer.once
      /\ current'.buffer.pins = current.buffer.pins \cup {a}
  BY <1>1, PinEffect
<1>3. PICK new, buffer : new = current'.namespace /\ buffer = current'.buffer
  OBVIOUS
<1>4. Fields(current', current.file, current.package, current.protocol, current.impl,
             current.imports, new, buffer)
  BY <1>2, <1>3 DEF Unmoved
<1>5. /\ DOMAIN new.pins = DOMAIN committed.pins \cup buffer.pins
      /\ \A x \in DOMAIN committed.pins : new.pins[x] = committed.pins[x]
      /\ \A x \in DOMAIN new.pins \ DOMAIN committed.pins : new.pins[x].file = current.file
      /\ new.once = committed.once \cup buffer.once
      /\ committed.once \cap buffer.once = {}
  BY <1>2, <1>3 DEF StateInv, AttemptInv, Extends
<1>6. IsNumbered(current.imports)
  BY DEF StateInv, NumberedInv
<1> QED
  BY <1>2, <1>3, <1>4, <1>5, <1>6, TemplateStep

LEMMA OnceEffect ==
  ASSUME Shapes, NEW x, Once(x)
  PROVE  /\ UNCHANGED <<files, committed, shared>> /\ Unmoved(current.imports)
         /\ IsNamespace(current'.namespace) /\ IsBuffer(current'.buffer)
         /\ current'.namespace.pins = current.namespace.pins
         /\ current'.namespace.once = current.namespace.once \cup {x}
         /\ current'.buffer.refs = current.buffer.refs
         /\ current'.buffer.pins = current.buffer.pins
         /\ current'.buffer.once =
              IF IsFirst(x) THEN current.buffer.once \cup {x} ELSE current.buffer.once
<1>1. PICK first : first = IF IsFirst(x) THEN current.buffer.once \cup {x} ELSE current.buffer.once
  OBVIOUS
<1>2. PICK new : new = [current.namespace EXCEPT !.once = @ \cup {x}]
  OBVIOUS
<1>3. new = [pins |-> current.namespace.pins, once |-> current.namespace.once \cup {x}]
  BY <1>2 DEF Shapes, IsNamespace
<1>4. PICK buffer : buffer = [current.buffer EXCEPT !.once = first]
  OBVIOUS
<1>5. buffer = [refs |-> current.buffer.refs, pins |-> current.buffer.pins, once |-> first]
  BY <1>4 DEF Shapes, IsBuffer
<1>6. UNCHANGED <<files, committed, shared>> /\ IsState(current)
  BY DEF Once, Shapes
<1>7. current' = [current EXCEPT !.namespace = new, !.buffer = buffer]
  BY <1>1, <1>2, <1>4, Zenon DEF Once
<1>8. Fields(current', current.file, current.package, current.protocol, current.impl,
             current.imports, new, buffer)
  BY <1>6, <1>7, ExceptNamespaceBuffer
<1>9. /\ new.pins = current.namespace.pins /\ new.once = current.namespace.once \cup {x}
      /\ buffer.refs = current.buffer.refs /\ buffer.pins = current.buffer.pins
      /\ buffer.once = first
      /\ IsNamespace(new) /\ IsBuffer(buffer)
  BY <1>3, <1>5 DEF IsNamespace, IsBuffer
<1>10. current'.namespace = new /\ current'.buffer = buffer
  BY <1>8 DEF Fields
<1> QED
  BY <1>1, <1>6, <1>8, <1>9, <1>10 DEF Unmoved

LEMMA OnceStep ==
  ASSUME StateInv, UNCHANGED <<world, mode>>, mode = "body", NEW x, Once(x)
  PROVE  StateInv'
<1>1. Shapes
  BY DEF StateInv
<1>2. /\ UNCHANGED <<files, committed, shared>> /\ Unmoved(current.imports)
      /\ IsNamespace(current'.namespace) /\ IsBuffer(current'.buffer)
      /\ current'.namespace.pins = current.namespace.pins
      /\ current'.namespace.once = current.namespace.once \cup {x}
      /\ current'.buffer.refs = current.buffer.refs
      /\ current'.buffer.pins = current.buffer.pins
      /\ current'.buffer.once =
           IF IsFirst(x) THEN current.buffer.once \cup {x} ELSE current.buffer.once
  BY <1>1, OnceEffect
<1>3. PICK new, buffer : new = current'.namespace /\ buffer = current'.buffer
  OBVIOUS
<1>4. Fields(current', current.file, current.package, current.protocol, current.impl,
             current.imports, new, buffer)
  BY <1>2, <1>3 DEF Unmoved
<1>5. /\ current.namespace.once = committed.once \cup current.buffer.once
      /\ committed.once \cap current.buffer.once = {}
  BY DEF StateInv, AttemptInv
<1>6. new.once = committed.once \cup buffer.once /\ committed.once \cap buffer.once = {}
  BY <1>2, <1>3, <1>5 DEF IsFirst
<1>7. /\ DOMAIN new.pins = DOMAIN committed.pins \cup buffer.pins
      /\ \A a \in DOMAIN committed.pins : new.pins[a] = committed.pins[a]
      /\ \A a \in DOMAIN new.pins \ DOMAIN committed.pins : new.pins[a].file = current.file
  BY <1>2, <1>3 DEF StateInv, AttemptInv
<1>8. IsNumbered(current.imports)
  BY DEF StateInv, NumberedInv
<1> QED
  BY <1>2, <1>3, <1>4, <1>6, <1>7, <1>8, TemplateStep

LEMMA ImportEffect ==
  ASSUME Shapes, NEW call, NEW path, NEW name, Import(call, path, name)
  PROVE  /\ UNCHANGED <<committed, shared>>
         /\ Unmoved(AddImport(current.imports, path, name))
         /\ IsBuffer(current'.buffer)
         /\ current'.namespace = current.namespace
         /\ current'.buffer.pins = current.buffer.pins
         /\ current'.buffer.once = current.buffer.once
         /\ current'.buffer.refs = current.buffer.refs \cup
              {[call |-> call, path |-> path, name |-> Imported(current.imports, path, name)]}
         /\ files' = IF shared = None THEN files
                     ELSE [files EXCEPT ![shared].imports = AddImport(current.imports, path, name)]
<1>1. PICK imports : imports = AddImport(current.imports, path, name)
  OBVIOUS
<1>2. PICK ref : ref = [call |-> call, path |-> path,
                        name |-> Imported(current.imports, path, name)]
  OBVIOUS
<1>3. PICK buffer : buffer = [current.buffer EXCEPT !.refs = @ \cup {ref}]
  OBVIOUS
<1>4. buffer = [refs |-> current.buffer.refs \cup {ref}, pins |-> current.buffer.pins,
                once |-> current.buffer.once]
  BY <1>3 DEF Shapes, IsBuffer
<1>5. UNCHANGED <<committed, shared>> /\ IsState(current)
  BY DEF Import, Shapes
<1>6. current' = [current EXCEPT !.imports = imports, !.buffer = buffer]
  BY <1>1, <1>2, <1>3, Zenon DEF Import
<1>7. files' = IF shared = None THEN files ELSE [files EXCEPT ![shared].imports = imports]
  BY <1>1, Zenon DEF Import
<1>8. Fields(current', current.file, current.package, current.protocol, current.impl,
             imports, current.namespace, buffer)
  BY <1>5, <1>6, ExceptImportsBuffer
<1>9. /\ buffer.refs = current.buffer.refs \cup {ref} /\ buffer.pins = current.buffer.pins
      /\ buffer.once = current.buffer.once /\ IsBuffer(buffer)
  BY <1>4 DEF IsBuffer
<1>10. current'.namespace = current.namespace /\ current'.buffer = buffer
  BY <1>8 DEF Fields
<1>11. Unmoved(imports)
  BY <1>8, <1>10 DEF Unmoved
<1> QED
  BY <1>1, <1>2, <1>5, <1>7, <1>9, <1>10, <1>11

(* Imports of a file name expression go to the current file as well as to  *)
(* the one committed last.                                                 *)
LEMMA ImportStep ==
  ASSUME StateInv, UNCHANGED <<world, mode>>, mode = "body" \/ ~NoNames,
         NEW call, NEW path, NEW name, Import(call, path, name)
  PROVE  StateInv'
<1>1. Shapes /\ IsNamespace(current.namespace)
  BY DEF StateInv, Shapes
<1>2. PICK imports : imports = AddImport(current.imports, path, name)
  OBVIOUS
<1>3. PICK ref : ref = [call |-> call, path |-> path,
                        name |-> Imported(current.imports, path, name)]
  OBVIOUS
<1>4. PICK buffer : buffer = current'.buffer
  OBVIOUS
<1>5. /\ UNCHANGED <<committed, shared>> /\ Unmoved(imports)
      /\ IsBuffer(buffer) /\ current'.namespace = current.namespace
      /\ buffer.pins = current.buffer.pins /\ buffer.once = current.buffer.once
      /\ buffer.refs = current.buffer.refs \cup {ref}
      /\ files' = IF shared = None THEN files ELSE [files EXCEPT ![shared].imports = imports]
  BY <1>1, <1>2, <1>3, <1>4, ImportEffect
<1>6. Fields(current', current.file, current.package, current.protocol, current.impl,
             imports, current.namespace, buffer)
  BY <1>4, <1>5 DEF Unmoved
<1>7. IsNumbered(imports)
  BY <1>2, AddImportNumbered DEF StateInv, NumberedInv
<1>8. DOMAIN imports = DOMAIN current.imports \cup {path}
  BY <1>2 DEF AddImport
<1>9. DOMAIN current.imports = {r.path : r \in Refs(current.file) \cup current.buffer.refs} =>
         DOMAIN imports = {r.path : r \in Refs(current.file) \cup buffer.refs}
  <2>1. ref.path = path
    BY <1>3
  <2> QED BY <1>5, <1>8, <2>1
<1>10. mode = "body" =>
         /\ DOMAIN current.namespace.pins = DOMAIN committed.pins \cup buffer.pins
         /\ \A a \in DOMAIN committed.pins : current.namespace.pins[a] = committed.pins[a]
         /\ \A a \in DOMAIN current.namespace.pins \ DOMAIN committed.pins :
              current.namespace.pins[a].file = current.file
         /\ current.namespace.once = committed.once \cup buffer.once
         /\ committed.once \cap buffer.once = {}
  BY <1>5 DEF StateInv, AttemptInv
<1> QED
  BY <1>1, <1>5, <1>6, <1>7, <1>9, <1>10, TemplateStep

LEMMA CommitStep ==
  ASSUME StateInv, UNCHANGED world, mode = "body", mode' # "body", NEW of, Commit(of)
  PROVE  StateInv'
<1>1. PICK file : file = current.file
  OBVIOUS
<1>2. PICK entry : entry = [of |-> of, buffer |-> current.buffer]
  OBVIOUS
<1>3. entry.buffer = current.buffer
  BY <1>2
<1>4. PICK text : text = Append(files[file].text, entry)
  OBVIOUS
<1>5. /\ file \in DOMAIN files /\ IsText(files[file].text)
      /\ committed' = current.namespace
      /\ IsState(current') /\ current'.imports = current.imports
      /\ current'.namespace = current.namespace /\ current'.buffer = current.buffer
  BY <1>1, <1>2, <1>4, CommitEffect
<1>6. /\ Len(files[file].text) \in Nat
      /\ DOMAIN files[file].text = 1 .. Len(files[file].text)
      /\ DOMAIN text = 1 .. Len(files[file].text) + 1
      /\ \A k \in DOMAIN files[file].text : text[k] = files[file].text[k]
      /\ text[Len(files[file].text) + 1] = entry
  BY <1>4, <1>5, AppendText
<1>7. PICK state : state = files'[file]
  OBVIOUS
<1>8. state.imports = current.imports /\ state.text = text /\ IsFile(state)
  <2>1. files'[file].imports = current.imports /\ files'[file].text = text /\ IsFile(files'[file])
    BY <1>1, <1>2, <1>4, CommitEffect
  <2> QED BY <1>7, <2>1
<1>9. /\ DOMAIN files' = DOMAIN files
       /\ files' = [f \in DOMAIN files' |-> files'[f]]
       /\ files'[file] = state
       /\ \A f \in DOMAIN files : f # file => files'[f] = files[f]
  BY <1>1, <1>2, <1>4, <1>7, CommitEffect
<1>10. /\ TextsOf(file)' = TextsOf(file) \cup {entry}
       /\ \A f \in DOMAIN files : f # file => TextsOf(f)' = TextsOf(f)
  BY <1>1, <1>2, <1>4, CommitEffect
<1>11. Texts' = Texts \cup {entry}
  <2>1. Texts' = UNION {TextsOf(f)' : f \in DOMAIN files}
    BY <1>9 DEF Texts
  <2> QED BY <1>5, <1>10, <2>1 DEF Texts
<1>12. /\ DOMAIN committed'.pins = DOMAIN committed.pins \cup current.buffer.pins
       /\ \A a \in DOMAIN committed.pins : committed'.pins[a] = committed.pins[a]
       /\ \A a \in DOMAIN committed'.pins \ DOMAIN committed.pins : committed'.pins[a].file = file
       /\ committed'.once = committed.once \cup current.buffer.once
       /\ committed.once \cap current.buffer.once = {}
  BY <1>1, <1>5 DEF StateInv, AttemptInv
<1>13. Shapes'
  <2>1. \A f \in DOMAIN files' : IsFile(files'[f])
    BY <1>8, <1>9 DEF StateInv, Shapes
  <2> QED BY <1>5, <1>9, <2>1 DEF StateInv, Shapes
<1>14. AttemptInv'
  BY DEF AttemptInv
<1>15. PinsInv'
  <2>1. DOMAIN committed'.pins = UNION {t.buffer.pins : t \in Texts'}
    BY <1>3, <1>11, <1>12 DEF StateInv, PinsInv, PinsMatchText
  <2>2. ASSUME NEW a \in DOMAIN committed'.pins
        PROVE  \E f \in DOMAIN files' :
                 /\ committed'.pins[a].file = f
                 /\ \E t \in TextsOf(f)' : a \in t.buffer.pins
    <3>1. CASE a \in DOMAIN committed.pins
      <4>1. committed'.pins[a].file = committed.pins[a].file
        BY <1>12, <3>1
      <4>2. PICK f \in DOMAIN files :
              f = committed.pins[a].file /\ \E t \in TextsOf(f) : a \in t.buffer.pins
        BY <3>1 DEF StateInv, PinsInv, PinsMatchText
      <4>3. TextsOf(f) \subseteq TextsOf(f)'
        BY <1>10, <4>2
      <4> QED BY <1>9, <4>1, <4>2, <4>3
    <3>2. CASE a \notin DOMAIN committed.pins
      <4>1. committed'.pins[a].file = file /\ a \in entry.buffer.pins
        BY <1>3, <1>12, <3>2
      <4> QED BY <1>5, <1>9, <1>10, <4>1
    <3> QED BY <3>1, <3>2
  <2>3. ASSUME NEW a \in DOMAIN committed'.pins
        PROVE  /\ committed'.pins[a].file \in DOMAIN files'
               /\ \E t \in ToSet(files'[committed'.pins[a].file].text) : a \in t.buffer.pins
    BY <2>2, <2>3 DEF TextsOf
  <2> QED BY <2>1, <2>3 DEF PinsInv, PinsMatchText, TextsOf
<1>16. OnceInv'
  <2>1. UNION {t.buffer.once : t \in Texts'} \subseteq committed'.once
    BY <1>3, <1>11, <1>12 DEF StateInv, OnceInv
  <2>2. ASSUME NEW x \in committed'.once
        PROVE  \E f \in DOMAIN files' : \E k \in DOMAIN files'[f].text :
                 /\ x \in files'[f].text[k].buffer.once
                 /\ \A g \in DOMAIN files' : \A l \in DOMAIN files'[g].text :
                      x \in files'[g].text[l].buffer.once => <<g, l>> = <<f, k>>
    <3>1. CASE x \in committed.once
      <4>1. PICK f \in DOMAIN files : \E k \in DOMAIN files[f].text :
              /\ x \in files[f].text[k].buffer.once
              /\ \A g \in DOMAIN files : \A l \in DOMAIN files[g].text :
                   x \in files[g].text[l].buffer.once => <<g, l>> = <<f, k>>
        BY <3>1 DEF StateInv, OnceInv, OnceMatchesText
      <4>2. PICK k \in DOMAIN files[f].text :
              /\ x \in files[f].text[k].buffer.once
              /\ \A g \in DOMAIN files : \A l \in DOMAIN files[g].text :
                   x \in files[g].text[l].buffer.once => <<g, l>> = <<f, k>>
        BY <4>1
      <4>3. /\ f \in DOMAIN files' /\ k \in DOMAIN files'[f].text
            /\ x \in files'[f].text[k].buffer.once
        BY <1>6, <1>8, <1>9, <4>1, <4>2
      <4>4. ASSUME NEW g \in DOMAIN files', NEW l \in DOMAIN files'[g].text,
                   x \in files'[g].text[l].buffer.once
            PROVE  <<g, l>> = <<f, k>>
        <5>1. x \notin entry.buffer.once
          BY <1>3, <1>12, <3>1
        <5>2. g \in DOMAIN files
          BY <1>9
        <5>3. CASE g # file
          BY <1>9, <4>2, <4>4, <5>2, <5>3
        <5>4. CASE g = file
          <6>1. files'[g].text = text
            BY <1>8, <1>9, <5>4
          <6>2. l # Len(files[file].text) + 1
            BY <1>6, <4>4, <5>1, <6>1
          <6>3. l \in DOMAIN files[file].text
            BY <1>6, <6>1, <6>2
          <6> QED BY <1>6, <4>2, <4>4, <5>2, <5>4, <6>1, <6>3
        <5> QED BY <5>3, <5>4
      <4> QED BY <4>3, <4>4
    <3>2. CASE x \notin committed.once
      <4>1. PICK k : k = Len(files[file].text) + 1
        OBVIOUS
      <4>2. k \in DOMAIN files'[file].text /\ x \in files'[file].text[k].buffer.once
        BY <1>3, <1>6, <1>8, <1>9, <1>12, <3>2, <4>1
      <4>3. ASSUME NEW g \in DOMAIN files', NEW l \in DOMAIN files'[g].text,
                   x \in files'[g].text[l].buffer.once
            PROVE  <<g, l>> = <<file, k>>
        <5>1. ASSUME NEW h \in DOMAIN files, NEW m \in DOMAIN files[h].text
              PROVE  x \notin files[h].text[m].buffer.once
          <6>1. files[h].text[m] \in Texts
            BY DEF Texts, TextsOf, ToSet
          <6> QED BY <3>2, <6>1 DEF StateInv, OnceInv
        <5>2. g = file
          BY <1>9, <4>3, <5>1
        <5>3. l = k
          BY <1>5, <1>6, <1>8, <1>9, <4>1, <4>3, <5>1, <5>2
        <5> QED BY <5>2, <5>3
      <4> QED BY <1>5, <1>9, <4>2, <4>3
    <3> QED BY <3>1, <3>2
  <2> QED BY <2>1, <2>2 DEF OnceInv, OnceMatchesText
<1>17. ImportsInv'
  <2>1. NoNames' = NoNames
    BY DEF NoNames, Items
  <2>2. SUFFICES ASSUME NoNames, NEW f \in DOMAIN files'
                 PROVE  DOMAIN files'[f].imports = {r.path : r \in Refs(f)'}
    BY <2>1 DEF ImportsInv, ImportsMatchText
  <2>3. CASE f = file
    <3>1. Refs(f)' = Refs(f) \cup current.buffer.refs
      BY <1>3, <1>10, <2>3 DEF Refs
    <3>2. files'[f].imports = current.imports
      BY <1>8, <1>9, <2>3
    <3>3. DOMAIN current.imports = {r.path : r \in Refs(file) \cup current.buffer.refs}
      BY <1>1, <2>2 DEF StateInv, ImportsInv
    <3> QED BY <2>3, <3>1, <3>2, <3>3
  <2>4. CASE f # file
    <3>1. Refs(f)' = Refs(f)
      BY <1>9, <1>10, <2>4 DEF Refs
    <3>2. files'[f].imports = files[f].imports /\ f \in DOMAIN files
      BY <1>9, <2>4
    <3> QED BY <2>2, <3>1, <3>2 DEF StateInv, ImportsInv, ImportsMatchText
  <2> QED BY <2>3, <2>4
<1>18. NumberedInv'
  BY <1>5, <1>8, <1>9 DEF StateInv, NumberedInv
<1> QED
  BY <1>13, <1>14, <1>15, <1>16, <1>17, <1>18 DEF StateInv

-----------------------------------------------------------------------------
(* Steps of the stages *)

LEMMA InitInv == Init => Inv
<1> SUFFICES ASSUME Init
             PROVE  Inv
  OBVIOUS
<1>1. /\ files = [f \in {} |-> None] /\ DOMAIN files = {}
      /\ committed = [pins |-> [a \in {} |-> None], once |-> {}]
      /\ current = [file |-> None, package |-> None, protocol |-> None, impl |-> FALSE,
                    imports |-> NoImports, namespace |-> committed, buffer |-> NoText]
  BY DEF Init, InitManager
<1>2. DOMAIN committed.pins = {} /\ committed.once = {} /\ IsNamespace(committed)
  BY <1>1 DEF IsNamespace
<1>3. Fields(current, None, None, None, FALSE, NoImports, committed, NoText)
  BY <1>1, RecordFields
<1>4. IsState(current) /\ current.imports = NoImports /\ current.namespace = committed
      /\ current.buffer = NoText
  BY <1>3 DEF Fields
<1>5. IsBuffer(NoText)
  BY DEF NoText, IsBuffer
<1>6. Texts = {}
  BY <1>1 DEF Texts
<1>7. Shapes
  BY <1>1, <1>2, <1>4, <1>5 DEF Shapes
<1>8. mode = "next"
  BY DEF Init
<1>9. AttemptInv
  BY <1>8 DEF AttemptInv
<1>10. PinsInv
  BY <1>2, <1>6 DEF PinsInv, PinsMatchText
<1>11. OnceInv
  BY <1>2, <1>6 DEF OnceInv, OnceMatchesText
<1>12. ImportsInv
  BY <1>1, <1>8 DEF ImportsInv, ImportsMatchText
<1>13. NumberedInv
  BY <1>1, <1>4, NoImportsNumbered DEF NumberedInv
<1>14. QueueInv
  BY DEF Init, QueueInv
<1> QED
  BY <1>7, <1>9, <1>10, <1>11, <1>12, <1>13, <1>14 DEF Inv, StateInv

LEMMA BeginFileStep ==
  ASSUME StateInv, UNCHANGED world, NEW file, NEW package, BeginFile(file, package)
  PROVE  StateInv'
<1>1. PICK state : state = StateOf(file, package)
  OBVIOUS
<1> QED
  BY <1>1, BeginEffect, BeginStep

LEMMA BeginExtraFileStep ==
  ASSUME StateInv, UNCHANGED world, NEW file, NEW package, NEW protocol, NEW impl,
         BeginExtraFile(file, package, protocol, impl)
  PROVE  StateInv'
<1>1. PICK state : state = StateOf(file, package)
  OBVIOUS
<1> QED
  BY <1>1, BeginExtraEffect, BeginStep

LEMMA ImportDirStep ==
  ASSUME StateInv, UNCHANGED <<world, mode>>, mode = "body" \/ ~NoNames,
         NEW call, NEW dir, NEW name, ImportDir(call, dir, name)
  PROVE  StateInv'
<1>1. CASE dir = CurrentDir
  BY <1>1, QuietStep DEF ImportDir
<1>2. CASE dir # CurrentDir
  BY <1>2, ImportStep DEF ImportDir
<1> QED
  BY <1>1, <1>2

LEMMA CallStep ==
  ASSUME StateInv, UNCHANGED <<world, mode>>, NEW call, Call(call),
         mode = "body" \/ (~NoNames /\ call.do \notin {"pin", "once"})
  PROVE  StateInv'
<1>1. CASE call.do = "pin" /\ Pin(call.of)
  BY <1>1, PinStep
<1>2. CASE Use(call)
  BY <1>2, ImportDirStep DEF Use
<1>3. ASSUME NEW impl, UseExtra(call, impl)
      PROVE  StateInv'
  <2>1. PICK f \in ExtraFiles(call.of, impl) : ImportDir(call, f.dir, files[f].package)
    BY <1>3 DEF UseExtra
  <2> QED BY <2>1, ImportDirStep
<1>4. CASE UseExternal(call)
  BY <1>4, ImportStep DEF UseExternal
<1>5. CASE call.do = "once" /\ Once(call.of)
  BY <1>5, OnceStep
<1>6. CASE UNCHANGED manager
  BY <1>6, QuietStep
<1> QED
  BY <1>1, <1>2, <1>3, <1>4, <1>5, <1>6 DEF Call

(* What a file name expression does. *)
LEMMA NameCalls ==
  ASSUME QueueInv, mode = "name"
  PROVE  /\ Head(queue) \in Items
         /\ left # <<>> => /\ ~NoNames
                           /\ Head(left).do \notin {"pin", "once"}
                           /\ Rest(left) \in Seq(ToSet(Head(queue).name))
<1>1. queue \in Seq(Items) /\ queue # <<>> /\ Head(queue) \in Items
  BY DEF QueueInv
<1> DEFINE S == ToSet(Head(queue).name)
<1>2. left \in Seq(S)
  BY DEF QueueInv
<1> HIDE DEF S
<1>3. ASSUME left # <<>>
      PROVE  Head(left) \in S /\ Rest(left) \in Seq(S)
  <2>1. Head(left) \in S /\ Tail(left) \in Seq(S) /\ Len(Tail(left)) = Len(left) - 1
    BY <1>2, <1>3
  <2>2. Len(left) > 1 => Tail(left) # <<>>
    <3>1. Len(left) \in Nat /\ Len(<<>>) = 0
      BY <1>2
    <3> QED BY <2>1, <3>1
  <2>3. Len(left) > 1 => Tail(Tail(left)) \in Seq(S)
    BY <2>1, <2>2
  <2> QED BY <2>1, <2>3 DEF Rest
<1>4. left # <<>> => Head(queue).name # <<>>
  BY <1>3, EmptyText DEF S
<1>5. \A call \in S : call.do \notin {"pin", "once"}
  BY <1>1, RenderingAssumption DEF S, Items, QueueInv
<1> QED
  BY <1>1, <1>3, <1>4, <1>5 DEF S, NoNames

LEMMA NextInv ==
  ASSUME Inv, [Next]_vars
  PROVE  Inv'
<1> USE DEF Inv
<1>1. ASSUME UNCHANGED <<world, manager, postponed, mode>>, mode = "next",
             stage' = "objects" => queue' \in Seq(Items)
      PROVE  Inv'
  <2>1. StateInv'
    BY <1>1, QuietStep
  <2>2. Items' = Items
    BY <1>1 DEF Items
  <2> QED BY <1>1, <2>1, <2>2 DEF QueueInv
<1>2. CASE NextProtocol
  BY <1>1, <1>2 DEF NextProtocol, Idle
<1>3. CASE StartImplementations \/ Finish \/ NotPinned
  BY <1>1, <1>3 DEF StartImplementations, Finish, NotPinned, Idle, work
<1>4. CASE StartClient
  BY <1>1, <1>4 DEF StartClient, Idle
<1>5. CASE StartObjects
  <2>1. world.queue \in Seq(Items)
    BY RenderingAssumption DEF QueueInv, Items, AreTasks
  <2> QED BY <1>1, <1>5, <2>1 DEF StartObjects, Idle
<1>6. CASE NextPass
  <2>1. StateInv'
    BY <1>6, QuietStep DEF NextPass, Idle
  <2>2. Items' = Items
    BY <1>6 DEF Items, NextPass
  <2> QED BY <1>6, <2>1, <2>2 DEF QueueInv, NextPass, Idle
<1>7. CASE BeginTemplate
  <2>1. UNCHANGED <<world, stage, queue, postponed>> /\ mode' = "body" /\ queue # <<>>
    BY <1>7 DEF BeginTemplate
  <2>2. StateInv'
    <3>1. PICK t : t = Head(queue)
      OBVIOUS
    <3>2. CASE BeginExtraFile(t.file, t.package, t.of.protocol, t.of.impl)
      BY <2>1, <3>2, BeginExtraFileStep
    <3>3. CASE BeginFile(t.file, t.package)
      BY <2>1, <3>3, BeginFileStep
    <3> QED BY <1>7, <3>1, <3>2, <3>3 DEF BeginTemplate
  <2>3. Items' = Items
    BY <2>1 DEF Items
  <2> QED BY <2>1, <2>2, <2>3 DEF QueueInv
<1>8. CASE Fail
  <2>1. StateInv'
    BY <1>8, QuietStep DEF Fail, work
  <2>2. UNCHANGED <<world, postponed, queue, mode, left>> /\ stage' = "failed" /\ mode = "body"
        /\ Items' = Items
    BY <1>8 DEF Fail, work, Items
  <2> QED BY <2>1, <2>2 DEF QueueInv
<1>9. CASE BeginName
  <2>1. UNCHANGED <<world, stage, queue, postponed, manager>> /\ Items' = Items
        /\ mode' = "name" /\ stage = "objects" /\ queue # <<>> /\ left' = Head(queue).name
    BY <1>9 DEF BeginName, Items
  <2>2. StateInv'
    BY <2>1, QuietStep
  <2>3. Head(queue) \in Items
    BY <2>1 DEF QueueInv
  <2>4. Head(queue).name \in Seq(ToSet(Head(queue).name))
    BY <2>3, RenderingAssumption DEF QueueInv, Items, IsScript
  <2> QED BY <2>1, <2>2, <2>4 DEF QueueInv
<1>10. CASE BeginBody
  <2>1. UNCHANGED <<world, stage, queue, postponed>> /\ mode = "name" /\ mode' = "body"
        /\ Items' = Items
    BY <1>10 DEF BeginBody, Items
  <2>2. StateInv'
    BY <1>10, <2>1, BeginFileStep DEF BeginBody
  <2> QED BY <2>1, <2>2 DEF QueueInv
<1>11. CASE Execute
  <2>1. UNCHANGED <<world, stage, queue, postponed, mode>> /\ Items' = Items
        /\ mode # "next" /\ left # <<>> /\ left' = Rest(left) /\ Call(Head(left))
    BY <1>11 DEF Execute, Items
  <2>2. CASE mode = "body"
    <3>1. StateInv'
      BY <2>1, <2>2, CallStep
    <3> QED BY <2>1, <2>2, <3>1 DEF QueueInv
  <2>3. CASE mode = "name"
    <3>1. ~NoNames /\ Head(left).do \notin {"pin", "once"}
          /\ Rest(left) \in Seq(ToSet(Head(queue).name))
      BY <2>1, <2>3, NameCalls
    <3>2. StateInv'
      BY <2>1, <3>1, CallStep
    <3> QED BY <2>1, <2>3, <3>1, <3>2 DEF QueueInv
  <2> QED BY <2>1, <2>2, <2>3 DEF QueueInv
<1>12. CASE CommitFile
  <2>1. UNCHANGED <<world, stage, postponed>> /\ mode = "body" /\ mode' = "next"
        /\ queue' = Tail(queue) /\ Items' = Items
    BY <1>12 DEF CommitFile, Items
  <2>2. StateInv'
    BY <1>12, <2>1, CommitStep DEF CommitFile
  <2>3. stage = "objects" => queue' \in Seq(Items)
    BY <2>1 DEF QueueInv
  <2> QED BY <2>1, <2>2, <2>3 DEF QueueInv
<1>13. CASE Postpone
  <2>1. UNCHANGED <<world, stage, manager>> /\ stage = "objects" /\ mode # "next"
        /\ mode' = "next" /\ queue' = Tail(queue)
        /\ postponed' = Append(postponed, Head(queue)) /\ Items' = Items
    BY <1>13 DEF Postpone, Items
  <2>2. StateInv'
    BY <2>1, QuietStep
  <2>3. queue \in Seq(Items) /\ queue # <<>>
    BY <2>1 DEF QueueInv
  <2>4. queue' \in Seq(Items) /\ postponed' \in Seq(Items)
    BY <2>1, <2>3 DEF QueueInv
  <2> QED BY <2>1, <2>2, <2>4 DEF QueueInv
<1>14. CASE UNCHANGED vars
  <2>1. UNCHANGED <<world, stage, postponed, queue, mode, left, manager>> /\ Items' = Items
    BY <1>14 DEF vars, work, Items
  <2>2. StateInv'
    BY <2>1, QuietStep
  <2> QED BY <2>1, <2>2 DEF QueueInv
<1> QED
  BY <1>2, <1>3, <1>4, <1>5, <1>6, <1>7, <1>8, <1>9, <1>10, <1>11, <1>12, <1>13, <1>14 DEF Next

(* Whatever the templates do and however often objects are postponed, the  *)
(* files and the namespace are those of the attempts that were committed,  *)
(* renderObjectInlineTemplate and TemplateRenderManager.                   *)
THEOREM Consistency == Spec => []FilesAreConsistent
<1>1. Inv => FilesAreConsistent
  BY DEF Inv, StateInv, PinsInv, OnceInv, ImportsInv, FilesAreConsistent, NoNames
<1> QED
  BY <1>1, InitInv, NextInv, PTL DEF Spec

-----------------------------------------------------------------------------
(* The names in the text: where a reference goes and what it is called, by *)
(* the pins and imports it was written with.                               *)
Aims(r, pins) ==
  CASE r.call.do = "use" -> r.call.of \in DOMAIN pins /\ r.path = pins[r.call.of].file.dir
    [] r.call.do = "ext" -> r.path = r.call.of
    [] OTHER -> \E f \in DOMAIN files : \E t \in TextsOf(f) :
         f.dir = r.path /\ t.of = [protocol |-> r.call.of, impl |-> r.call.do = "impl"]

Outside == DOMAIN LastPart

IsNamed(r, imports) ==
  /\ r.path \in DOMAIN imports
  /\ (r.call.do = "ext") <=> (r.path \in Outside)
  /\ imports[r.path].aliased => r.name = imports[r.path].name
  /\ ~imports[r.path].aliased =>
       IF r.path \in Outside THEN r.name = LastPart[r.path] ELSE r.name \in PackagesOf(r.path)

AreImports(imports) ==
  \A p \in DOMAIN imports :
    /\ ~imports[p].aliased => imports[p].name = imports[p].package
    /\ IF p \in Outside THEN imports[p].package = LastPart[p]
       ELSE imports[p].package \in PackagesOf(p)

ArePins(pins) ==
  \A a \in DOMAIN pins :
    pins[a].file \in DOMAIN files /\ pins[a].package = files[pins[a].file].package

DirsInv == IsFiniteSet(DOMAIN files) /\ \A f \in DOMAIN files : f.dir \notin Outside

PackagesInv ==
  /\ ArePins(committed.pins) /\ ArePins(current.namespace.pins)
  /\ AreImports(current.imports) /\ \A f \in DOMAIN files : AreImports(files[f].imports)
  /\ shared # None => shared \in DOMAIN files /\ current.imports = files[shared].imports

RefsInv ==
  \A f \in DOMAIN files : \A r \in Refs(f) :
    Aims(r, committed.pins) /\ IsNamed(r, files[f].imports)

(* A file that counts as extra code has text of it. *)
ExtraInv ==
  /\ \A f \in DOMAIN files : files[f].protocol # None =>
       \E t \in TextsOf(f) : t.of = [protocol |-> files[f].protocol, impl |-> files[f].impl]
  /\ stage = "util" => \A f \in DOMAIN files : files[f].impl = FALSE

WrittenInv ==
  mode = "body" =>
    /\ current.package = files[current.file].package
    /\ Extends(files[current.file].imports, current.imports)
    /\ \A r \in current.buffer.refs :
         Aims(r, current.namespace.pins) /\ IsNamed(r, current.imports)

MarkInv ==
  mode = "body" =>
    /\ stage \in {"util", "impl"} =>
         Head(queue).of = [protocol |-> current.protocol, impl |-> current.impl]
    /\ stage \in {"objects", "client"} =>
         current.protocol = files[current.file].protocol /\ current.impl = files[current.file].impl

(* What is left to do. *)
IsCode(of, impl) == of = [protocol |-> of.protocol, impl |-> impl]

TasksInv ==
  /\ AreTasks(queue)
  /\ mode # "next" => queue # <<>> /\ IsScript(left)
  /\ mode # "next" /\ left = <<>> => stage \in {"util", "impl", "objects", "client"}
  /\ stage = "util" => protocols \in Seq(ToSet(world.util))
  /\ stage = "impl" => protocols \in Seq(ToSet(world.impl)) /\ (world.config.off => protocols = <<>>)
  /\ stage \in {"util", "impl"} =>
       \A t \in ToSet(queue) : IsCode(t.of, stage = "impl")

-----------------------------------------------------------------------------
(* Files, packages and texts only grow, and what was true of a reference   *)
(* stays true.                                                             *)

FilesGrow ==
  /\ DOMAIN files \subseteq DOMAIN files'
  /\ \A f \in DOMAIN files :
       files'[f].package = files[f].package /\ TextsOf(f) \subseteq TextsOf(f)'

LEMMA PackagesGrow ==
  ASSUME FilesGrow, NEW dir
  PROVE  PackagesOf(dir) \subseteq PackagesOf(dir)'
BY DEF FilesGrow, PackagesOf

LEMMA AimsKept ==
  ASSUME FilesGrow, NEW r, NEW pins, NEW more, Extends(pins, more), Aims(r, pins)
  PROVE  Aims(r, more)'
<1>1. CASE r.call.do = "use"
  BY <1>1 DEF Aims, Extends
<1>2. CASE r.call.do = "ext"
  BY <1>2 DEF Aims
<1>3. CASE r.call.do \notin {"use", "ext"}
  <2>0. PICK f \in DOMAIN files : \E t \in TextsOf(f) :
          f.dir = r.path /\ t.of = [protocol |-> r.call.of, impl |-> r.call.do = "impl"]
    BY <1>3 DEF Aims
  <2>1. PICK t \in TextsOf(f) :
          f.dir = r.path /\ t.of = [protocol |-> r.call.of, impl |-> r.call.do = "impl"]
    BY <2>0
  <2>2. f \in DOMAIN files' /\ t \in TextsOf(f)'
    BY <2>1 DEF FilesGrow
  <2> QED BY <1>3, <2>1, <2>2 DEF Aims
<1> QED
  BY <1>1, <1>2, <1>3

LEMMA NamedKept ==
  ASSUME FilesGrow, NEW r, NEW imports, NEW more, Extends(imports, more), IsNamed(r, imports)
  PROVE  IsNamed(r, more)'
<1>1. PackagesOf(r.path) \subseteq PackagesOf(r.path)'
  BY PackagesGrow
<1>2. r.path \in DOMAIN more /\ more[r.path] = imports[r.path]
  BY DEF IsNamed, Extends
<1> QED
  BY <1>1, <1>2 DEF IsNamed, Outside

LEMMA ImportsKept ==
  ASSUME FilesGrow, NEW imports, AreImports(imports)
  PROVE  AreImports(imports)'
<1> SUFFICES ASSUME NEW p \in DOMAIN imports
             PROVE  /\ ~imports[p].aliased => imports[p].name = imports[p].package
                    /\ IF p \in Outside THEN imports[p].package = LastPart[p]
                       ELSE imports[p].package \in PackagesOf(p)'
  BY DEF AreImports, Outside
<1>1. PackagesOf(p) \subseteq PackagesOf(p)'
  BY PackagesGrow
<1> QED
  BY <1>1 DEF AreImports

LEMMA PinsKept ==
  ASSUME FilesGrow, NEW pins, ArePins(pins)
  PROVE  ArePins(pins)'
BY DEF FilesGrow, ArePins

LEMMA ExtendsSelf == ASSUME NEW s PROVE Extends(s, s)
BY DEF Extends

(* AddImport names what is imported as AreImports says. *)
LEMMA ImportAdded ==
  ASSUME NEW imports, AreImports(imports), NEW call, NEW path, NEW name,
         (call.do = "ext") <=> (path \in Outside),
         IF path \in Outside THEN name = LastPart[path] ELSE name \in PackagesOf(path),
         NEW r, r = [call |-> call, path |-> path, name |-> Imported(imports, path, name)]
  PROVE  /\ Extends(imports, AddImport(imports, path, name))
         /\ AreImports(AddImport(imports, path, name))
         /\ IsNamed(r, AddImport(imports, path, name))
<1>1. PICK added : added = AddImport(imports, path, name)
  OBVIOUS
<1>2. /\ DOMAIN added = DOMAIN imports \cup {path}
      /\ Extends(imports, added)
      /\ path \notin DOMAIN imports => added[path] = NewItem(imports, name)
  BY <1>1 DEF AddImport, Extends
<1>3. path \notin DOMAIN imports =>
        /\ added[path].package = name
        /\ ~added[path].aliased => added[path].name = name
  <2> SUFFICES ASSUME path \notin DOMAIN imports
               PROVE  /\ added[path].package = name
                      /\ ~added[path].aliased => added[path].name = name
    OBVIOUS
  <2> DEFINE taken == SameName(imports, name) # {} \/ name \notin Identifiers
             called == IF taken
                       THEN Numbered(name, Cardinality(SameName(imports, name)) + 1) ELSE name
  <2>1. added[path] = [package |-> name, name |-> called, aliased |-> taken]
    BY <1>2 DEF NewItem
  <2>2. taken \in BOOLEAN
    OBVIOUS
  <2> HIDE DEF called, taken
  <2>3. added[path].package = name /\ added[path].name = called
    BY <2>1
  <2>4. added[path].aliased = taken
    BY <2>1, <2>2
  <2> QED BY <2>3, <2>4 DEF called
<1>4. AreImports(added)
  <2> SUFFICES ASSUME NEW p \in DOMAIN added
               PROVE  /\ ~added[p].aliased => added[p].name = added[p].package
                      /\ IF p \in Outside THEN added[p].package = LastPart[p]
                         ELSE added[p].package \in PackagesOf(p)
    BY DEF AreImports
  <2>1. CASE p \in DOMAIN imports
    BY <1>2, <2>1 DEF AreImports, Extends
  <2>2. CASE p \notin DOMAIN imports
    BY <1>2, <1>3, <2>2
  <2> QED BY <2>1, <2>2
<1>5. Imported(imports, path, name) = IF added[path].aliased THEN added[path].name ELSE name
  BY <1>1 DEF Imported
<1>6. r.call = call /\ r.path = path /\ r.name = Imported(imports, path, name)
  OBVIOUS
<1>7. IsNamed(r, added)
  BY <1>2, <1>5, <1>6 DEF IsNamed
<1> QED
  BY <1>1, <1>2, <1>4, <1>7

-----------------------------------------------------------------------------
(* Steps of the manager *)

FilesInv == DirsInv /\ PackagesInv /\ RefsInv /\ ExtraInv
TextInv == FilesInv /\ WrittenInv /\ MarkInv

LEMMA QuietNames ==
  ASSUME TextInv, UNCHANGED manager,
         mode' = "body" => mode = "body" /\ UNCHANGED queue,
         \/ stage' = stage
         \/ mode' # "body" /\ stage' # "util"
         \/ stage' \notin {"util", "impl", "objects", "client"}
  PROVE  TextInv'
<1>1. UNCHANGED <<files, committed, current, shared>>
  BY DEF manager
<1>2. \A f \in DOMAIN files : TextsOf(f)' = TextsOf(f) /\ Refs(f)' = Refs(f)
  BY <1>1 DEF Refs, TextsOf
<1>3. FilesGrow
  BY <1>1, <1>2 DEF FilesGrow
<1>4. DirsInv'
  BY <1>1 DEF TextInv, FilesInv, DirsInv, Outside
<1>5. PackagesInv'
  <2>1. ArePins(committed.pins)' /\ ArePins(current.namespace.pins)'
    BY <1>1, <1>3, PinsKept DEF TextInv, FilesInv, PackagesInv
  <2>2. AreImports(current.imports)'
    BY <1>1, <1>3, ImportsKept DEF TextInv, FilesInv, PackagesInv
  <2>3. \A f \in DOMAIN files : AreImports(files[f].imports)'
    BY <1>1, <1>3, ImportsKept DEF TextInv, FilesInv, PackagesInv
  <2> QED BY <1>1, <2>1, <2>2, <2>3 DEF TextInv, FilesInv, PackagesInv
<1>6. RefsInv'
  <2>1. ASSUME NEW f \in DOMAIN files, NEW r \in Refs(f)
        PROVE  Aims(r, committed.pins)' /\ IsNamed(r, files[f].imports)'
    <3>1. Aims(r, committed.pins) /\ IsNamed(r, files[f].imports)
      BY DEF TextInv, FilesInv, RefsInv
    <3> QED BY <1>1, <1>3, <3>1, AimsKept, NamedKept, ExtendsSelf
  <2> QED BY <1>1, <1>2, <2>1 DEF RefsInv
<1>7. ExtraInv'
  BY <1>1, <1>2 DEF TextInv, FilesInv, ExtraInv
<1>8. WrittenInv'
  <2> SUFFICES ASSUME mode' = "body"
               PROVE  WrittenInv'
    BY DEF WrittenInv
  <2>1. ASSUME NEW r \in current.buffer.refs
        PROVE  Aims(r, current.namespace.pins)' /\ IsNamed(r, current.imports)'
    <3>1. Aims(r, current.namespace.pins) /\ IsNamed(r, current.imports)
      BY DEF TextInv, WrittenInv
    <3> QED BY <1>1, <1>3, <3>1, AimsKept, NamedKept, ExtendsSelf
  <2> QED BY <1>1, <2>1 DEF TextInv, WrittenInv
<1>9. MarkInv'
  BY <1>1 DEF TextInv, MarkInv
<1> QED
  BY <1>4, <1>5, <1>6, <1>7, <1>8, <1>9 DEF TextInv, FilesInv

LEMMA BeginNames ==
  ASSUME StateInv, TextInv, UNCHANGED <<committed, queue, stage>>, shared' = None,
         NEW file, file.dir \notin Outside, NEW package, NEW state, state = StateOf(file, package),
         files' = WithFile(file, state), NEW protocol, NEW impl,
         Fields(current', file, state.package, protocol, impl, state.imports, committed, NoText),
         stage \in {"util", "impl"} => Head(queue).of = [protocol |-> protocol, impl |-> impl],
         stage \in {"objects", "client"} => protocol = state.protocol /\ impl = state.impl
  PROVE  TextInv'
<1>1. /\ DOMAIN files' = DOMAIN files \cup {file}
      /\ \A f \in DOMAIN files' : files'[f] = IF f = file THEN state ELSE files[f]
  BY DEF WithFile
<1>2. /\ file \in DOMAIN files => state = files[file]
      /\ file \notin DOMAIN files =>
           state.imports = NoImports /\ state.text = <<>> /\ state.protocol = None
  BY DEF StateOf
<1>3. file \notin DOMAIN files => state.impl = FALSE
  BY DEF StateOf
<1>4. /\ current'.file = file /\ current'.package = state.package
      /\ current'.protocol = protocol /\ current'.imports = state.imports
      /\ current'.namespace = committed /\ current'.buffer.refs = {}
  BY DEF Fields, NoText
<1>5. current'.impl = impl
  BY Zenon DEF Fields
<1>6. \A f \in DOMAIN files : files'[f] = files[f]
  BY <1>1, <1>2
<1>7. \A f \in DOMAIN files : TextsOf(f)' = TextsOf(f) /\ Refs(f)' = Refs(f)
  BY <1>6 DEF Refs, TextsOf
<1>8. file \notin DOMAIN files => Refs(file)' = {} /\ files'[file].protocol = None
  BY <1>1, <1>2, EmptyText DEF Refs, TextsOf
<1>9. FilesGrow
  BY <1>1, <1>6, <1>7 DEF FilesGrow
<1>10. DirsInv'
  <2>1. IsFiniteSet(DOMAIN files')
    BY <1>1, FS_AddElement DEF TextInv, FilesInv, DirsInv
  <2> QED BY <1>1, <2>1 DEF TextInv, FilesInv, DirsInv, Outside
<1>11. AreImports(state.imports)'
  <2>1. AreImports(state.imports)
    BY <1>2 DEF TextInv, FilesInv, PackagesInv, AreImports, NoImports
  <2> QED BY <1>9, <2>1, ImportsKept
<1>12. PackagesInv'
  <2>1. ArePins(committed.pins)' /\ ArePins(current.namespace.pins)'
    BY <1>4, <1>9, PinsKept DEF TextInv, FilesInv, PackagesInv
  <2>2. AreImports(current.imports)'
    BY <1>4, <1>11
  <2>3. \A f \in DOMAIN files' : AreImports(files[f].imports)'
    <3>1. \A f \in DOMAIN files : AreImports(files[f].imports)'
      BY <1>6, <1>9, ImportsKept DEF TextInv, FilesInv, PackagesInv
    <3>2. AreImports(files[file].imports)'
      BY <1>1, <1>11
    <3> QED BY <1>1, <3>1, <3>2
  <2> QED BY <2>1, <2>2, <2>3 DEF PackagesInv
<1>13. RefsInv'
  <2>1. ASSUME NEW f \in DOMAIN files, NEW r \in Refs(f)
        PROVE  Aims(r, committed.pins)' /\ IsNamed(r, files[f].imports)'
    <3>1. Aims(r, committed.pins) /\ IsNamed(r, files[f].imports)
      BY DEF TextInv, FilesInv, RefsInv
    <3> QED BY <1>6, <1>9, <3>1, AimsKept, NamedKept, ExtendsSelf
  <2> QED BY <1>1, <1>7, <1>8, <2>1 DEF RefsInv
<1>14. ExtraInv'
  <2>1. ASSUME NEW f \in DOMAIN files, files'[f].protocol # None
        PROVE  \E t \in TextsOf(f)' :
                 t.of = [protocol |-> files'[f].protocol, impl |-> files'[f].impl]
    BY <1>6, <1>7, <2>1 DEF TextInv, FilesInv, ExtraInv
  <2>2. stage = "util" => \A f \in DOMAIN files' : files'[f].impl = FALSE
    BY <1>1, <1>2, <1>3 DEF TextInv, FilesInv, ExtraInv
  <2> QED BY <1>1, <1>8, <2>1, <2>2 DEF ExtraInv
<1>15. WrittenInv'
  <2>1. files'[file] = state
    BY <1>1
  <2>2. Extends(state.imports, state.imports)
    BY ExtendsSelf
  <2>3. Extends(files'[current'.file].imports, current'.imports)
    BY <1>4, <2>1, <2>2
  <2> QED BY <1>4, <2>1, <2>3 DEF WrittenInv
<1>16. MarkInv'
  <2>1. files'[current'.file] = state
    BY <1>1, <1>4
  <2>2. stage \in {"util", "impl"} =>
          Head(queue).of = [protocol |-> current'.protocol, impl |-> current'.impl]
    BY <1>4, <1>5, Zenon
  <2>3. stage \in {"objects", "client"} =>
          current'.protocol = files'[current'.file].protocol
    BY <1>4, <2>1
  <2>4. stage \in {"objects", "client"} => current'.impl = files'[current'.file].impl
    BY <1>5, <2>1, Zenon
  <2> QED BY <2>2, <2>3, <2>4 DEF MarkInv
<1> QED
  BY <1>10, <1>12, <1>13, <1>14, <1>15, <1>16 DEF TextInv, FilesInv

LEMMA TemplateNames ==
  ASSUME StateInv, TextInv, UNCHANGED <<committed, shared, mode, queue, stage>>,
         NEW imports, Unmoved(imports), Extends(current.imports, imports), AreImports(imports),
         NEW pins, pins = current'.namespace.pins, Extends(current.namespace.pins, pins),
         ArePins(pins),
         \/ files' = files /\ imports = current.imports
         \/ files' = IF shared = None THEN files ELSE [files EXCEPT ![shared].imports = imports],
         mode = "body" =>
           \A r \in current'.buffer.refs \ current.buffer.refs : Aims(r, pins) /\ IsNamed(r, imports)
  PROVE  TextInv'
<1>1. /\ current'.file = current.file /\ current'.package = current.package
      /\ current'.protocol = current.protocol /\ current'.imports = imports
  BY DEF Unmoved, Fields
<1>2. current'.impl = current.impl
  BY Zenon DEF Unmoved, Fields
<1>3. DOMAIN files' = DOMAIN files
  OBVIOUS
<1>4. shared # None => shared \in DOMAIN files /\ current.imports = files[shared].imports
  BY DEF TextInv, FilesInv, PackagesInv
<1>5. ASSUME NEW f \in DOMAIN files
      PROVE  /\ files'[f].package = files[f].package /\ files'[f].protocol = files[f].protocol
             /\ files'[f].impl = files[f].impl /\ files'[f].text = files[f].text
             /\ files'[f].imports = IF shared # None /\ f = shared THEN imports
                                    ELSE files[f].imports
  <2>1. CASE files' = files /\ (imports = current.imports \/ shared = None)
    BY <2>1, <1>4
  <2>2. CASE files' = [files EXCEPT ![shared].imports = imports] /\ f = shared /\ shared # None
    <3>1. files[f] = [package |-> files[f].package, protocol |-> files[f].protocol,
                      impl |-> files[f].impl, imports |-> files[f].imports,
                      text |-> files[f].text]
      BY DEF StateInv, Shapes, IsFile
    <3>2. files'[f] = [files[f] EXCEPT !.imports = imports]
      BY <2>2
    <3>3. files'[f] = [package |-> files[f].package, protocol |-> files[f].protocol,
                       impl |-> files[f].impl, imports |-> imports, text |-> files[f].text]
      BY <3>1, <3>2
    <3>4. files'[f].impl = files[f].impl
      BY <3>3, Zenon
    <3> QED BY <2>2, <3>3, <3>4
  <2>3. CASE files' = [files EXCEPT ![shared].imports = imports] /\ f # shared
    BY <2>3
  <2> QED BY <2>1, <2>2, <2>3
<1>6. \A f \in DOMAIN files : TextsOf(f)' = TextsOf(f) /\ Refs(f)' = Refs(f)
  BY <1>5 DEF Refs, TextsOf
<1>7. FilesGrow
  BY <1>3, <1>5, <1>6 DEF FilesGrow
<1>8. ASSUME NEW f \in DOMAIN files
      PROVE  Extends(files[f].imports, files'[f].imports) /\ AreImports(files[f].imports)'
  <2>1. PICK before, after : before = files[f].imports /\ after = files'[f].imports
    OBVIOUS
  <2>2. AreImports(before)
    BY <2>1 DEF TextInv, FilesInv, PackagesInv
  <2>3. Extends(before, after) /\ AreImports(after)
    <3>1. CASE shared # None /\ f = shared
      BY <1>4, <1>5, <2>1, <3>1
    <3>2. CASE ~(shared # None /\ f = shared)
      BY <1>5, <2>1, <2>2, <3>2, ExtendsSelf
    <3> QED BY <3>1, <3>2
  <2> QED BY <1>7, <2>1, <2>3, ImportsKept
<1>9. DirsInv'
  BY <1>3 DEF TextInv, FilesInv, DirsInv, Outside
<1>10. PackagesInv'
  <2>1. ArePins(committed.pins)' /\ ArePins(current.namespace.pins)'
    BY <1>7, PinsKept DEF TextInv, FilesInv, PackagesInv
  <2>2. AreImports(current.imports)'
    BY <1>1, <1>7, ImportsKept
  <2>3. shared # None => shared \in DOMAIN files' /\ current'.imports = files'[shared].imports
    BY <1>1, <1>3, <1>4, <1>5
  <2> QED BY <1>3, <1>8, <2>1, <2>2, <2>3 DEF PackagesInv
<1>11. RefsInv'
  <2>1. ASSUME NEW f \in DOMAIN files, NEW r \in Refs(f)
        PROVE  Aims(r, committed.pins)' /\ IsNamed(r, files[f].imports)'
    <3>1. Aims(r, committed.pins) /\ IsNamed(r, files[f].imports)
      BY DEF TextInv, FilesInv, RefsInv
    <3>2. Extends(files[f].imports, files'[f].imports)
      BY <1>8
    <3> QED BY <1>7, <3>1, <3>2, AimsKept, NamedKept, ExtendsSelf
  <2> QED BY <1>3, <1>6, <2>1 DEF RefsInv
<1>12. ExtraInv'
  BY <1>3, <1>6, <1>5 DEF TextInv, FilesInv, ExtraInv
<1>13. WrittenInv'
  <2> SUFFICES ASSUME mode = "body"
               PROVE  WrittenInv'
    BY DEF WrittenInv
  <2>1. shared = None /\ current.file \in DOMAIN files
    BY DEF StateInv, AttemptInv
  <2>2. files' = files
    BY <2>1
  <2>3. /\ current.package = files[current.file].package
        /\ Extends(files[current.file].imports, current.imports)
    BY DEF TextInv, WrittenInv
  <2>4. Extends(files[current.file].imports, imports)
    BY <2>3 DEF Extends
  <2>5. ASSUME NEW r \in current'.buffer.refs
        PROVE  Aims(r, current.namespace.pins)' /\ IsNamed(r, current.imports)'
    <3>1. CASE r \in current.buffer.refs
      <4>1. Aims(r, current.namespace.pins) /\ IsNamed(r, current.imports)
        BY <3>1 DEF TextInv, WrittenInv
      <4>2. Aims(r, pins)' /\ IsNamed(r, imports)'
        BY <1>7, <4>1, AimsKept, NamedKept
      <4> QED BY <1>1, <4>2
    <3>2. CASE r \notin current.buffer.refs
      <4>1. Aims(r, pins)' /\ IsNamed(r, imports)'
        BY <1>7, <3>2, AimsKept, NamedKept, ExtendsSelf
      <4> QED BY <1>1, <4>1
    <3> QED BY <3>1, <3>2
  <2> QED BY <1>1, <2>2, <2>3, <2>4, <2>5 DEF WrittenInv
<1>14. MarkInv'
  <2> SUFFICES ASSUME mode = "body"
               PROVE  MarkInv'
    BY DEF MarkInv
  <2>1. current.file \in DOMAIN files
    BY DEF StateInv, AttemptInv
  <2>2. /\ stage \in {"util", "impl"} =>
             Head(queue).of = [protocol |-> current.protocol, impl |-> current.impl]
        /\ stage \in {"objects", "client"} =>
             /\ current.protocol = files[current.file].protocol
             /\ current.impl = files[current.file].impl
    BY DEF TextInv, MarkInv
  <2>3. /\ files'[current.file].protocol = files[current.file].protocol
        /\ files'[current.file].impl = files[current.file].impl
    BY <1>5, <2>1
  <2>4. stage \in {"util", "impl"} =>
          Head(queue).of = [protocol |-> current'.protocol, impl |-> current'.impl]
    BY <1>1, <1>2, <2>2, Zenon
  <2>5. stage \in {"objects", "client"} =>
          /\ current'.protocol = files'[current'.file].protocol
          /\ current'.impl = files'[current'.file].impl
    BY <1>1, <1>2, <2>2, <2>3, Zenon
  <2> QED BY <2>4, <2>5 DEF MarkInv
<1> QED
  BY <1>9, <1>10, <1>11, <1>12, <1>13, <1>14 DEF TextInv, FilesInv

LEMMA CodeFields ==
  ASSUME NEW of, NEW protocol, NEW impl, of = [protocol |-> protocol, impl |-> impl]
  PROVE  of.protocol = protocol /\ of.impl = impl
OBVIOUS

LEMMA CommitNames ==
  ASSUME StateInv, TextInv, UNCHANGED stage, stage \in {"util", "impl", "objects", "client"},
         mode = "body", mode' # "body", NEW of, of = Head(queue).of, Commit(of),
         stage = "util" => of.impl = FALSE
  PROVE  TextInv'
<1>1. PICK file : file = current.file
  OBVIOUS
<1>2. PICK entry : entry = [of |-> of, buffer |-> current.buffer]
  OBVIOUS
<1>3. PICK text : text = Append(files[file].text, entry)
  OBVIOUS
<1>4. entry.of = of /\ entry.buffer = current.buffer
  BY <1>2
<1>5. /\ file \in DOMAIN files /\ DOMAIN files' = DOMAIN files
      /\ \A f \in DOMAIN files : f # file => files'[f] = files[f]
      /\ files'[file].package = files[file].package
      /\ files'[file].protocol = current.protocol
      /\ files'[file].imports = current.imports
  BY <1>1, <1>2, <1>3, CommitEffect
<1>6. files'[file].impl = current.impl
  BY <1>1, <1>2, <1>3, CommitEffect
<1>7. /\ committed' = current.namespace /\ shared' = file
      /\ current'.imports = current.imports /\ current'.namespace = current.namespace
  <2>1. current'.imports = current.imports /\ current'.namespace = current.namespace
    BY <1>1, <1>2, <1>3, CommitEffect
  <2>2. committed' = current.namespace /\ shared' = file
    BY <1>1 DEF Commit
  <2> QED BY <2>1, <2>2
<1>8. /\ TextsOf(file)' = TextsOf(file) \cup {entry}
      /\ \A f \in DOMAIN files : f # file => TextsOf(f)' = TextsOf(f)
  BY <1>1, <1>2, <1>3, CommitEffect
<1>9. FilesGrow
  BY <1>5, <1>8 DEF FilesGrow
<1>10. /\ Extends(files[file].imports, current.imports)
       /\ \A r \in current.buffer.refs :
            Aims(r, current.namespace.pins) /\ IsNamed(r, current.imports)
  BY <1>1 DEF TextInv, WrittenInv
<1>11. Extends(committed.pins, current.namespace.pins)
  BY DEF StateInv, AttemptInv, Extends
<1>12. DirsInv'
  BY <1>5 DEF TextInv, FilesInv, DirsInv, Outside
<1>13. PackagesInv'
  <2>1. ArePins(committed.pins)' /\ ArePins(current.namespace.pins)'
    BY <1>7, <1>9, PinsKept DEF TextInv, FilesInv, PackagesInv
  <2>2. AreImports(current.imports)'
    BY <1>7, <1>9, ImportsKept DEF TextInv, FilesInv, PackagesInv
  <2>3. ASSUME NEW f \in DOMAIN files
        PROVE  AreImports(files[f].imports)'
    <3>1. CASE f = file
      BY <1>5, <1>7, <2>2, <3>1
    <3>2. CASE f # file
      BY <1>5, <1>9, <3>2, ImportsKept DEF TextInv, FilesInv, PackagesInv
    <3> QED BY <3>1, <3>2
  <2>4. shared' \in DOMAIN files' /\ current'.imports = files'[shared'].imports
    BY <1>5, <1>7
  <2> QED BY <1>5, <2>1, <2>2, <2>3, <2>4 DEF PackagesInv
<1>14. RefsInv'
  <2>1. ASSUME NEW f \in DOMAIN files, NEW r \in Refs(f)'
        PROVE  Aims(r, committed.pins)' /\ IsNamed(r, files[f].imports)'
    <3>1. CASE r \in Refs(f)
      <4>1. Aims(r, committed.pins) /\ IsNamed(r, files[f].imports)
        BY <3>1 DEF TextInv, FilesInv, RefsInv
      <4>2. Extends(files[f].imports, files'[f].imports)
        BY <1>5, <1>10, ExtendsSelf
      <4> QED BY <1>7, <1>9, <1>11, <4>1, <4>2, AimsKept, NamedKept
    <3>2. CASE r \notin Refs(f)
      <4>1. f = file /\ r \in current.buffer.refs
        BY <1>4, <1>8, <3>2 DEF Refs
      <4>2. Aims(r, current.namespace.pins) /\ IsNamed(r, current.imports)
        BY <1>10, <4>1
      <4> QED BY <1>5, <1>7, <1>9, <4>1, <4>2, AimsKept, NamedKept, ExtendsSelf
    <3> QED BY <3>1, <3>2
  <2> QED BY <1>5, <2>1 DEF RefsInv
<1>15. ExtraInv'
  <2>1. ASSUME NEW f \in DOMAIN files, files'[f].protocol # None
        PROVE  \E t \in TextsOf(f)' :
                 t.of = [protocol |-> files'[f].protocol, impl |-> files'[f].impl]
    <3>1. CASE f # file
      BY <1>5, <1>8, <2>1, <3>1 DEF TextInv, FilesInv, ExtraInv
    <3>2. CASE f = file /\ stage \in {"util", "impl"}
      <4>1. entry.of = [protocol |-> current.protocol, impl |-> current.impl]
        BY <1>4, <3>2, Zenon DEF TextInv, MarkInv
      <4>2. entry \in TextsOf(f)'
        BY <1>8, <3>2
      <4>3. entry.of = [protocol |-> files'[f].protocol, impl |-> files'[f].impl]
        BY <1>5, <1>6, <3>2, <4>1, Zenon
      <4> QED BY <4>2, <4>3
    <3>3. CASE f = file /\ stage \in {"objects", "client"}
      <4>1. current.protocol = files[f].protocol /\ current.impl = files[f].impl
        BY <1>1, <3>3 DEF TextInv, MarkInv
      <4>2. files'[f].protocol = files[f].protocol /\ files'[f].impl = files[f].impl
        BY <1>5, <1>6, <3>3, <4>1, Zenon
      <4>3. PICK t \in TextsOf(f) : t.of = [protocol |-> files[f].protocol, impl |-> files[f].impl]
        BY <2>1, <4>2 DEF TextInv, FilesInv, ExtraInv
      <4>4. t \in TextsOf(f)'
        BY <1>8, <3>3
      <4>5. t.of = [protocol |-> files'[f].protocol, impl |-> files'[f].impl]
        BY <4>2, <4>3, Zenon
      <4> QED BY <4>4, <4>5
    <3> QED BY <3>1, <3>2, <3>3
  <2>2. stage = "util" => \A f \in DOMAIN files' : files'[f].impl = FALSE
    <3> SUFFICES ASSUME stage = "util"
                 PROVE  \A f \in DOMAIN files' : files'[f].impl = FALSE
      OBVIOUS
    <3>1. of = [protocol |-> current.protocol, impl |-> current.impl]
      BY DEF TextInv, MarkInv
    <3>2. of.impl = current.impl
      BY <3>1, CodeFields
    <3>3. current.impl = FALSE
      BY <3>1, <3>2
    <3> QED BY <1>5, <1>6, <3>3 DEF TextInv, FilesInv, ExtraInv
  <2> QED BY <1>5, <2>1, <2>2 DEF ExtraInv
<1>16. WrittenInv' /\ MarkInv'
  BY DEF WrittenInv, MarkInv
<1> QED
  BY <1>12, <1>13, <1>14, <1>15, <1>16 DEF TextInv, FilesInv

LEMMA ImportNames ==
  ASSUME StateInv, TextInv, UNCHANGED <<mode, queue, stage>>,
         NEW call, NEW path, NEW name, Import(call, path, name),
         (call.do = "ext") <=> (path \in Outside),
         IF path \in Outside THEN name = LastPart[path] ELSE name \in PackagesOf(path),
         NEW r, r = [call |-> call, path |-> path, name |-> Imported(current.imports, path, name)],
         Aims(r, current.namespace.pins)
  PROVE  TextInv'
<1>1. Shapes
  BY DEF StateInv
<1>2. PICK old, imports :
        old = current.imports /\ imports = AddImport(current.imports, path, name)
  OBVIOUS
<1>3. /\ UNCHANGED <<committed, shared>> /\ Unmoved(imports)
      /\ current'.namespace = current.namespace
      /\ current'.buffer.refs = current.buffer.refs \cup {r}
      /\ files' = IF shared = None THEN files ELSE [files EXCEPT ![shared].imports = imports]
  BY <1>1, <1>2, ImportEffect
<1>4. AreImports(old)
  BY <1>2 DEF TextInv, FilesInv, PackagesInv
<1>5. Extends(old, imports) /\ AreImports(imports) /\ IsNamed(r, imports)
  BY <1>2, <1>4, ImportAdded
<1>6. PICK pins : pins = current.namespace.pins
  OBVIOUS
<1>7. Extends(current.namespace.pins, pins) /\ ArePins(pins) /\ pins = current'.namespace.pins
  BY <1>3, <1>6, ExtendsSelf DEF TextInv, FilesInv, PackagesInv
<1>8. Extends(current.imports, imports)
  BY <1>2, <1>5
<1>9. \A x \in current'.buffer.refs \ current.buffer.refs : Aims(x, pins) /\ IsNamed(x, imports)
  BY <1>3, <1>5, <1>6
<1> QED
  BY <1>3, <1>5, <1>7, <1>8, <1>9, TemplateNames

LEMMA ImportDirNames ==
  ASSUME StateInv, TextInv, UNCHANGED <<mode, queue, stage>>,
         NEW call, call.do # "ext", NEW f \in DOMAIN files,
         ImportDir(call, f.dir, files[f].package),
         \A r : r.call = call /\ r.path = f.dir => Aims(r, current.namespace.pins)
  PROVE  TextInv'
<1>1. CASE f.dir = CurrentDir
  <2>1. UNCHANGED manager
    BY <1>1 DEF ImportDir
  <2> QED BY <2>1, QuietNames
<1>2. CASE f.dir # CurrentDir
  <2>1. PICK dir, name : dir = f.dir /\ name = files[f].package
    OBVIOUS
  <2>2. Import(call, dir, name)
    BY <1>2, <2>1 DEF ImportDir
  <2>3. dir \notin Outside /\ name \in PackagesOf(dir)
    BY <2>1 DEF TextInv, FilesInv, DirsInv, PackagesOf
  <2>4. PICK r : r = [call |-> call, path |-> dir,
                      name |-> Imported(current.imports, dir, name)]
    OBVIOUS
  <2>5. r.call = call /\ r.path = dir
    BY <2>4
  <2>6. Aims(r, current.namespace.pins)
    BY <2>1, <2>5
  <2> QED BY <2>2, <2>3, <2>4, <2>6, ImportNames
<1> QED
  BY <1>1, <1>2

LEMMA PinNames ==
  ASSUME StateInv, TextInv, UNCHANGED <<mode, queue, stage>>, mode = "body", NEW a, Pin(a)
  PROVE  TextInv'
<1>1. Shapes /\ current.file \in DOMAIN files
  BY DEF StateInv, AttemptInv
<1>2. PICK old, pins, imports : /\ old = current.namespace.pins
                                /\ pins = current'.namespace.pins
                                /\ imports = current.imports
  OBVIOUS
<1>3. /\ UNCHANGED <<files, committed, shared>> /\ Unmoved(imports)
      /\ Extends(old, pins) /\ DOMAIN pins = DOMAIN old \cup {a}
      /\ a \notin DOMAIN old => pins[a].file = current.file /\ pins[a].package = current.package
      /\ current'.buffer.refs = current.buffer.refs
  BY <1>1, <1>2, PinEffect
<1>4. ArePins(old) /\ AreImports(imports) /\ current.package = files[current.file].package
  BY <1>2 DEF TextInv, FilesInv, PackagesInv, WrittenInv
<1>5. ArePins(pins)
  BY <1>1, <1>3, <1>4 DEF ArePins, Extends
<1>6. Extends(current.imports, imports) /\ Extends(current.namespace.pins, pins)
  BY <1>2, <1>3, ExtendsSelf
<1> QED
  BY <1>2, <1>3, <1>4, <1>5, <1>6, TemplateNames

LEMMA OnceNames ==
  ASSUME StateInv, TextInv, UNCHANGED <<mode, queue, stage>>, NEW x, Once(x)
  PROVE  TextInv'
<1>1. Shapes
  BY DEF StateInv
<1>2. PICK pins, imports : pins = current.namespace.pins /\ imports = current.imports
  OBVIOUS
<1>3. /\ UNCHANGED <<files, committed, shared>> /\ Unmoved(imports)
      /\ current'.namespace.pins = pins /\ current'.buffer.refs = current.buffer.refs
  BY <1>1, <1>2, OnceEffect
<1>4. ArePins(pins) /\ AreImports(imports)
  BY <1>2 DEF TextInv, FilesInv, PackagesInv
<1>5. Extends(current.imports, imports) /\ Extends(current.namespace.pins, pins)
  BY <1>2, ExtendsSelf
<1> QED
  BY <1>2, <1>3, <1>4, <1>5, TemplateNames

LEMMA CallNames ==
  ASSUME StateInv, TextInv, UNCHANGED <<mode, queue, stage>>, NEW call, Call(call),
         call.do = "ext" => call.of \in Outside,
         call.do \in {"util", "impl"} => call.of # None,
         mode = "body" \/ call.do # "pin"
  PROVE  TextInv'
<1>1. CASE call.do = "pin" /\ Pin(call.of)
  BY <1>1, PinNames
<1>2. CASE call.do = "use" /\ Use(call)
  <2>1. PICK d : d = current.namespace.pins[call.of]
    OBVIOUS
  <2>2. ImportDir(call, d.file.dir, d.package)
    BY <1>2, <2>1 DEF Use
  <2>3. call.of \in DOMAIN current.namespace.pins
    BY <1>2 DEF Call, Fails, IsPinned
  <2>4. d.file \in DOMAIN files /\ d.package = files[d.file].package
    BY <2>1, <2>3 DEF TextInv, FilesInv, PackagesInv, ArePins
  <2>5. PICK f \in DOMAIN files : f = d.file
    BY <2>4
  <2>6. ImportDir(call, f.dir, files[f].package)
    BY <2>2, <2>4, <2>5
  <2>7. \A r : r.call = call /\ r.path = f.dir => Aims(r, current.namespace.pins)
    BY <1>2, <2>1, <2>3, <2>5 DEF Aims
  <2> QED BY <1>2, <2>6, <2>7, ImportDirNames
<1>3. ASSUME NEW impl \in BOOLEAN, UseExtra(call, impl), call.do = IF impl THEN "impl" ELSE "util"
      PROVE  TextInv'
  <2>1. PICK f \in ExtraFiles(call.of, impl) : ImportDir(call, f.dir, files[f].package)
    BY <1>3 DEF UseExtra
  <2>2. f \in DOMAIN files /\ files[f].protocol = call.of /\ files[f].impl = impl
    BY DEF ExtraFiles
  <2>3. PICK t \in TextsOf(f) : t.of = [protocol |-> files[f].protocol, impl |-> files[f].impl]
    BY <1>3, <2>2 DEF TextInv, FilesInv, ExtraInv
  <2>4. (call.do = "impl") = impl
    BY <1>3
  <2>5. t.of = [protocol |-> call.of, impl |-> call.do = "impl"]
    BY <2>2, <2>3, <2>4, Zenon
  <2>6. \A r : r.call = call /\ r.path = f.dir => Aims(r, current.namespace.pins)
    BY <1>3, <2>2, <2>5 DEF Aims
  <2> QED BY <1>3, <2>1, <2>2, <2>6, ImportDirNames
<1>4. CASE call.do = "ext" /\ UseExternal(call)
  <2>1. PICK path, name : path = call.of /\ name = LastPart[call.of]
    OBVIOUS
  <2>2. Import(call, path, name)
    BY <1>4, <2>1 DEF UseExternal, ImportName
  <2>3. PICK r : r = [call |-> call, path |-> path,
                      name |-> Imported(current.imports, path, name)]
    OBVIOUS
  <2>4. r.call = call /\ r.path = path
    BY <2>3
  <2>5. Aims(r, current.namespace.pins)
    BY <1>4, <2>1, <2>4 DEF Aims
  <2> QED BY <1>4, <2>1, <2>2, <2>3, <2>5, ImportNames
<1>5. CASE call.do = "once" /\ Once(call.of)
  BY <1>5, OnceNames
<1>6. CASE UNCHANGED manager
  BY <1>6, QuietNames
<1> QED
  BY <1>1, <1>2, <1>3, <1>4, <1>5, <1>6 DEF Call

-----------------------------------------------------------------------------
(* What is left to do stays made of tasks and their scripts. *)

LEMMA SequenceSet ==
  ASSUME NEW S, NEW s \in Seq(S)
  PROVE  s \in Seq(ToSet(s)) /\ ToSet(s) \subseteq S
<1>1. Len(s) \in Nat /\ DOMAIN s = 1 .. Len(s) /\ \A k \in 1 .. Len(s) : s[k] \in S
  OBVIOUS
<1>2. ToSet(s) = {s[k] : k \in DOMAIN s}
  BY DEF ToSet
<1>3. \A k \in 1 .. Len(s) : s[k] \in ToSet(s)
  BY <1>1, <1>2
<1>4. s \in Seq(ToSet(s))
  <2> DEFINE T == ToSet(s)
  <2> HIDE DEF T
  <2>1. \A k \in 1 .. Len(s) : s[k] \in T
    BY <1>3 DEF T
  <2>2. s \in Seq(T)
    BY <1>1, <2>1
  <2> QED BY <2>2 DEF T
<1> QED
  BY <1>1, <1>2, <1>4

LEMMA TailSet ==
  ASSUME NEW s, s \in Seq(ToSet(s)), s # <<>>
  PROVE  /\ Head(s) \in ToSet(s)
         /\ Tail(s) \in Seq(ToSet(Tail(s))) /\ ToSet(Tail(s)) \subseteq ToSet(s)
<1> DEFINE T == ToSet(s)
<1>1. s \in Seq(T)
  OBVIOUS
<1> HIDE DEF T
<1>2. Head(s) \in T /\ Tail(s) \in Seq(T)
  BY <1>1
<1>3. Tail(s) \in Seq(ToSet(Tail(s))) /\ ToSet(Tail(s)) \subseteq T
  BY <1>2, SequenceSet
<1> QED
  BY <1>2, <1>3 DEF T

LEMMA ItemsAreTasks ==
  ASSUME world \in Worlds, NEW s \in Seq(Items)
  PROVE  AreTasks(s)
<1>1. s \in Seq(ToSet(s)) /\ ToSet(s) \subseteq Items
  BY SequenceSet
<1>2. \A t \in Items : IsTask(t)
  BY RenderingAssumption DEF Items, AreTasks
<1> QED
  BY <1>1, <1>2 DEF AreTasks

LEMMA TailTasks ==
  ASSUME NEW s, AreTasks(s), s # <<>>
  PROVE  AreTasks(Tail(s)) /\ IsTask(Head(s))
BY TailSet DEF AreTasks

LEMMA RestScript ==
  ASSUME NEW s, IsScript(s), s # <<>>
  PROVE  /\ IsScript(Rest(s))
         /\ Head(s).do = "ext" => Head(s).of \in Outside
         /\ Head(s).do \in {"util", "impl"} => Head(s).of # None
<1>1. Head(s) \in ToSet(s) /\ IsScript(Tail(s))
  BY TailSet DEF IsScript
<1>2. Len(s) > 1 => Tail(s) # <<>>
  <2> DEFINE T == ToSet(s)
  <2>1. s \in Seq(T)
    BY DEF IsScript
  <2> HIDE DEF T
  <2>2. Len(Tail(s)) = Len(s) - 1 /\ Len(s) \in Nat
    BY <2>1
  <2>3. Len(<<>>) = 0
    OBVIOUS
  <2>4. PICK n : n = Len(s)
    OBVIOUS
  <2>5. n \in Nat /\ Len(Tail(s)) = n - 1
    BY <2>2, <2>4
  <2>6. PICK t : t = Tail(s)
    OBVIOUS
  <2>7. Len(t) = n - 1
    BY <2>5, <2>6, Zenon
  <2>8. n > 1 => Len(t) # 0
    BY <2>5, <2>7
  <2> QED BY <2>3, <2>4, <2>6, <2>8
<1>3. Len(s) > 1 => IsScript(Tail(Tail(s)))
  BY <1>1, <1>2, TailSet DEF IsScript
<1> QED
  BY <1>1, <1>3 DEF Rest, IsScript, Outside

LEMMA CodeTasks ==
  ASSUME NEW templates, NEW protocol, NEW dir, NEW package, NEW impl,
         NEW t \in ToSet(Tasks(templates, protocol, dir, package, impl))
  PROVE  IsCode(t.of, impl)
<1>1. PICK i \in DOMAIN templates :
        t = [of |-> [protocol |-> protocol, impl |-> impl], package |-> package,
             file |-> [dir |-> dir, name |-> templates[i].name], script |-> templates[i].script]
  BY DEF ToSet, Tasks
<1>2. t.of = [protocol |-> protocol, impl |-> impl]
  BY <1>1, Zenon
<1>3. t.of.protocol = protocol
  BY <1>2, CodeFields
<1> QED
  BY <1>2, <1>3, Zenon DEF IsCode

LEMMA NoTasks == AreTasks(<<>>) /\ ToSet(<<>>) = {}
<1>1. ToSet(<<>>) = {}
  BY EmptyText
<1> QED
  BY <1>1 DEF AreTasks

LEMMA TasksNext ==
  ASSUME Inv, TasksInv, [Next]_vars
  PROVE  TasksInv'
<1>1. world \in Worlds
  BY DEF Inv, QueueInv
<1>2. CASE NextProtocol
  <2>1. /\ UNCHANGED <<world, stage, mode>> /\ mode = "next" /\ stage \in {"util", "impl"}
        /\ protocols # <<>> /\ protocols' = Tail(protocols)
        /\ queue' = IF stage = "util" THEN UtilTasks(world.config, Head(protocols))
                    ELSE ImplTasks(world.config, Head(protocols))
    BY <1>2 DEF NextProtocol, Idle
  <2>2. CASE stage = "util"
    <3>1. protocols \in Seq(ToSet(world.util))
      BY <2>2 DEF TasksInv
    <3>2. Head(protocols) \in ToSet(world.util) /\ Tail(protocols) \in Seq(ToSet(world.util))
      BY <2>1, <3>1
    <3>3. AreTasks(UtilTasks(world.config, Head(protocols)))
      BY <1>1, <3>2, RenderingAssumption
    <3>4. \A t \in ToSet(UtilTasks(world.config, Head(protocols))) : IsCode(t.of, FALSE)
      BY CodeTasks DEF UtilTasks
    <3>5. (stage' = "impl") = FALSE
      BY <2>1, <2>2
    <3>6. \A t \in ToSet(queue') : IsCode(t.of, stage' = "impl")
      BY <2>1, <2>2, <3>4, <3>5, Zenon
    <3> QED BY <2>1, <2>2, <3>2, <3>3, <3>6 DEF TasksInv
  <2>3. CASE stage = "impl"
    <3>1. protocols \in Seq(ToSet(world.impl)) /\ ~world.config.off
      BY <2>1, <2>3 DEF TasksInv
    <3>2. Head(protocols) \in ToSet(world.impl) /\ Tail(protocols) \in Seq(ToSet(world.impl))
      BY <2>1, <3>1
    <3>3. AreTasks(ImplTasks(world.config, Head(protocols)))
      BY <1>1, <3>1, <3>2, RenderingAssumption
    <3>4. \A t \in ToSet(ImplTasks(world.config, Head(protocols))) : IsCode(t.of, TRUE)
      BY CodeTasks DEF ImplTasks
    <3>5. (stage' = "impl") = TRUE /\ stage # "util"
      BY <2>1, <2>3
    <3>6. \A t \in ToSet(queue') : IsCode(t.of, stage' = "impl")
      BY <2>1, <3>4, <3>5, Zenon
    <3> QED BY <2>1, <2>3, <3>1, <3>2, <3>3, <3>6 DEF TasksInv
  <2> QED BY <2>1, <2>2, <2>3
<1>3. CASE BeginTemplate
  <2>1. /\ UNCHANGED <<world, stage, protocols, queue>> /\ queue # <<>>
        /\ stage \in {"util", "impl", "client"} /\ left' = Head(queue).script
    BY <1>3 DEF BeginTemplate
  <2>2. IsScript(left')
    BY <2>1, TailTasks DEF TasksInv, IsTask
  <2> QED BY <2>1, <2>2 DEF TasksInv
<1>4. CASE Fail \/ NotPinned \/ Finish
  <2>1. UNCHANGED <<world, protocols, queue, mode, left>> /\ stage' \notin {"util", "impl"}
        /\ (mode = "next" \/ left # <<>>)
    BY <1>4 DEF Fail, NotPinned, Finish, Idle, work
  <2> QED BY <2>1 DEF TasksInv
<1>5. CASE BeginName
  <2>1. /\ UNCHANGED <<world, stage, protocols, queue>> /\ queue # <<>> /\ stage = "objects"
        /\ left' = Head(queue).name
    BY <1>5 DEF BeginName
  <2>2. Head(queue) \in Items
    BY <2>1 DEF Inv, QueueInv
  <2>3. IsScript(left')
    BY <1>1, <2>1, <2>2, RenderingAssumption DEF Items
  <2> QED BY <2>1, <2>3 DEF TasksInv
<1>6. CASE BeginBody
  <2>1. /\ UNCHANGED <<world, stage, protocols, queue>> /\ mode = "name"
        /\ left' = Head(queue).script
    BY <1>6 DEF BeginBody
  <2>2. queue # <<>> /\ IsScript(left') /\ stage = "objects"
    BY <2>1, TailTasks DEF TasksInv, IsTask, Inv, QueueInv
  <2> QED BY <2>1, <2>2 DEF TasksInv
<1>7. CASE Execute
  <2>1. /\ UNCHANGED <<world, stage, protocols, queue, mode>> /\ mode # "next" /\ left # <<>>
        /\ stage \in {"util", "impl", "objects", "client"}
    BY <1>7 DEF Execute
  <2>2. left' = Rest(left)
    BY <1>7 DEF Execute
  <2>3. IsScript(left')
    BY <2>1, <2>2, RestScript DEF TasksInv
  <2> QED BY <2>1, <2>3 DEF TasksInv
<1>8. CASE CommitFile \/ Postpone
  <2>1. UNCHANGED <<world, stage, protocols>> /\ mode # "next" /\ mode' = "next"
        /\ queue' = Tail(queue)
    BY <1>8 DEF CommitFile, Postpone
  <2>2. queue # <<>> /\ AreTasks(queue)
    BY <2>1 DEF TasksInv
  <2>3. AreTasks(queue') /\ ToSet(queue') \subseteq ToSet(queue)
    BY <2>1, <2>2, TailTasks, TailSet DEF AreTasks
  <2> QED BY <2>1, <2>3 DEF TasksInv
<1>9. CASE NextPass
  <2>1. /\ UNCHANGED <<world, stage, protocols, mode>> /\ mode = "next" /\ stage = "objects"
        /\ queue' = postponed
    BY <1>9 DEF NextPass, Idle
  <2>2. AreTasks(queue')
    BY <1>1, <2>1, ItemsAreTasks DEF Inv, QueueInv
  <2> QED BY <2>1, <2>2 DEF TasksInv
<1>10. CASE StartImplementations
  <2>1. /\ UNCHANGED <<world, queue, mode>> /\ mode = "next" /\ queue = <<>> /\ stage' = "impl"
        /\ protocols' = IF world.config.off THEN <<>> ELSE world.impl
    BY <1>10 DEF StartImplementations, Idle
  <2>2. world.impl \in Seq(ToSet(world.impl))
    BY <1>1, RenderingAssumption
  <2>3. protocols' \in Seq(ToSet(world.impl)) /\ (world.config.off => protocols' = <<>>)
    <3>1. PICK S : S = ToSet(world.impl)
      OBVIOUS
    <3>2. <<>> \in Seq(S) /\ world.impl \in Seq(S)
      BY <2>2, <3>1
    <3> QED BY <2>1, <3>1, <3>2
  <2> QED BY <2>1, <2>3, NoTasks DEF TasksInv
<1>11. CASE StartObjects
  <2>1. /\ UNCHANGED <<world, mode>> /\ mode = "next" /\ stage' = "objects"
        /\ queue' = world.queue
    BY <1>11 DEF StartObjects, Idle
  <2>2. AreTasks(queue')
    BY <1>1, <2>1, RenderingAssumption
  <2> QED BY <2>1, <2>2 DEF TasksInv
<1>12. CASE StartClient
  <2>1. /\ UNCHANGED <<world, mode>> /\ mode = "next" /\ stage' = "client"
        /\ queue' = ClientTasks(world.client)
    BY <1>12 DEF StartClient, Idle
  <2>2. AreTasks(queue')
    BY <1>1, <2>1, RenderingAssumption
  <2> QED BY <2>1, <2>2 DEF TasksInv
<1>13. CASE UNCHANGED vars
  <2>1. UNCHANGED <<world, stage, protocols, queue, mode, left>>
    BY <1>13 DEF vars, work
  <2> QED BY <2>1 DEF TasksInv
<1> QED
  BY <1>2, <1>3, <1>4, <1>5, <1>6, <1>7, <1>8, <1>9, <1>10, <1>11, <1>12, <1>13 DEF Next

LEMMA TextNext ==
  ASSUME Inv, TasksInv, TextInv, [Next]_vars
  PROVE  TextInv'
<1>1. StateInv
  BY DEF Inv
<1>2. CASE NextProtocol \/ NextPass
  <2>1. UNCHANGED <<manager, mode, stage>> /\ mode = "next"
    BY <1>2 DEF NextProtocol, NextPass, Idle
  <2> QED BY <2>1, QuietNames
<1>3. CASE BeginTemplate
  <2>1. UNCHANGED <<queue, stage>> /\ queue # <<>>
    BY <1>3 DEF BeginTemplate
  <2>2. PICK t : t = Head(queue)
    OBVIOUS
  <2>3. t.file.dir \notin Outside
    BY <2>1, <2>2, TailTasks DEF TasksInv, IsTask, Outside
  <2>4. PICK state : state = StateOf(t.file, t.package)
    OBVIOUS
  <2>5. CASE stage \in {"util", "impl"} /\ BeginExtraFile(t.file, t.package, t.of.protocol, t.of.impl)
    <3>1. /\ UNCHANGED committed /\ shared' = None /\ files' = WithFile(t.file, state)
          /\ \E mark :
               /\ mark = (state.impl \/ t.of.impl)
               /\ Fields(current', t.file, state.package, t.of.protocol, mark, state.imports,
                         committed, NoText)
      BY <2>4, <2>5, BeginExtraEffect
    <3>2. PICK mark : /\ mark = (state.impl \/ t.of.impl)
                      /\ Fields(current', t.file, state.package, t.of.protocol, mark,
                                state.imports, committed, NoText)
      BY <3>1
    <3>3. t \in ToSet(queue)
      BY <2>1, <2>2, TailSet DEF TasksInv, AreTasks
    <3>4. t.of = [protocol |-> t.of.protocol, impl |-> stage = "impl"]
      BY <2>5, <3>3 DEF TasksInv, IsCode
    <3>5. mark = (stage = "impl")
      <4>1. t.of.impl = (stage = "impl")
        <5>1. PICK of, impl : of = t.of /\ impl = (stage = "impl")
          OBVIOUS
        <5>2. of = [protocol |-> of.protocol, impl |-> impl]
          BY <3>4, <5>1, Zenon
        <5>3. of.impl = impl
          BY <5>2, CodeFields, Zenon
        <5> QED BY <5>1, <5>3, Zenon
      <4>2. CASE stage = "impl"
        <5>1. t.of.impl
          BY <4>1, <4>2
        <5> QED BY <3>2, <4>2, <5>1
      <4>3. CASE stage = "util"
        <5>1. t.of.impl = FALSE
          BY <4>1, <4>3
        <5>2. state.impl = FALSE
          BY <2>4, <4>3 DEF StateOf, TextInv, FilesInv, ExtraInv
        <5> QED BY <3>2, <4>3, <5>1, <5>2
      <4> QED BY <2>5, <4>2, <4>3
    <3>6. Head(queue).of = [protocol |-> t.of.protocol, impl |-> mark]
      BY <2>2, <3>4, <3>5, Zenon
    <3> QED BY <1>1, <2>1, <2>3, <2>4, <2>5, <3>1, <3>2, <3>6, BeginNames
  <2>6. CASE stage = "client" /\ BeginFile(t.file, t.package)
    <3>1. /\ UNCHANGED committed /\ shared' = None /\ files' = WithFile(t.file, state)
          /\ Fields(current', t.file, state.package, state.protocol, state.impl, state.imports,
                    committed, NoText)
      BY <2>4, <2>6, BeginEffect
    <3> QED BY <1>1, <2>1, <2>3, <2>4, <2>6, <3>1, BeginNames
  <2> QED BY <1>3, <2>2, <2>5, <2>6 DEF BeginTemplate
<1>4. CASE Fail
  <2>1. UNCHANGED <<manager, mode, queue>> /\ stage' = "failed"
    BY <1>4 DEF Fail, work
  <2> QED BY <2>1, QuietNames
<1>5. CASE NotPinned \/ Finish \/ StartImplementations \/ StartObjects \/ StartClient
  <2>1. UNCHANGED <<manager, mode>> /\ mode = "next" /\ stage' # "util"
    BY <1>5 DEF NotPinned, Finish, StartImplementations, StartObjects, StartClient, work, Idle
  <2> QED BY <2>1, QuietNames
<1>6. CASE BeginName
  <2>1. UNCHANGED <<manager, stage, queue>> /\ mode' = "name"
    BY <1>6 DEF BeginName
  <2> QED BY <2>1, QuietNames
<1>7. CASE BeginBody
  <2>1. UNCHANGED <<queue, stage>> /\ mode = "name"
        /\ BeginFile(Head(queue).file, Head(queue).package)
    BY <1>7 DEF BeginBody
  <2>2. stage = "objects" /\ queue # <<>>
    BY <2>1 DEF Inv, QueueInv
  <2>3. PICK t : t = Head(queue)
    OBVIOUS
  <2>4. t.file.dir \notin Outside
    BY <2>2, <2>3, TailTasks DEF TasksInv, IsTask, Outside
  <2>5. PICK state : state = StateOf(t.file, t.package)
    OBVIOUS
  <2>6. BeginFile(t.file, t.package)
    BY <2>1, <2>3
  <2>7. /\ UNCHANGED committed /\ shared' = None /\ files' = WithFile(t.file, state)
        /\ Fields(current', t.file, state.package, state.protocol, state.impl, state.imports,
                  committed, NoText)
    BY <2>5, <2>6, BeginEffect
  <2> QED BY <1>1, <2>1, <2>2, <2>4, <2>5, <2>7, BeginNames
<1>8. CASE Execute
  <2>1. UNCHANGED <<mode, queue, stage>> /\ mode # "next" /\ left # <<>> /\ Call(Head(left))
    BY <1>8 DEF Execute
  <2>2. /\ Head(left).do = "ext" => Head(left).of \in Outside
        /\ Head(left).do \in {"util", "impl"} => Head(left).of # None
    BY <2>1, RestScript DEF TasksInv
  <2>3. mode = "body" \/ Head(left).do # "pin"
    <3>1. CASE mode = "name"
      BY <2>1, <3>1, NameCalls DEF Inv
    <3>2. CASE mode = "body"
      BY <3>2
    <3> QED BY <2>1, <3>1, <3>2 DEF Inv, QueueInv
  <2> QED BY <1>1, <2>1, <2>2, <2>3, CallNames
<1>9. CASE CommitFile
  <2>1. UNCHANGED stage /\ mode = "body" /\ mode' = "next" /\ left = <<>>
        /\ Commit(Head(queue).of)
    BY <1>9 DEF CommitFile
  <2>2. stage \in {"util", "impl", "objects", "client"} /\ AreTasks(queue) /\ queue # <<>>
    BY <2>1 DEF TasksInv
  <2>3. PICK of : of = Head(queue).of
    OBVIOUS
  <2>4. stage = "util" => of.impl = FALSE
    <3> SUFFICES ASSUME stage = "util"
                 PROVE  of.impl = FALSE
      OBVIOUS
    <3>1. Head(queue) \in ToSet(queue)
      BY <2>2, TailSet DEF AreTasks
    <3>2. of = [protocol |-> of.protocol, impl |-> stage = "impl"]
      BY <2>3, <3>1, Zenon DEF TasksInv, IsCode
    <3>3. (stage = "impl") = FALSE
      OBVIOUS
    <3>4. of = [protocol |-> of.protocol, impl |-> FALSE]
      BY <3>2, <3>3, Zenon
    <3> QED BY <3>4, CodeFields
  <2> QED BY <1>1, <2>1, <2>2, <2>3, <2>4, CommitNames
<1>10. CASE Postpone
  <2>1. UNCHANGED <<manager, stage>> /\ mode' = "next"
    BY <1>10 DEF Postpone
  <2> QED BY <2>1, QuietNames
<1>11. CASE UNCHANGED vars
  <2>1. UNCHANGED <<manager, mode, queue, stage>>
    BY <1>11 DEF vars, work
  <2> QED BY <2>1, QuietNames
<1> QED
  BY <1>2, <1>3, <1>4, <1>5, <1>6, <1>7, <1>8, <1>9, <1>10, <1>11 DEF Next

LEMMA InitNames == Init => TextInv /\ TasksInv
<1> SUFFICES ASSUME Init
             PROVE  TextInv /\ TasksInv
  OBVIOUS
<1>1. /\ DOMAIN files = {} /\ DOMAIN committed.pins = {} /\ shared = None
      /\ mode = "next" /\ queue = <<>> /\ stage = "util" /\ protocols = world.util
      /\ world \in Worlds
  BY DEF Init, InitManager
<1>2. current = [file |-> None, package |-> None, protocol |-> None, impl |-> FALSE,
                 imports |-> NoImports, namespace |-> committed, buffer |-> NoText]
  BY DEF Init, InitManager
<1>3. Fields(current, None, None, None, FALSE, NoImports, committed, NoText)
  BY <1>2, RecordFields
<1>4. current.imports = NoImports /\ current.namespace = committed
  BY <1>3 DEF Fields
<1>5. DOMAIN NoImports = {}
  BY DEF NoImports
<1>6. PackagesInv
  BY <1>1, <1>4, <1>5 DEF PackagesInv, ArePins, AreImports
<1>7. DirsInv
  BY <1>1, FS_EmptySet DEF DirsInv
<1>8. RefsInv /\ ExtraInv
  BY <1>1 DEF RefsInv, ExtraInv
<1>9. WrittenInv /\ MarkInv
  BY <1>1 DEF WrittenInv, MarkInv
<1>10. TasksInv
  <2>1. world.util \in Seq(ToSet(world.util))
    BY <1>1, RenderingAssumption
  <2> QED BY <1>1, <2>1, NoTasks DEF TasksInv
<1> QED
  BY <1>6, <1>7, <1>8, <1>9, <1>10 DEF TextInv, FilesInv

NamesInv == Inv /\ TasksInv /\ TextInv

(* What the invariants say of the names in the text. *)
LEMMA NamesFollow == ASSUME NamesInv PROVE NamesResolve
<1> SUFFICES ASSUME NEW f \in DOMAIN files
             PROVE  /\ NamesDistinct(files[f].imports)
                    /\ \A r \in Refs(f) :
                         /\ r.path \in DOMAIN files[f].imports
                         /\ Target(r)
                         /\ (r.call.do # "ext" => Cardinality(PackagesOf(r.path)) = 1) =>
                              /\ files[f].imports[r.path].name = r.name
                              /\ r.call.do # "ext" =>
                                   files[f].imports[r.path].package \in PackagesOf(r.path)
  BY DEF NamesResolve
<1>1. NamesDistinct(files[f].imports)
  BY NumberedIsDistinct DEF NamesInv, Inv, StateInv, NumberedInv
<1>2. PICK imports : imports = files[f].imports
  OBVIOUS
<1>3. AreImports(imports)
  BY <1>2 DEF NamesInv, TextInv, FilesInv, PackagesInv
<1>4. ASSUME NEW r \in Refs(f)
      PROVE  /\ r.path \in DOMAIN imports
             /\ Target(r)
             /\ (r.call.do # "ext" => Cardinality(PackagesOf(r.path)) = 1) =>
                  /\ imports[r.path].name = r.name
                  /\ r.call.do # "ext" => imports[r.path].package \in PackagesOf(r.path)
  <2>1. Aims(r, committed.pins) /\ IsNamed(r, imports)
    BY <1>2 DEF NamesInv, TextInv, FilesInv, RefsInv
  <2>2. Target(r)
    <3>1. CASE r.call.do = "use"
      BY <2>1, <3>1 DEF Aims, Target
    <3>2. CASE r.call.do = "ext"
      BY <2>1, <3>2 DEF Aims, Target
    <3>3. CASE r.call.do \notin {"use", "ext"}
      BY <2>1, <3>3 DEF Aims, Target
    <3> QED BY <3>1, <3>2, <3>3
  <2>3. r.path \in DOMAIN imports
    BY <2>1 DEF IsNamed
  <2>4. r.path \notin Outside => imports[r.path].package \in PackagesOf(r.path)
    BY <1>3, <2>3 DEF AreImports
  <2>5. CASE imports[r.path].aliased
    BY <2>1, <2>2, <2>3, <2>4, <2>5 DEF IsNamed
  <2>6. CASE ~imports[r.path].aliased /\ r.call.do = "ext"
    <3>1. r.path \in Outside /\ r.name = LastPart[r.path]
      BY <2>1, <2>6 DEF IsNamed
    <3>2. imports[r.path].package = LastPart[r.path] /\ imports[r.path].name = imports[r.path].package
      BY <1>3, <2>3, <2>6, <3>1 DEF AreImports
    <3> QED BY <2>2, <2>3, <2>6, <3>1, <3>2
  <2>7. CASE ~imports[r.path].aliased /\ r.call.do # "ext"
    <3>1. r.path \notin Outside /\ r.name \in PackagesOf(r.path)
      BY <2>1, <2>7 DEF IsNamed
    <3>2. imports[r.path].name = imports[r.path].package
      BY <1>3, <2>3, <2>7 DEF AreImports
    <3>3. IsFiniteSet(PackagesOf(r.path))
      <4>1. IsFiniteSet({g \in DOMAIN files : g.dir = r.path})
        BY FS_Subset DEF NamesInv, TextInv, FilesInv, DirsInv
      <4>2. PICK S, T : S = {g \in DOMAIN files : g.dir = r.path} /\ T = PackagesOf(r.path)
        OBVIOUS
      <4>3. [g \in S |-> files[g].package] \in Surjection(S, T)
        BY <4>2 DEF Surjection, PackagesOf
      <4> QED BY <4>1, <4>2, <4>3, FS_Surjection
    <3>4. Cardinality(PackagesOf(r.path)) = 1 => \E x : PackagesOf(r.path) = {x}
      BY <3>3, FS_Singleton
    <3> QED BY <2>2, <2>3, <2>4, <2>7, <3>1, <3>2, <3>4
  <2> QED BY <2>5, <2>6, <2>7
<1> QED
  BY <1>1, <1>2, <1>4

(* A qualified name in a generated file is declared by one import of that  *)
(* file, that of the place it was written for, and is still called what    *)
(* the template was told: TemplateRenderManager with ImportsManager,       *)
(* through every attempt that fails and every file that is added to.       *)
THEOREM Names == Spec => []NamesResolve
<1>1. Init => NamesInv
  BY InitInv, InitNames DEF NamesInv
<1>2. NamesInv /\ [Next]_vars => NamesInv'
  BY NextInv, TasksNext, TextNext DEF NamesInv
<1>3. NamesInv => NamesResolve
  BY NamesFollow
<1> QED
  BY <1>1, <1>2, <1>3, PTL DEF Spec

-----------------------------------------------------------------------------
(* Which extra code there is *)

UtilTask(t, p) == p \in ToSet(world.util) /\ t \in ToSet(UtilTasks(world.config, p))

ImplTask(t, p) ==
  ~world.config.off /\ p \in ToSet(world.impl) /\ t \in ToSet(ImplTasks(world.config, p))

UtilCode(p) == <<p, FALSE>>
ImplCode(p) == <<p, TRUE>>

LEMMA NoneInEmpty == ASSUME NEW s, s \in Seq(ToSet(s)) PROVE s # <<>> <=> \E t : t \in ToSet(s)
<1>1. s # <<>> => Head(s) \in ToSet(s)
  BY TailSet
<1>2. s = <<>> => ToSet(s) = {}
  BY EmptyText
<1> QED BY <1>1, <1>2

LEMMA CodeOfTask ==
  ASSUME NEW t, NEW p
  PROVE  /\ UtilTask(t, p) => UtilCode(p) \in AllCode /\ t \in ToSet(ExtraTasks(UtilCode(p)))
         /\ ImplTask(t, p) => ImplCode(p) \in AllCode /\ t \in ToSet(ExtraTasks(ImplCode(p)))
<1>1. UtilTask(t, p) => UtilCode(p) \in AllCode
  BY DEF UtilTask, UtilCode, AllCode, ExtraCode
<1>2. ImplTask(t, p) => ImplCode(p) \in AllCode
  BY DEF ImplTask, ImplCode, AllCode, ExtraCode
<1>3. ExtraTasks(UtilCode(p)) = UtilTasks(world.config, p)
  BY DEF UtilCode, ExtraTasks
<1>4. ~world.config.off => ExtraTasks(ImplCode(p)) = ImplTasks(world.config, p)
  BY DEF ImplCode, ExtraTasks
<1> QED BY <1>1, <1>2, <1>3, <1>4 DEF UtilTask, ImplTask

(* No file is written for two of them. *)
LEMMA FilesApart ==
  ASSUME Apart, NEW p, NEW q, NEW t, NEW u, t.file = u.file
  PROVE  /\ UtilTask(t, p) /\ UtilTask(u, q) => p = q
         /\ ImplTask(t, p) /\ ImplTask(u, q) => p = q
         /\ ~(UtilTask(t, p) /\ ImplTask(u, q))
<1>1. ASSUME NEW c \in AllCode, NEW d \in AllCode,
             t \in ToSet(ExtraTasks(c)), u \in ToSet(ExtraTasks(d))
      PROVE  c = d
  BY <1>1 DEF Apart, TaskFiles
<1>2. /\ UtilTask(t, p) => UtilCode(p) \in AllCode /\ t \in ToSet(ExtraTasks(UtilCode(p)))
      /\ ImplTask(t, p) => ImplCode(p) \in AllCode /\ t \in ToSet(ExtraTasks(ImplCode(p)))
      /\ UtilTask(u, q) => UtilCode(q) \in AllCode /\ u \in ToSet(ExtraTasks(UtilCode(q)))
      /\ ImplTask(u, q) => ImplCode(q) \in AllCode /\ u \in ToSet(ExtraTasks(ImplCode(q)))
  BY CodeOfTask
<1>3. /\ UtilCode(p) = UtilCode(q) => p = q
      /\ ImplCode(p) = ImplCode(q) => p = q
      /\ UtilCode(p) # ImplCode(q)
  BY DEF UtilCode, ImplCode
<1>4. UtilTask(t, p) /\ UtilTask(u, q) => p = q
  BY <1>1, <1>2, <1>3, Zenon
<1>5. ImplTask(t, p) /\ ImplTask(u, q) => p = q
  BY <1>1, <1>2, <1>3, Zenon
<1>6. ~(UtilTask(t, p) /\ ImplTask(u, q))
  BY <1>1, <1>2, <1>3, Zenon
<1> QED BY <1>4, <1>5, <1>6

LEMMA TaskScripts ==
  ASSUME world \in Worlds, NEW t, NEW p, UtilTask(t, p) \/ ImplTask(t, p)
  PROVE  UsesNoObject(t) /\ IsScript(t.script) /\ t.script \in AllScripts
<1>1. UtilTask(t, p) => UsesNoObject(t) /\ IsScript(t.script)
  BY RenderingAssumption DEF UtilTask, AreTasks, IsTask
<1>2. ImplTask(t, p) => UsesNoObject(t) /\ IsScript(t.script)
  BY RenderingAssumption DEF ImplTask, AreTasks, IsTask
<1>3. \E c \in AllCode : t \in ToSet(ExtraTasks(c))
  BY CodeOfTask
<1> QED BY <1>1, <1>2, <1>3 DEF AllScripts

UtilProvided(p) == Provides(p, FALSE)
ImplProvided(p) == Provides(p, TRUE)

LEMMA ProvidedByTask ==
  ASSUME world \in Worlds, NEW p
  PROVE  /\ UtilProvided(p) <=> \E t : UtilTask(t, p)
         /\ ImplProvided(p) <=> \E t : ImplTask(t, p)
<1>1. UtilProvided(p) <=> p \in ToSet(world.util) /\ UtilTasks(world.config, p) # <<>>
  BY DEF UtilProvided, Provides, AllCode, ExtraCode, ExtraTasks
<1>2. ImplProvided(p) <=>
        p \in ToSet(world.impl) /\ ~world.config.off /\ ImplTasks(world.config, p) # <<>>
  BY DEF ImplProvided, Provides, AllCode, ExtraCode, ExtraTasks
<1>3. p \in ToSet(world.util) => UtilTasks(world.config, p) \in Seq(ToSet(UtilTasks(world.config, p)))
  BY RenderingAssumption DEF AreTasks
<1>4. p \in ToSet(world.impl) /\ ~world.config.off =>
        ImplTasks(world.config, p) \in Seq(ToSet(ImplTasks(world.config, p)))
  BY RenderingAssumption DEF AreTasks
<1> QED BY <1>1, <1>2, <1>3, <1>4, NoneInEmpty DEF UtilTask, ImplTask

LEMMA MetBy ==
  ASSUME NEW call, NEW pinned
  PROVE  Met(call, pinned) <=> /\ call.do = "use" => call.of \in pinned
                               /\ call.do = "util" => UtilProvided(call.of)
                               /\ call.do = "impl" => ImplProvided(call.of)
BY Zenon DEF Met, UtilProvided, ImplProvided

LEMMA SkippedBy ==
  ASSUME NEW s, NEW k
  PROVE  Skipped(s, k) <=> k > 1 /\ s[k - 1].do = "unlessImpl" /\ ImplProvided(s[k - 1].of)
BY Zenon DEF Skipped, ImplProvided

-----------------------------------------------------------------------------
(* More pins do no harm *)

LEMMA MetMore ==
  ASSUME NEW call, NEW P, NEW Q, P \subseteq Q, Met(call, P)
  PROVE  Met(call, Q)
BY MetBy

LEMMA RunsMore ==
  ASSUME NEW s, NEW P, NEW Q, P \subseteq Q, Runs(s, P)
  PROVE  Runs(s, Q)
<1>1. SUFFICES ASSUME NEW k \in DOMAIN s, ~Skipped(s, k)
               PROVE  Met(s[k], Q \cup PinsBefore(s, k))
  BY DEF Runs
<1>2. Met(s[k], P \cup PinsBefore(s, k))
  BY <1>1 DEF Runs
<1> QED BY <1>2, MetMore

LEMMA PinsBeforeNext ==
  ASSUME NEW s, NEW k \in Nat, k >= 1
  PROVE  /\ PinsBefore(s, k) \subseteq PinsBefore(s, k + 1)
         /\ s[k].do = "pin" /\ ~Skipped(s, k) => s[k].of \in PinsBefore(s, k + 1)
         /\ \A x \in PinsBefore(s, k + 1) :
              x \in PinsBefore(s, k) \/ (s[k].do = "pin" /\ ~Skipped(s, k) /\ x = s[k].of)
         /\ PinsBefore(s, 1) = {}
<1>1. 1 .. (k + 1) - 1 = (1 .. k - 1) \cup {k} /\ 1 .. 1 - 1 = {}
  OBVIOUS
<1> QED BY <1>1 DEF PinsBefore

-----------------------------------------------------------------------------
(* How far a template has been executed *)

(* These are the calls of s from the k-th one on. *)
IsFrom(l, s, k) ==
  /\ l \in Seq(ToSet(s))
  /\ k \in 1 .. Len(s) + 1 /\ Len(l) = Len(s) + 1 - k
  /\ \A j \in 1 .. Len(l) : l[j] = s[k - 1 + j]

LEMMA FromStart ==
  ASSUME NEW s, s \in Seq(ToSet(s))
  PROVE  IsFrom(s, s, 1)
<1> DEFINE S == ToSet(s)
<1>1. s \in Seq(S)
  OBVIOUS
<1> HIDE DEF S
<1>2. Len(s) \in Nat
  BY <1>1
<1>3. \A j \in 1 .. Len(s) : s[j] = s[1 - 1 + j]
  BY <1>2
<1> QED BY <1>1, <1>2, <1>3 DEF IsFrom, S

LEMMA TailAt ==
  ASSUME NEW S, NEW l \in Seq(S), l # <<>>
  PROVE  /\ Head(l) \in S /\ Head(l) = l[1] /\ 1 \in DOMAIN l
         /\ Len(l) \in Nat \ {0} /\ DOMAIN l = 1 .. Len(l)
         /\ Tail(l) \in Seq(S) /\ Len(Tail(l)) = Len(l) - 1
         /\ \A j \in 1 .. Len(l) - 1 : Tail(l)[j] = l[j + 1]
         /\ (Tail(l) = <<>>) <=> (Len(l) = 1)
<1>1. Head(l) \in S /\ Head(l) = l[1]
  OBVIOUS
<1>2. Len(l) \in Nat \ {0} /\ DOMAIN l = 1 .. Len(l) /\ 1 \in DOMAIN l
  OBVIOUS
<1>3. Tail(l) \in Seq(S) /\ Len(Tail(l)) = Len(l) - 1
  OBVIOUS
<1>4. \A j \in 1 .. Len(l) - 1 : Tail(l)[j] = l[j + 1]
  OBVIOUS
<1>5. (Tail(l) = <<>>) <=> (Len(l) = 1)
  <2>1. PICK t : t = Tail(l)
    OBVIOUS
  <2>2. t \in Seq(S) /\ Len(t) = Len(l) - 1
    BY <1>3, <2>1
  <2>3. t \in Seq(S)
    BY <2>2
  <2>4. (t = <<>>) <=> (Len(t) = 0)
    BY ONLY <2>3
  <2> QED BY <1>2, <2>1, <2>2, <2>4
<1> QED BY <1>1, <1>2, <1>3, <1>4, <1>5

LEMMA FromTail ==
  ASSUME NEW l, NEW s, s \in Seq(ToSet(s)), NEW k, IsFrom(l, s, k), l # <<>>
  PROVE  /\ k \in DOMAIN s /\ k \in Nat /\ k >= 1 /\ Head(l) = s[k] /\ Head(l) \in ToSet(s)
         /\ IsFrom(Tail(l), s, k + 1)
         /\ Len(l) \in Nat \ {0} /\ ((Tail(l) = <<>>) <=> (Len(l) = 1))
         /\ DOMAIN s = 1 .. Len(s) /\ Len(s) \in Nat
<1> DEFINE S == ToSet(s)
<1>1. l \in Seq(S) /\ s \in Seq(S)
  BY DEF IsFrom
<1> HIDE DEF S
<1>2. /\ k \in 1 .. Len(s) + 1 /\ Len(l) = Len(s) + 1 - k
      /\ \A j \in 1 .. Len(l) : l[j] = s[k - 1 + j]
  BY DEF IsFrom
<1>3. Len(s) \in Nat /\ DOMAIN s = 1 .. Len(s) /\ Len(l) \in Nat \ {0}
  BY <1>1, TailAt
<1>4. k \in DOMAIN s /\ k \in Nat /\ k >= 1
  BY <1>2, <1>3
<1>5. Head(l) = s[k] /\ Head(l) \in S
  <2>1. Head(l) = l[1] /\ Head(l) \in S
    BY <1>1, TailAt
  <2>2. l[1] = s[k - 1 + 1]
    BY <1>2, <1>3
  <2>3. k - 1 + 1 = k
    BY <1>4
  <2> QED BY <2>1, <2>2, <2>3
<1>6. PICK t : t = Tail(l)
  OBVIOUS
<1>7. /\ t \in Seq(S) /\ Len(t) = Len(l) - 1 /\ ((t = <<>>) <=> (Len(l) = 1))
      /\ \A j \in 1 .. Len(l) - 1 : t[j] = l[j + 1]
  BY <1>1, <1>6, TailAt
<1>8. PICK m, n, h : m = Len(s) /\ n = Len(l) /\ h = Len(t)
  OBVIOUS
<1>9. m \in Nat /\ n \in Nat /\ n # 0 /\ h = n - 1
  <2>1. h = Len(l) - 1
    BY <1>7, <1>8, Zenon
  <2> QED BY <1>3, <1>8, <2>1
<1>10. k \in 1 .. m + 1 /\ n = m + 1 - k
  BY <1>2, <1>8, Zenon
<1>11. k + 1 \in 1 .. m + 1 /\ h = m + 1 - (k + 1)
  BY <1>9, <1>10
<1>12. ASSUME NEW j \in 1 .. h
       PROVE  t[j] = s[(k + 1) - 1 + j]
  <2>1. j \in 1 .. n - 1 /\ j + 1 \in 1 .. n
    BY <1>9
  <2>2. t[j] = l[j + 1]
    BY <1>7, <1>8, <2>1, Zenon
  <2>3. l[j + 1] = s[k - 1 + (j + 1)]
    BY <1>2, <1>8, <2>1, Zenon
  <2>4. k - 1 + (j + 1) = (k + 1) - 1 + j
    BY <1>4
  <2> QED BY <2>2, <2>3, <2>4
<1>13. IsFrom(t, s, k + 1)
  BY <1>7, <1>8, <1>11, <1>12, Zenon DEF IsFrom, S
<1>14. /\ s \in Seq(ToSet(s)) /\ Head(l) \in ToSet(s)
       /\ IsFrom(Tail(l), s, k + 1) /\ ((Tail(l) = <<>>) <=> (Len(l) = 1))
  BY <1>1, <1>5, <1>6, <1>7, <1>13, Zenon DEF S
<1> QED BY <1>3, <1>4, <1>5, <1>14

LEMMA FromRest ==
  ASSUME NEW l, NEW s, s \in Seq(ToSet(s)), NEW k, IsFrom(l, s, k), l # <<>>
  PROVE  /\ k \in DOMAIN s /\ k \in Nat /\ k >= 1 /\ Head(l) = s[k] /\ Head(l) \in ToSet(s)
         /\ IsFrom(Tail(l), s, k + 1)
         /\ Len(l) > 1 => /\ k + 1 \in DOMAIN s /\ IsFrom(Tail(Tail(l)), s, k + 2)
                          /\ Tail(l) # <<>> /\ Head(Tail(l)) = s[k + 1]
         /\ ~(Len(l) > 1) => k + 1 = Len(s) + 1 /\ k + 1 \notin DOMAIN s /\ Tail(l) = <<>>
<1>1. /\ k \in DOMAIN s /\ k \in Nat /\ k >= 1 /\ Head(l) = s[k] /\ Head(l) \in ToSet(s)
      /\ IsFrom(Tail(l), s, k + 1)
      /\ Len(l) \in Nat \ {0} /\ ((Tail(l) = <<>>) <=> (Len(l) = 1))
      /\ DOMAIN s = 1 .. Len(s) /\ Len(s) \in Nat
  BY FromTail
<1>2. PICK t : t = Tail(l)
  OBVIOUS
<1>3. PICK n : n = k + 1
  OBVIOUS
<1>4. ASSUME Len(l) > 1
      PROVE  n \in DOMAIN s /\ IsFrom(Tail(t), s, n + 1) /\ t # <<>> /\ Head(t) = s[n]
  <2>1. t # <<>> /\ IsFrom(t, s, n)
    BY <1>1, <1>2, <1>3, <1>4
  <2> QED BY <2>1, FromTail
<1>5. ASSUME ~(Len(l) > 1)
      PROVE  k + 1 = Len(s) + 1 /\ Tail(l) = <<>>
  <2>1. Len(l) = 1 /\ Tail(l) = <<>>
    BY <1>1, <1>5
  <2>2. Len(l) = Len(s) + 1 - k
    BY DEF IsFrom
  <2> QED BY <1>1, <2>1, <2>2
<1>6. n + 1 = k + 2
  BY <1>1, <1>3
<1>7. k + 1 = Len(s) + 1 => k + 1 \notin DOMAIN s
  BY <1>1
<1> QED BY <1>1, <1>2, <1>3, <1>4, <1>5, <1>6, <1>7

-----------------------------------------------------------------------------
(* The world does not change *)

LEMMA WorldKept == ASSUME [Next]_vars PROVE world' = world
<1>1. CASE NextProtocol \/ BeginTemplate \/ Fail \/ BeginName \/ BeginBody \/ Execute \/ CommitFile
  BY <1>1 DEF NextProtocol, BeginTemplate, Fail, BeginName, BeginBody, Execute, CommitFile
<1>2. CASE Postpone \/ NextPass \/ NotPinned \/ StartImplementations \/ StartObjects \/ StartClient
           \/ Finish \/ UNCHANGED vars
  BY <1>2 DEF Postpone, NextPass, NotPinned, StartImplementations, StartObjects, StartClient, Finish, vars
<1> QED BY <1>1, <1>2 DEF Next

LEMMA TaskKept ==
  ASSUME world' = world, NEW t, NEW p
  PROVE  (UtilTask(t, p)' <=> UtilTask(t, p)) /\ (ImplTask(t, p)' <=> ImplTask(t, p))
BY DEF UtilTask, ImplTask

LEMMA ItemsKept ==
  ASSUME world' = world
  PROVE  Items' = Items /\ AllCode' = AllCode /\ AllScripts' = AllScripts
<1>1. Items' = Items /\ AllCode' = AllCode
  BY DEF Items, AllCode, ExtraCode
<1>2. \A c : ExtraTasks(c)' = ExtraTasks(c)
  BY DEF ExtraTasks
<1>3. AllScripts' = AllScripts
  BY <1>1, <1>2 DEF AllScripts
<1> QED BY <1>1, <1>3

LEMMA ProvidedKept ==
  ASSUME world' = world, NEW p
  PROVE  (UtilProvided(p)' <=> UtilProvided(p)) /\ (ImplProvided(p)' <=> ImplProvided(p))
<1>1. AllCode' = AllCode
  BY ItemsKept
<1>2. \A c : ExtraTasks(c)' = ExtraTasks(c)
  BY DEF ExtraTasks
<1> QED BY <1>1, <1>2, Zenon DEF UtilProvided, ImplProvided, Provides

LEMMA MetKept ==
  ASSUME world' = world, NEW call, NEW P
  PROVE  Met(call, P)' <=> Met(call, P)
<1>1. /\ UtilProvided(call.of)' <=> UtilProvided(call.of)
      /\ ImplProvided(call.of)' <=> ImplProvided(call.of)
  BY ProvidedKept
<1> QED BY <1>1, Zenon DEF Met, UtilProvided, ImplProvided

LEMMA ScriptKept ==
  ASSUME world' = world, NEW s
  PROVE  /\ \A k : Skipped(s, k)' <=> Skipped(s, k)
         /\ \A k : PinsBefore(s, k)' = PinsBefore(s, k)
         /\ \A P : Runs(s, P)' <=> Runs(s, P)
         /\ Pins(s)' = Pins(s)
<1>1. ASSUME NEW k
      PROVE  Skipped(s, k)' <=> Skipped(s, k)
  <2>1. ImplProvided(s[k - 1].of)' <=> ImplProvided(s[k - 1].of)
    BY ProvidedKept
  <2> QED BY <2>1, Zenon DEF Skipped, ImplProvided
<1>2. ASSUME NEW k
      PROVE  PinsBefore(s, k)' = PinsBefore(s, k)
  BY <1>1 DEF PinsBefore
<1>3. ASSUME NEW P
      PROVE  Runs(s, P)' <=> Runs(s, P)
  <2>1. ASSUME NEW k
        PROVE  Met(s[k], P \cup PinsBefore(s, k))' <=> Met(s[k], P \cup PinsBefore(s, k))
    <3>1. PICK Q : Q = P \cup PinsBefore(s, k)
      OBVIOUS
    <3>2. Met(s[k], Q)' <=> Met(s[k], Q)
      BY MetKept
    <3> QED BY <1>2, <3>1, <3>2 DEF Met
  <2> QED BY <1>1, <2>1 DEF Runs
<1> QED BY <1>1, <1>2, <1>3 DEF Pins

-----------------------------------------------------------------------------
(* What a step of the manager does to the marks of extra code, to the pins *)
(* and to what has been asked for once.                                    *)

Pinned == DOMAIN current.namespace.pins
Settling == DOMAIN committed.pins

MarksKept ==
  /\ TextsKept
  /\ \A f \in DOMAIN files : files'[f].protocol = files[f].protocol /\ files'[f].impl = files[f].impl
  /\ \A f \in DOMAIN files' \ DOMAIN files : files'[f].protocol = None /\ files'[f].impl = FALSE

LEMMA RecordMarks ==
  ASSUME NEW a, NEW b, NEW c, NEW d, NEW e, NEW r,
         r = [package |-> a, protocol |-> b, impl |-> c, imports |-> d, text |-> e]
  PROVE  r.protocol = b /\ r.impl = c /\ r.text = e
<1>1. r.protocol = b /\ r.text = e
  OBVIOUS
<1>2. r.impl = c
  BY Zenon
<1> QED BY <1>1, <1>2

LEMMA ImportMarks ==
  ASSUME Shapes, NEW call, NEW path, NEW name, Import(call, path, name)
  PROVE  MarksKept /\ DOMAIN files' = DOMAIN files
<1>1. PICK imports : imports = AddImport(current.imports, path, name)
  OBVIOUS
<1>2. /\ UNCHANGED committed
      /\ files' = IF shared = None THEN files ELSE [files EXCEPT ![shared].imports = imports]
  BY <1>1, ImportEffect
<1>3. DOMAIN files' = DOMAIN files
  BY <1>2 DEF Shapes
<1>4. ASSUME NEW f \in DOMAIN files
      PROVE  /\ files'[f].text = files[f].text
             /\ files'[f].protocol = files[f].protocol /\ files'[f].impl = files[f].impl
  <2>1. files[f] = [package |-> files[f].package, protocol |-> files[f].protocol,
                    impl |-> files[f].impl, imports |-> files[f].imports, text |-> files[f].text]
    BY DEF Shapes, IsFile
  <2>2. CASE files' = files
    BY <2>2
  <2>3. CASE files' = [files EXCEPT ![shared].imports = imports] /\ f = shared
    <3>1. files'[f] = [files[f] EXCEPT !.imports = imports]
      BY <2>3
    <3>2. files'[f] = [package |-> files[f].package, protocol |-> files[f].protocol,
                       impl |-> files[f].impl, imports |-> imports, text |-> files[f].text]
      BY <2>1, <3>1
    <3> QED BY <3>2, RecordMarks
  <2>4. CASE files' = [files EXCEPT ![shared].imports = imports] /\ f # shared
    BY <2>4
  <2> QED BY <1>2, <2>2, <2>3, <2>4
<1> QED BY <1>2, <1>3, <1>4 DEF MarksKept, TextsKept

LEMMA SameMarks ==
  ASSUME UNCHANGED <<files, committed>>
  PROVE  MarksKept /\ DOMAIN files' = DOMAIN files
BY DEF MarksKept, TextsKept

LEMMA CallMarks ==
  ASSUME Shapes, NEW call, Call(call)
  PROVE  /\ MarksKept /\ DOMAIN files' = DOMAIN files /\ current'.file = current.file
         /\ call.do = "pin" => Pinned' = Pinned \cup {call.of}
         /\ call.do # "pin" => Pinned' = Pinned
         /\ call.do = "once" => current'.namespace.once = current.namespace.once \cup {call.of}
         /\ call.do # "once" => current'.namespace.once = current.namespace.once
<1>1. CASE call.do = "pin" /\ Pin(call.of)
  <2>1. /\ UNCHANGED <<files, committed, shared>> /\ Unmoved(current.imports)
        /\ DOMAIN current'.namespace.pins = DOMAIN current.namespace.pins \cup {call.of}
        /\ current'.namespace.once = current.namespace.once
    BY <1>1, PinEffect
  <2> QED BY <1>1, <2>1, SameMarks DEF Unmoved, Fields, Pinned
<1>2. CASE call.do = "once" /\ Once(call.of)
  <2>1. /\ UNCHANGED <<files, committed, shared>> /\ Unmoved(current.imports)
        /\ current'.namespace.pins = current.namespace.pins
        /\ current'.namespace.once = current.namespace.once \cup {call.of}
    BY <1>2, OnceEffect
  <2> QED BY <1>2, <2>1, SameMarks DEF Unmoved, Fields, Pinned
<1>3. CASE UNCHANGED manager /\ call.do \notin {"pin", "once"}
  <2>1. UNCHANGED <<files, committed, current>>
    BY <1>3 DEF manager
  <2> QED BY <1>3, <2>1, SameMarks DEF Pinned
<1>4. ASSUME NEW path, NEW name, Import(call, path, name), call.do \notin {"pin", "once"}
      PROVE  /\ MarksKept /\ DOMAIN files' = DOMAIN files /\ current'.file = current.file
             /\ Pinned' = Pinned /\ current'.namespace.once = current.namespace.once
  <2>1. MarksKept /\ DOMAIN files' = DOMAIN files
    BY <1>4, ImportMarks
  <2>2. Unmoved(AddImport(current.imports, path, name)) /\ current'.namespace = current.namespace
    BY <1>4, ImportEffect
  <2> QED BY <2>1, <2>2 DEF Unmoved, Fields, Pinned
<1>5. CASE call.do = "use" /\ Use(call)
  <2>1. PICK d : d = current.namespace.pins[call.of]
    OBVIOUS
  <2>2. ImportDir(call, d.file.dir, d.package)
    BY <1>5, <2>1 DEF Use
  <2> QED BY <1>3, <1>4, <1>5, <2>2 DEF ImportDir
<1>6. ASSUME NEW impl, UseExtra(call, impl), call.do \in {"util", "impl"}
      PROVE  /\ MarksKept /\ DOMAIN files' = DOMAIN files /\ current'.file = current.file
             /\ Pinned' = Pinned /\ current'.namespace.once = current.namespace.once
  <2>1. PICK f \in ExtraFiles(call.of, impl) : ImportDir(call, f.dir, files[f].package)
    BY <1>6 DEF UseExtra
  <2> QED BY <1>3, <1>4, <1>6, <2>1 DEF ImportDir
<1>7. CASE call.do = "ext" /\ UseExternal(call)
  BY <1>4, <1>7 DEF UseExternal
<1>8. CASE call.do = "unlessImpl" /\ UNCHANGED manager
  BY <1>3, <1>8
<1>9. CASE call.do = "util" /\ UseExtra(call, FALSE)
  BY <1>6, <1>9, Zenon
<1>10. CASE call.do = "impl" /\ UseExtra(call, TRUE)
  BY <1>6, <1>10, Zenon
<1>11. \/ call.do = "pin" /\ Pin(call.of)
       \/ call.do = "use" /\ Use(call)
       \/ call.do = "util" /\ UseExtra(call, FALSE)
       \/ call.do = "impl" /\ UseExtra(call, TRUE)
       \/ call.do = "ext" /\ UseExternal(call)
       \/ call.do = "once" /\ Once(call.of)
       \/ call.do = "unlessImpl" /\ UNCHANGED manager
  BY Zenon DEF Call
<1> QED BY <1>1, <1>2, <1>5, <1>7, <1>8, <1>9, <1>10, <1>11

LEMMA BeginMarks ==
  ASSUME NEW file, NEW package,
         \/ BeginFile(file, package)
         \/ \E protocol, impl : BeginExtraFile(file, package, protocol, impl)
  PROVE  /\ MarksKept /\ DOMAIN files' = DOMAIN files \cup {file}
         /\ current'.file = file /\ current'.namespace = committed
<1>1. PICK state : state = StateOf(file, package)
  OBVIOUS
<1>2. /\ UNCHANGED committed /\ files' = WithFile(file, state)
      /\ current'.file = file /\ current'.namespace = committed
  <2>1. CASE BeginFile(file, package)
    <3>1. /\ UNCHANGED committed /\ files' = WithFile(file, state)
          /\ Fields(current', file, state.package, state.protocol, state.impl, state.imports,
                    committed, NoText)
      BY <1>1, <2>1, BeginEffect
    <3> QED BY <3>1 DEF Fields
  <2>2. ASSUME NEW protocol, NEW impl, BeginExtraFile(file, package, protocol, impl)
        PROVE  /\ UNCHANGED committed /\ files' = WithFile(file, state)
               /\ current'.file = file /\ current'.namespace = committed
    <3>1. /\ UNCHANGED committed /\ files' = WithFile(file, state)
          /\ \E mark :
               Fields(current', file, state.package, protocol, mark, state.imports,
                      committed, NoText)
      BY <1>1, <2>2, BeginExtraEffect
    <3> QED BY <3>1 DEF Fields
  <2> QED BY <2>1, <2>2
<1>3. /\ DOMAIN files' = DOMAIN files \cup {file}
      /\ \A f \in DOMAIN files' : files'[f] = IF f = file THEN state ELSE files[f]
  BY <1>2 DEF WithFile
<1>4. file \in DOMAIN files => state = files[file]
  BY <1>1 DEF StateOf
<1>5. file \notin DOMAIN files => state.text = <<>> /\ state.protocol = None /\ state.impl = FALSE
  <2> SUFFICES ASSUME file \notin DOMAIN files
               PROVE  state.text = <<>> /\ state.protocol = None /\ state.impl = FALSE
    OBVIOUS
  <2>1. state = [package |-> state.package, protocol |-> None, impl |-> FALSE,
                 imports |-> NoImports, text |-> <<>>]
    BY <1>1 DEF StateOf
  <2>2. PICK a, no : a = state.package /\ no = FALSE
    OBVIOUS
  <2>3. state = [package |-> a, protocol |-> None, impl |-> no, imports |-> NoImports, text |-> <<>>]
    BY <2>1, <2>2
  <2>4. state.protocol = None /\ state.impl = no /\ state.text = <<>>
    BY <2>3, RecordMarks
  <2> QED BY <2>2, <2>4
<1>6. \A f \in DOMAIN files : files'[f] = files[f]
  BY <1>3, <1>4
<1>7. \A f \in DOMAIN files' \ DOMAIN files : files'[f] = state /\ file \notin DOMAIN files
  BY <1>3
<1>8. TextsKept
  BY <1>2, <1>3, <1>5, <1>6, <1>7 DEF TextsKept
<1> QED BY <1>2, <1>3, <1>5, <1>6, <1>7, <1>8 DEF MarksKept

LEMMA CommitMarks ==
  ASSUME StateInv, mode = "body", NEW of, Commit(of), NEW f, f = current.file
  PROVE  /\ f \in DOMAIN files /\ DOMAIN files' = DOMAIN files
         /\ \A g \in DOMAIN files : g # f => files'[g] = files[g]
         /\ files'[f].protocol = current.protocol
         /\ files'[f].impl = current.impl
         /\ committed' = current.namespace /\ current'.namespace = current.namespace
         /\ \E entry : /\ entry.of = of /\ IsText(files[f].text)
                       /\ files'[f].text = Append(files[f].text, entry)
<1>1. PICK entry : entry = [of |-> of, buffer |-> current.buffer]
  OBVIOUS
<1>2. PICK text : text = Append(files[f].text, entry)
  OBVIOUS
<1>3. entry.of = of
  BY <1>1
<1>4. /\ f \in DOMAIN files /\ DOMAIN files' = DOMAIN files /\ IsText(files[f].text)
      /\ \A g \in DOMAIN files : g # f => files'[g] = files[g]
  BY <1>1, <1>2, CommitEffect
<1>5. files'[f].protocol = current.protocol /\ files'[f].text = text
  BY <1>1, <1>2, CommitEffect
<1>6. files'[f].impl = current.impl
  BY <1>1, <1>2, CommitEffect
<1>7. committed' = current.namespace /\ current'.namespace = current.namespace
  BY <1>1, <1>2, CommitEffect
<1>8. /\ entry.of = of /\ IsText(files[f].text)
      /\ files'[f].text = Append(files[f].text, entry)
  BY <1>2, <1>3, <1>4, <1>5
<1> QED BY <1>4, <1>5, <1>6, <1>7, <1>8, Zenon

-----------------------------------------------------------------------------
(* Which files count as extra code *)

QueueCode ==
  /\ mode = "body" => current.file = Head(queue).file
  /\ stage = "util" => \A t \in ToSet(queue) : UtilTask(t, t.of.protocol)
  /\ stage = "impl" => \A t \in ToSet(queue) : ImplTask(t, t.of.protocol)
  /\ stage = "client" => ToSet(queue) \subseteq ToSet(ClientTasks(world.client))

UtilFile(f, p) == \E t : UtilTask(t, p) /\ t.file = f
ImplFile(f, p) == \E t : ImplTask(t, p) /\ t.file = f

FileCode ==
  \A f \in DOMAIN files : \A p : files[f].protocol = p /\ p # None =>
    \/ files[f].impl = FALSE /\ UtilFile(f, p)
    \/ files[f].impl = TRUE /\ ImplFile(f, p)

UtilMarked(f, p) == f \in DOMAIN files /\ files[f].protocol = p /\ files[f].impl = FALSE
ImplMarked(f, p) == f \in DOMAIN files /\ files[f].protocol = p /\ files[f].impl = TRUE

ToCome(t, p) == p \in ToSet(protocols) \/ t \in ToSet(queue)
UtilDone(t, p) == UtilMarked(t.file, p) \/ stage = "failed" \/ (stage = "util" /\ ToCome(t, p))
ImplDone(t, p) ==
  ImplMarked(t.file, p) \/ stage \in {"util", "failed"} \/ (stage = "impl" /\ ToCome(t, p))

CodeDone ==
  \A t, p : (UtilTask(t, p) => UtilDone(t, p)) /\ (ImplTask(t, p) => ImplDone(t, p))

CodeInv == QueueCode /\ FileCode /\ CodeDone

LEMMA HeadTail ==
  ASSUME NEW s, s \in Seq(ToSet(s)), s # <<>>
  PROVE  ToSet(s) = {Head(s)} \cup ToSet(Tail(s))
<1> DEFINE S == ToSet(s)
<1>1. s \in Seq(S)
  OBVIOUS
<1> HIDE DEF S
<1>2. PICK t, n : t = Tail(s) /\ n = Len(s)
  OBVIOUS
<1>3. /\ Head(s) = s[1] /\ n \in Nat \ {0} /\ DOMAIN s = 1 .. n
      /\ t \in Seq(S) /\ Len(t) = n - 1 /\ \A j \in 1 .. n - 1 : t[j] = s[j + 1]
  BY <1>1, <1>2, TailAt
<1>4. DOMAIN t = 1 .. n - 1
  BY <1>3
<1>5. ToSet(t) = {t[j] : j \in 1 .. n - 1} /\ ToSet(s) = {s[j] : j \in 1 .. n}
  BY <1>3, <1>4 DEF ToSet
<1>6. ASSUME NEW j \in 1 .. n, j # 1
      PROVE  j - 1 \in 1 .. n - 1 /\ s[j] = t[j - 1]
  <2>1. j - 1 \in 1 .. n - 1 /\ (j - 1) + 1 = j
    BY <1>3, <1>6
  <2> QED BY <1>3, <2>1
<1>7. ASSUME NEW j \in 1 .. n - 1
      PROVE  j + 1 \in 1 .. n /\ t[j] = s[j + 1]
  BY <1>3
<1>8. 1 \in 1 .. n
  BY <1>3
<1>9. ASSUME NEW x \in ToSet(s), x # s[1]
      PROVE  x \in ToSet(t)
  BY <1>5, <1>6, <1>9
<1>10. ToSet(t) \subseteq ToSet(s) /\ s[1] \in ToSet(s)
  BY <1>5, <1>7, <1>8
<1>11. ToSet(s) = {s[1]} \cup ToSet(t)
  BY <1>9, <1>10
<1> QED BY <1>2, <1>3, <1>11, Zenon

LEMMA TaskOf ==
  ASSUME NEW templates, NEW protocol, NEW dir, NEW package, NEW impl,
         NEW t \in ToSet(Tasks(templates, protocol, dir, package, impl))
  PROVE  t.of.protocol = protocol /\ t.of.impl = impl
<1>1. PICK i \in DOMAIN templates :
        t = [of |-> [protocol |-> protocol, impl |-> impl], package |-> package,
             file |-> [dir |-> dir, name |-> templates[i].name], script |-> templates[i].script]
  BY DEF ToSet, Tasks
<1>2. t.of = [protocol |-> protocol, impl |-> impl]
  BY <1>1, Zenon
<1> QED BY <1>2, CodeFields, Zenon

LEMMA CodeOf ==
  ASSUME NEW t, NEW p
  PROVE  /\ UtilTask(t, p) => t.of.protocol = p /\ t.of.impl = FALSE
         /\ ImplTask(t, p) => t.of.protocol = p /\ t.of.impl = TRUE
<1>1. UtilTask(t, p) => t.of.protocol = p /\ t.of.impl = FALSE
  <2> SUFFICES ASSUME UtilTask(t, p)
               PROVE  t.of.protocol = p /\ t.of.impl = FALSE
    OBVIOUS
  <2>1. PICK templates, dir, package, impl :
          impl = FALSE /\ UtilTasks(world.config, p) = Tasks(templates, p, dir, package, impl)
    BY DEF UtilTasks
  <2>2. t \in ToSet(Tasks(templates, p, dir, package, impl))
    BY <2>1, Zenon DEF UtilTask
  <2>3. t.of.protocol = p /\ t.of.impl = impl
    BY <2>2, TaskOf
  <2> QED BY <2>1, <2>3
<1>2. ImplTask(t, p) => t.of.protocol = p /\ t.of.impl = TRUE
  <2> SUFFICES ASSUME ImplTask(t, p)
               PROVE  t.of.protocol = p /\ t.of.impl = TRUE
    OBVIOUS
  <2>1. PICK templates, dir, package, impl :
          impl = TRUE /\ ImplTasks(world.config, p) = Tasks(templates, p, dir, package, impl)
    BY DEF ImplTasks
  <2>2. t \in ToSet(Tasks(templates, p, dir, package, impl))
    BY <2>1, Zenon DEF ImplTask
  <2>3. t.of.protocol = p /\ t.of.impl = impl
    BY <2>2, TaskOf
  <2> QED BY <2>1, <2>3
<1> QED BY <1>1, <1>2

LEMMA FileKept ==
  ASSUME world' = world, NEW f, NEW p
  PROVE  (UtilFile(f, p)' <=> UtilFile(f, p)) /\ (ImplFile(f, p)' <=> ImplFile(f, p))
BY TaskKept DEF UtilFile, ImplFile

LEMMA KeptCode ==
  ASSUME world' = world, MarksKept, FileCode
  PROVE  /\ FileCode'
         /\ \A f, p : UtilMarked(f, p) => UtilMarked(f, p)'
         /\ \A f, p : ImplMarked(f, p) => ImplMarked(f, p)'
<1>1. ASSUME NEW f, NEW p
      PROVE  (UtilFile(f, p)' <=> UtilFile(f, p)) /\ (ImplFile(f, p)' <=> ImplFile(f, p))
  BY FileKept
<1>2. FileCode'
  <2>1. SUFFICES ASSUME NEW f \in DOMAIN files', NEW p, files'[f].protocol = p, p # None
                 PROVE  \/ files'[f].impl = FALSE /\ UtilFile(f, p)'
                        \/ files'[f].impl = TRUE /\ ImplFile(f, p)'
    BY DEF FileCode
  <2>2. f \in DOMAIN files /\ files'[f].protocol = files[f].protocol /\ files'[f].impl = files[f].impl
    BY <2>1 DEF MarksKept
  <2>3. \/ files[f].impl = FALSE /\ UtilFile(f, p)
        \/ files[f].impl = TRUE /\ ImplFile(f, p)
    BY <2>1, <2>2 DEF FileCode
  <2> QED BY <1>1, <2>2, <2>3
<1>5. DOMAIN files \subseteq DOMAIN files'
  BY DEF MarksKept, TextsKept
<1> QED BY <1>2, <1>5 DEF MarksKept, UtilMarked, ImplMarked

(* A step that commits nothing leaves the marks of extra code and what is  *)
(* still to come.                                                          *)
LEMMA QuietCode ==
  ASSUME CodeInv, world' = world, MarksKept, QueueCode',
         stage = "failed" => stage' = "failed",
         stage = "util" => \/ stage' \in {"util", "failed"}
                           \/ stage' = "impl" /\ protocols = <<>> /\ queue = <<>>,
         stage = "impl" => stage' \in {"impl", "failed"} \/ (protocols = <<>> /\ queue = <<>>),
         \A t, p : UtilTask(t, p) /\ stage' = "util" /\ ToCome(t, p) => ToCome(t, p)',
         \A t, p : ImplTask(t, p) /\ stage = "util" /\ stage' = "impl" => ToCome(t, p)',
         \A t, p : ImplTask(t, p) /\ stage = "impl" /\ stage' = "impl" /\ ToCome(t, p) => ToCome(t, p)'
  PROVE  CodeInv'
<1>1. /\ FileCode'
      /\ \A f, p : UtilMarked(f, p) => UtilMarked(f, p)'
      /\ \A f, p : ImplMarked(f, p) => ImplMarked(f, p)'
  BY KeptCode DEF CodeInv
<1>2. \A t, p : protocols = <<>> /\ queue = <<>> => ~ToCome(t, p)
  BY EmptyText DEF ToCome
<1>3. CodeDone'
  <2>1. SUFFICES ASSUME NEW t, NEW p
                 PROVE  (UtilTask(t, p)' => UtilDone(t, p)') /\ (ImplTask(t, p)' => ImplDone(t, p)')
    BY DEF CodeDone
  <2>2. PICK f : f = t.file
    OBVIOUS
  <2>3. UtilTask(t, p) => UtilMarked(f, p) \/ stage = "failed" \/ (stage = "util" /\ ToCome(t, p))
    BY <2>2 DEF CodeInv, CodeDone, UtilDone
  <2>4. ImplTask(t, p) =>
          ImplMarked(f, p) \/ stage \in {"util", "failed"} \/ (stage = "impl" /\ ToCome(t, p))
    BY <2>2 DEF CodeInv, CodeDone, ImplDone
  <2>5. UtilTask(t, p) =>
          UtilMarked(f, p)' \/ stage' = "failed" \/ (stage' = "util" /\ ToCome(t, p)')
    BY <1>1, <1>2, <2>3
  <2>6. ImplTask(t, p) =>
          ImplMarked(f, p)' \/ stage' \in {"util", "failed"} \/ (stage' = "impl" /\ ToCome(t, p)')
    BY <1>1, <1>2, <2>4
  <2> QED BY <2>2, <2>5, <2>6, TaskKept DEF UtilDone, ImplDone
<1> QED BY <1>1, <1>3 DEF CodeInv

(* A committed file carries the marks of the template, and no other's.     *)
LEMMA CommitCode ==
  ASSUME NamesInv, CodeInv, Apart, CommitFile
  PROVE  CodeInv'
<1>1. /\ UNCHANGED <<world, stage, protocols>> /\ mode = "body" /\ mode' = "next" /\ left = <<>>
      /\ queue' = Tail(queue) /\ Commit(Head(queue).of)
  BY DEF CommitFile
<1>2. /\ StateInv /\ stage \in {"util", "impl", "objects", "client"}
      /\ queue # <<>> /\ queue \in Seq(ToSet(queue)) /\ MarkInv
  BY <1>1 DEF NamesInv, Inv, TasksInv, AreTasks, TextInv
<1>3. PICK u, f, of : u = Head(queue) /\ f = current.file /\ of = Head(queue).of
  OBVIOUS
<1>4. /\ f = u.file /\ u \in ToSet(queue) /\ ToSet(queue') \subseteq ToSet(queue)
      /\ ToSet(queue) = {u} \cup ToSet(queue')
  BY <1>1, <1>2, <1>3, HeadTail DEF CodeInv, QueueCode
<1>5. /\ f \in DOMAIN files /\ DOMAIN files' = DOMAIN files
      /\ \A g \in DOMAIN files : g # f => files'[g] = files[g]
      /\ files'[f].protocol = current.protocol /\ files'[f].impl = current.impl
  <2>1. Commit(of)
    BY <1>1, <1>3
  <2>2. StateInv /\ mode = "body" /\ f = current.file
    BY <1>1, <1>2, <1>3
  <2> QED BY <2>1, <2>2, CommitMarks
<1>6. CASE stage = "util"
  <2>1. UtilTask(u, u.of.protocol) /\ u.of = [protocol |-> current.protocol, impl |-> current.impl]
    BY <1>1, <1>2, <1>3, <1>4, <1>6 DEF CodeInv, QueueCode, MarkInv
  <2>2. u.of.protocol = current.protocol /\ u.of.impl = current.impl
    BY <2>1, CodeFields, Zenon
  <2>3. PICK q : q = current.protocol
    OBVIOUS
  <2>4. UtilTask(u, q) /\ files'[f].protocol = q /\ files'[f].impl = FALSE
    BY <1>5, <2>1, <2>2, <2>3, CodeOf
  <2>5. \A t, p : UtilTask(t, p) /\ t.file = f => p = q
    BY <1>3, <1>4, <2>4, FilesApart
  <2>6. \A t, p : UtilTask(t, p) /\ UtilMarked(t.file, p) => UtilMarked(t.file, p)'
    BY <1>5, <2>4, <2>5 DEF UtilMarked
  <2>7. \A t, p : UtilTask(t, p) /\ t.file = f => UtilMarked(t.file, p)'
    BY <1>5, <2>4, <2>5 DEF UtilMarked
  <2>8. ASSUME NEW t, NEW p, UtilTask(t, p)
        PROVE  UtilDone(t, p)'
    <3>1. UtilMarked(t.file, p) \/ ToCome(t, p)
      BY <1>6, <2>8 DEF CodeInv, CodeDone, UtilDone
    <3>2. ToCome(t, p) => t.file = f \/ ToCome(t, p)'
      BY <1>1, <1>4 DEF ToCome
    <3>3. UtilMarked(t.file, p)' \/ ToCome(t, p)'
      BY <2>6, <2>7, <2>8, <3>1, <3>2
    <3> QED BY <1>1, <1>6, <3>3 DEF UtilDone
  <2>9. CodeDone'
    BY <1>1, <1>6, <2>8, TaskKept DEF CodeDone, ImplDone
  <2>10. FileCode'
    <3>1. SUFFICES ASSUME NEW g \in DOMAIN files', NEW p, files'[g].protocol = p, p # None
                   PROVE  \/ files'[g].impl = FALSE /\ UtilFile(g, p)
                          \/ files'[g].impl = TRUE /\ ImplFile(g, p)
      BY <1>1, FileKept DEF FileCode
    <3>2. CASE g = f
      BY <1>4, <2>4, <3>1, <3>2 DEF UtilFile
    <3>3. CASE g # f
      BY <1>5, <3>1, <3>3 DEF CodeInv, FileCode
    <3> QED BY <3>2, <3>3
  <2>11. QueueCode'
    BY <1>1, <1>4, <1>6, TaskKept DEF CodeInv, QueueCode
  <2> QED BY <2>9, <2>10, <2>11 DEF CodeInv
<1>7. CASE stage = "impl"
  <2>1. ImplTask(u, u.of.protocol) /\ u.of = [protocol |-> current.protocol, impl |-> current.impl]
    BY <1>1, <1>2, <1>3, <1>4, <1>7 DEF CodeInv, QueueCode, MarkInv
  <2>2. u.of.protocol = current.protocol /\ u.of.impl = current.impl
    BY <2>1, CodeFields, Zenon
  <2>3. PICK q : q = current.protocol
    OBVIOUS
  <2>4. ImplTask(u, q) /\ files'[f].protocol = q /\ files'[f].impl = TRUE
    BY <1>5, <2>1, <2>2, <2>3, CodeOf
  <2>5. /\ \A t, p : ImplTask(t, p) /\ t.file = f => p = q
        /\ \A t, p : ~(UtilTask(t, p) /\ t.file = f)
    BY <1>3, <1>4, <2>4, FilesApart
  <2>6. /\ \A t, p : ImplTask(t, p) /\ ImplMarked(t.file, p) => ImplMarked(t.file, p)'
        /\ \A t, p : UtilTask(t, p) /\ UtilMarked(t.file, p) => UtilMarked(t.file, p)'
    BY <1>5, <2>4, <2>5 DEF ImplMarked, UtilMarked
  <2>7. \A t, p : ImplTask(t, p) /\ t.file = f => ImplMarked(t.file, p)'
    BY <1>5, <2>4, <2>5 DEF ImplMarked
  <2>8. ASSUME NEW t, NEW p, ImplTask(t, p)
        PROVE  ImplDone(t, p)'
    <3>1. ImplMarked(t.file, p) \/ ToCome(t, p)
      BY <1>7, <2>8 DEF CodeInv, CodeDone, ImplDone
    <3>2. ToCome(t, p) => t.file = f \/ ToCome(t, p)'
      BY <1>1, <1>4 DEF ToCome
    <3>3. ImplMarked(t.file, p)' \/ ToCome(t, p)'
      BY <2>6, <2>7, <2>8, <3>1, <3>2
    <3> QED BY <1>1, <1>7, <3>3 DEF ImplDone
  <2>9. ASSUME NEW t, NEW p, UtilTask(t, p)
        PROVE  UtilDone(t, p)'
    <3>1. UtilMarked(t.file, p)
      BY <1>7, <2>9 DEF CodeInv, CodeDone, UtilDone
    <3> QED BY <2>6, <2>9, <3>1 DEF UtilDone
  <2>10. CodeDone'
    BY <1>1, <2>8, <2>9, TaskKept DEF CodeDone
  <2>11. FileCode'
    <3>1. SUFFICES ASSUME NEW g \in DOMAIN files', NEW p, files'[g].protocol = p, p # None
                   PROVE  \/ files'[g].impl = FALSE /\ UtilFile(g, p)
                          \/ files'[g].impl = TRUE /\ ImplFile(g, p)
      BY <1>1, FileKept DEF FileCode
    <3>2. CASE g = f
      BY <1>4, <2>4, <3>1, <3>2 DEF ImplFile
    <3>3. CASE g # f
      BY <1>5, <3>1, <3>3 DEF CodeInv, FileCode
    <3> QED BY <3>2, <3>3
  <2>12. QueueCode'
    BY <1>1, <1>4, <1>7, TaskKept DEF CodeInv, QueueCode
  <2> QED BY <2>10, <2>11, <2>12 DEF CodeInv
<1>8. CASE stage \in {"objects", "client"}
  <2>1. current.protocol = files[f].protocol /\ current.impl = files[f].impl
    BY <1>1, <1>2, <1>3, <1>8 DEF MarkInv
  <2>2. \A g \in DOMAIN files : /\ files'[g].protocol = files[g].protocol
                                /\ files'[g].impl = files[g].impl
    BY <1>5, <2>1
  <2>3. FileCode'
    BY <1>1, <1>5, <2>2, FileKept DEF CodeInv, FileCode
  <2>4. /\ \A g, p : UtilMarked(g, p) => UtilMarked(g, p)'
        /\ \A g, p : ImplMarked(g, p) => ImplMarked(g, p)'
    BY <1>5, <2>2 DEF UtilMarked, ImplMarked
  <2>5. ASSUME NEW t, NEW p
        PROVE  /\ UtilTask(t, p) => UtilDone(t, p)'
               /\ ImplTask(t, p) => ImplDone(t, p)'
    BY <1>8, <2>4 DEF CodeInv, CodeDone, UtilDone, ImplDone
  <2>6. CodeDone'
    BY <1>1, <2>5, TaskKept DEF CodeDone
  <2>7. QueueCode'
    BY <1>1, <1>4, <1>8 DEF CodeInv, QueueCode
  <2> QED BY <2>3, <2>6, <2>7 DEF CodeInv
<1> QED BY <1>2, <1>6, <1>7, <1>8

LEMMA SameCode ==
  ASSUME CodeInv, world' = world, MarksKept, queue' = queue, protocols' = protocols,
         stage' = stage \/ stage' \in {"failed", "not pinned", "finished"},
         stage' # stage => stage' = "failed" \/ stage \in {"objects", "client"},
         mode' = "body" => current'.file = Head(queue).file
  PROVE  CodeInv'
<1>1. QueueCode'
  BY TaskKept DEF CodeInv, QueueCode
<1>2. \A t, p : ToCome(t, p)' <=> ToCome(t, p)
  BY DEF ToCome
<1>3. /\ stage = "failed" => stage' = "failed" \/ stage' \in {"not pinned", "finished"}
      /\ stage = "util" => stage' \in {"util", "failed"}
      /\ stage = "impl" => stage' \in {"impl", "failed"}
      /\ ~(stage = "util" /\ stage' = "impl")
  OBVIOUS
<1>4. stage = "failed" => stage' = "failed"
  OBVIOUS
<1>5. /\ \A t, p : UtilTask(t, p) /\ stage' = "util" /\ ToCome(t, p) => ToCome(t, p)'
      /\ \A t, p : ImplTask(t, p) /\ stage = "util" /\ stage' = "impl" => ToCome(t, p)'
      /\ \A t, p : ImplTask(t, p) /\ stage = "impl" /\ stage' = "impl" /\ ToCome(t, p) => ToCome(t, p)'
  BY <1>2, <1>3
<1> QED BY <1>1, <1>3, <1>4, <1>5, QuietCode

LEMMA CodeNext ==
  ASSUME NamesInv, CodeInv, Apart, [Next]_vars
  PROVE  CodeInv'
<1>1. world' = world /\ world \in Worlds /\ Shapes
  BY WorldKept DEF NamesInv, Inv, QueueInv, StateInv
<1>2. CASE NextProtocol
  <2>1. /\ UNCHANGED <<stage, mode, files, committed>> /\ mode = "next" /\ queue = <<>>
        /\ stage \in {"util", "impl"}
        /\ protocols # <<>> /\ protocols' = Tail(protocols)
        /\ queue' = IF stage = "util" THEN UtilTasks(world.config, Head(protocols))
                    ELSE ImplTasks(world.config, Head(protocols))
    BY <1>2 DEF NextProtocol, Idle, manager
  <2>2. PICK q : q = Head(protocols)
    OBVIOUS
  <2>3. /\ stage = "util" => protocols \in Seq(ToSet(world.util)) /\ q \in ToSet(world.util)
        /\ stage = "impl" => /\ protocols \in Seq(ToSet(world.impl)) /\ q \in ToSet(world.impl)
                             /\ ~world.config.off
    BY <2>1, <2>2 DEF NamesInv, TasksInv
  <2>4. protocols \in Seq(ToSet(protocols))
    BY <2>1, <2>3, SequenceSet
  <2>5. ToSet(protocols) = {q} \cup ToSet(protocols')
    BY <2>1, <2>2, <2>4, HeadTail
  <2>6. /\ stage = "util" => \A t : t \in ToSet(queue') <=> UtilTask(t, q)
        /\ stage = "impl" => \A t : t \in ToSet(queue') <=> ImplTask(t, q)
    BY <2>1, <2>2, <2>3 DEF UtilTask, ImplTask
  <2>7. QueueCode'
    <3>1. stage = "util" => \A t \in ToSet(queue') : UtilTask(t, t.of.protocol)
      BY <2>6, CodeOf
    <3>2. stage = "impl" => \A t \in ToSet(queue') : ImplTask(t, t.of.protocol)
      BY <2>6, CodeOf
    <3> QED BY <1>1, <2>1, <3>1, <3>2, TaskKept DEF QueueCode
  <2>8. ToSet(queue) = {}
    BY <2>1, EmptyText
  <2>9. \A t, p : UtilTask(t, p) /\ stage = "util" /\ ToCome(t, p) => ToCome(t, p)'
    BY <2>5, <2>6, <2>8 DEF ToCome
  <2>10. \A t, p : ImplTask(t, p) /\ stage = "impl" /\ ToCome(t, p) => ToCome(t, p)'
    BY <2>5, <2>6, <2>8 DEF ToCome
  <2>11. MarksKept
    BY <2>1, SameMarks
  <2> QED BY <1>1, <2>1, <2>7, <2>9, <2>10, <2>11, QuietCode
<1>3. CASE BeginTemplate
  <2>1. UNCHANGED <<stage, protocols, queue>>
    BY <1>3 DEF BeginTemplate
  <2>2. PICK t : t = Head(queue)
    OBVIOUS
  <2>3. \/ BeginFile(t.file, t.package)
        \/ \E protocol, impl : BeginExtraFile(t.file, t.package, protocol, impl)
    BY <1>3, <2>2 DEF BeginTemplate
  <2>4. MarksKept /\ current'.file = t.file
    BY <2>3, BeginMarks
  <2> QED BY <1>1, <2>1, <2>2, <2>4, SameCode
<1>4. CASE Fail \/ NotPinned \/ Finish
  <2>1. /\ UNCHANGED <<files, committed, current, queue, protocols, mode>>
        /\ stage' \in {"failed", "not pinned", "finished"}
        /\ stage' # "failed" => stage \in {"objects", "client"}
    BY <1>4 DEF Fail, NotPinned, Finish, manager, work
  <2>2. MarksKept
    BY <2>1, SameMarks
  <2>3. mode' = "body" => current'.file = Head(queue).file
    BY <2>1 DEF CodeInv, QueueCode
  <2> QED BY <1>1, <2>1, <2>2, <2>3, SameCode
<1>5. CASE BeginName
  <2>1. UNCHANGED <<stage, protocols, queue, files, committed>> /\ mode' = "name"
    BY <1>5 DEF BeginName, manager
  <2> QED BY <1>1, <2>1, SameMarks, SameCode
<1>6. CASE BeginBody
  <2>1. UNCHANGED <<stage, protocols, queue>>
    BY <1>6 DEF BeginBody
  <2>2. PICK t : t = Head(queue)
    OBVIOUS
  <2>3. BeginFile(t.file, t.package)
    BY <1>6, <2>2 DEF BeginBody
  <2>4. MarksKept /\ current'.file = t.file
    BY <2>3, BeginMarks
  <2> QED BY <1>1, <2>1, <2>2, <2>4, SameCode
<1>7. CASE Execute
  <2>1. UNCHANGED <<stage, protocols, queue, mode>>
    BY <1>7 DEF Execute
  <2>2. PICK call : call = Head(left)
    OBVIOUS
  <2>3. Call(call)
    BY <1>7, <2>2 DEF Execute
  <2>4. MarksKept /\ current'.file = current.file
    BY <1>1, <2>3, CallMarks
  <2>5. mode' = "body" => current'.file = Head(queue).file
    BY <2>1, <2>4 DEF CodeInv, QueueCode
  <2> QED BY <1>1, <2>1, <2>4, <2>5, SameCode
<1>8. CASE CommitFile
  BY <1>8, CommitCode
<1>9. CASE Postpone \/ NextPass \/ StartClient
  <2>1. /\ UNCHANGED <<files, committed>> /\ mode' = "next"
        /\ stage = "objects" /\ stage' \in {"objects", "client"}
        /\ stage' = "client" => queue' = ClientTasks(world.client)
    BY <1>9 DEF Postpone, NextPass, StartClient, Idle, manager
  <2>2. MarksKept
    BY <2>1, SameMarks
  <2>3. QueueCode'
    BY <1>1, <2>1 DEF QueueCode
  <2> QED BY <1>1, <2>1, <2>2, <2>3, QuietCode
<1>10. CASE StartImplementations
  <2>1. /\ UNCHANGED <<files, committed, queue, mode>> /\ mode = "next" /\ queue = <<>>
        /\ stage = "util" /\ stage' = "impl" /\ protocols = <<>>
        /\ protocols' = IF world.config.off THEN <<>> ELSE world.impl
    BY <1>10 DEF StartImplementations, Idle, manager
  <2>2. MarksKept
    BY <2>1, SameMarks
  <2>3. QueueCode'
    BY <2>1, EmptyText DEF QueueCode
  <2>4. \A t, p : ImplTask(t, p) => ToCome(t, p)'
    BY <2>1 DEF ImplTask, ToCome
  <2> QED BY <1>1, <2>1, <2>2, <2>3, <2>4, QuietCode
<1>11. CASE StartObjects
  <2>1. /\ UNCHANGED <<files, committed, mode>> /\ mode = "next" /\ queue = <<>>
        /\ stage = "impl" /\ stage' = "objects" /\ protocols = <<>>
    BY <1>11 DEF StartObjects, Idle, manager
  <2>2. MarksKept
    BY <2>1, SameMarks
  <2>3. QueueCode'
    BY <2>1 DEF QueueCode
  <2> QED BY <1>1, <2>1, <2>2, <2>3, QuietCode
<1>12. CASE UNCHANGED vars
  <2>1. UNCHANGED <<stage, files, committed, current, queue, protocols, mode>>
    BY <1>12 DEF vars, work, manager
  <2>2. mode' = "body" => current'.file = Head(queue).file
    BY <2>1 DEF CodeInv, QueueCode
  <2> QED BY <1>1, <2>1, <2>2, SameMarks, SameCode
<1> QED
  BY <1>2, <1>3, <1>4, <1>5, <1>6, <1>7, <1>8, <1>9, <1>10, <1>11, <1>12 DEF Next

LEMMA InitCode == Init => CodeInv
<1> SUFFICES ASSUME Init
             PROVE  CodeInv
  OBVIOUS
<1>1. /\ DOMAIN files = {} /\ mode = "next" /\ queue = <<>> /\ stage = "util"
      /\ protocols = world.util
  BY DEF Init, InitManager
<1>2. QueueCode /\ FileCode
  BY <1>1, EmptyText DEF QueueCode, FileCode
<1>3. CodeDone
  BY <1>1 DEF CodeDone, UtilDone, ImplDone, ToCome, UtilTask
<1> QED BY <1>2, <1>3 DEF CodeInv

(* What is called for is there when it is provided, and only then.         *)
LEMMA CodeIsThere ==
  ASSUME NamesInv, CodeInv, NEW p, p # None
  PROVE  /\ ExtraFiles(p, FALSE) # {} => UtilProvided(p)
         /\ ExtraFiles(p, TRUE) # {} => ImplProvided(p)
         /\ stage \in {"impl", "objects", "client"} /\ UtilProvided(p) => ExtraFiles(p, FALSE) # {}
         /\ stage \in {"objects", "client"} /\ ImplProvided(p) => ExtraFiles(p, TRUE) # {}
<1>1. world \in Worlds
  BY DEF NamesInv, Inv, QueueInv
<1>2. PICK util, impl : util = FALSE /\ impl = TRUE
  OBVIOUS
<1>3. \A m : ExtraFiles(p, m) = {f \in DOMAIN files : files[f].protocol = p /\ files[f].impl = m}
  BY DEF ExtraFiles
<1>4. ASSUME NEW f \in DOMAIN files, files[f].protocol = p
      PROVE  /\ files[f].impl = FALSE => UtilProvided(p)
             /\ files[f].impl = TRUE => ImplProvided(p)
  <2>1. \/ files[f].impl = FALSE /\ UtilFile(f, p)
        \/ files[f].impl = TRUE /\ ImplFile(f, p)
    BY <1>4 DEF CodeInv, FileCode
  <2>2. /\ UtilFile(f, p) => UtilProvided(p)
        /\ ImplFile(f, p) => ImplProvided(p)
    BY <1>1, ProvidedByTask DEF UtilFile, ImplFile
  <2> QED BY <2>1, <2>2
<1>5. ExtraFiles(p, util) # {} => UtilProvided(p)
  BY <1>2, <1>3, <1>4
<1>6. ExtraFiles(p, impl) # {} => ImplProvided(p)
  BY <1>2, <1>3, <1>4
<1>7. stage \in {"impl", "objects", "client"} /\ UtilProvided(p) => ExtraFiles(p, util) # {}
  <2> SUFFICES ASSUME stage \in {"impl", "objects", "client"}, UtilProvided(p)
               PROVE  ExtraFiles(p, util) # {}
    OBVIOUS
  <2>1. PICK t : UtilTask(t, p)
    BY <1>1, ProvidedByTask
  <2>2. UtilMarked(t.file, p)
    BY <2>1 DEF CodeInv, CodeDone, UtilDone
  <2> QED BY <1>2, <1>3, <2>2 DEF UtilMarked
<1>8. stage \in {"objects", "client"} /\ ImplProvided(p) => ExtraFiles(p, impl) # {}
  <2> SUFFICES ASSUME stage \in {"objects", "client"}, ImplProvided(p)
               PROVE  ExtraFiles(p, impl) # {}
    OBVIOUS
  <2>1. PICK t : ImplTask(t, p)
    BY <1>1, ProvidedByTask
  <2>2. ImplMarked(t.file, p)
    BY <2>1 DEF CodeInv, CodeDone, ImplDone
  <2> QED BY <1>2, <1>3, <2>2 DEF ImplMarked
<1> QED BY <1>2, <1>5, <1>6, <1>7, <1>8, Zenon

(* A call that does not fail finds what it needs, and one that finds it    *)
(* does not fail, once the code it needs has been written.                 *)
LEMMA FailsBy ==
  ASSUME NamesInv, CodeInv, NEW call, call.do \in {"util", "impl", "unlessImpl"} => call.of # None
  PROVE  /\ ~Fails(call) => Met(call, Pinned)
         /\ stage \in {"objects", "client"} => (Met(call, Pinned) => ~Fails(call))
         /\ stage = "impl" /\ call.do # "impl" => (Met(call, Pinned) => ~Fails(call))
         /\ call.do = "unlessImpl" /\ ExtraFiles(call.of, TRUE) # {} => ImplProvided(call.of)
         /\ call.do = "unlessImpl" /\ stage \in {"objects", "client"} /\ ImplProvided(call.of) =>
              ExtraFiles(call.of, TRUE) # {}
<1>1. PICK p : p = call.of
  OBVIOUS
<1>2. PICK U, I : U = ExtraFiles(p, FALSE) /\ I = ExtraFiles(p, TRUE)
  OBVIOUS
<1>3. p # None =>
        /\ U # {} => UtilProvided(p)
        /\ I # {} => ImplProvided(p)
        /\ stage \in {"impl", "objects", "client"} /\ UtilProvided(p) => U # {}
        /\ stage \in {"objects", "client"} /\ ImplProvided(p) => I # {}
  BY <1>2, CodeIsThere, Zenon
<1>4. Fails(call) <=> \/ call.do = "use" /\ p \notin Pinned
                      \/ call.do = "util" /\ U = {}
                      \/ call.do = "impl" /\ I = {}
  BY <1>1, <1>2, Zenon DEF Fails, IsPinned, Pinned
<1>5. Met(call, Pinned) <=> /\ call.do = "use" => p \in Pinned
                            /\ call.do = "util" => UtilProvided(p)
                            /\ call.do = "impl" => ImplProvided(p)
  BY <1>1, MetBy
<1>6. /\ ~Fails(call) => Met(call, Pinned)
      /\ stage \in {"objects", "client"} => (Met(call, Pinned) => ~Fails(call))
      /\ stage = "impl" /\ call.do # "impl" => (Met(call, Pinned) => ~Fails(call))
      /\ call.do = "unlessImpl" /\ I # {} => ImplProvided(p)
      /\ call.do = "unlessImpl" /\ stage \in {"objects", "client"} /\ ImplProvided(p) => I # {}
  BY <1>1, <1>3, <1>4, <1>5
<1> QED BY <1>1, <1>2, <1>6, Zenon

-----------------------------------------------------------------------------
(* What an attempt has executed, and what is settled of what "once" guards *)

(* The call is guarded by a "once" of x. *)
Guards(x, call) ==
  \E s \in AllScripts : \E k \in DOMAIN s :
    s[k].do = "once" /\ s[k].of = x /\ call \in Guarded(s, k)

Settled(call, pinned) == Met(call, pinned) /\ (call.do = "pin" => call.of \in pinned)

(* What has been asked for once has been executed, or is the next call.    *)
Kept(once, pinned, pending) ==
  \A x \in once : \A call : Guards(x, call) => Settled(call, pinned) \/ call \in pending

NextCall == {call \in {Head(left)} : left # <<>>}

OnceKept ==
  stage \in {"util", "impl", "objects"} =>
    /\ Kept(committed.once, Settling, {})
    /\ mode = "body" => Kept(current.namespace.once, Pinned, NextCall)

(* The calls before the k-th one have been executed or were left out.      *)
Executed(s, k) ==
  /\ PinsBefore(s, k) \subseteq Pinned
  /\ Pinned \subseteq Settling \cup PinsBefore(s, k)
  /\ \A j \in 1 .. k - 1 : Skipped(s, j) \/ Met(s[j], Settling \cup PinsBefore(s, j))

IsNext(s, k) == k \in DOMAIN s => ~Skipped(s, k)

NameAt(k) == IsFrom(left, Head(queue).name, k) /\ IsNext(Head(queue).name, k)
BodyAt(k) ==
  /\ IsFrom(left, Head(queue).script, k)
  /\ stage = "objects" => IsNext(Head(queue).script, k) /\ Executed(Head(queue).script, k)

AtInv ==
  /\ mode = "name" => \E k : NameAt(k)
  /\ mode = "body" => \E k : BodyAt(k)

GrowInv ==
  /\ Settling \subseteq Pinned
  /\ stage \in {"util", "impl"} => Pinned = {}

AttemptsInv == OnceKept /\ AtInv /\ GrowInv

LEMMA GuardedCalls ==
  ASSUME NEW s, NEW k, NEW call
  PROVE  call \in Guarded(s, k) <=> k + 1 \in DOMAIN s /\ call = s[k + 1]
BY DEF Guarded

LEMMA SettledMore ==
  ASSUME NEW call, NEW P, NEW Q, P \subseteq Q, Settled(call, P)
  PROVE  Settled(call, Q)
BY MetMore DEF Settled

LEMMA KeptMore ==
  ASSUME NEW once, NEW P, NEW pending, Kept(once, P, {})
  PROVE  Kept(once, P, pending)
BY DEF Kept

LEMMA GuardsKept ==
  ASSUME world' = world, NEW call
  PROVE  /\ \A x : Guards(x, call)' <=> Guards(x, call)
         /\ \A P : Settled(call, P)' <=> Settled(call, P)
<1>1. AllScripts' = AllScripts
  BY ItemsKept
<1>2. \A x : Guards(x, call)' <=> Guards(x, call)
  BY <1>1 DEF Guards
<1>3. \A P : Settled(call, P)' <=> Settled(call, P)
  BY MetKept DEF Settled
<1> QED BY <1>2, <1>3

LEMMA KeptSame ==
  ASSUME world' = world, NEW once, NEW P, NEW pending
  PROVE  Kept(once, P, pending)' <=> Kept(once, P, pending)
BY GuardsKept DEF Kept

(* The calls that come next. *)
Skips(call) ==
  \/ call.do = "once" /\ ~IsFirst(call.of)
  \/ call.do = "unlessImpl" /\ ExtraFiles(call.of, TRUE) # {}

LEMMA RestIs ==
  ASSUME NEW s, s \in Seq(ToSet(s)), NEW k, IsFrom(left, s, k), left # <<>>
  PROVE  /\ k \in DOMAIN s /\ k \in Nat /\ k >= 1 /\ Head(left) = s[k] /\ Head(left) \in ToSet(s)
         /\ Skips(Head(left)) /\ k + 1 \in DOMAIN s => IsFrom(Rest(left), s, k + 2)
         /\ ~(Skips(Head(left)) /\ k + 1 \in DOMAIN s) => IsFrom(Rest(left), s, k + 1)
<1>1. /\ k \in DOMAIN s /\ k \in Nat /\ k >= 1 /\ Head(left) = s[k] /\ Head(left) \in ToSet(s)
      /\ IsFrom(Tail(left), s, k + 1)
      /\ Len(left) > 1 => k + 1 \in DOMAIN s /\ IsFrom(Tail(Tail(left)), s, k + 2)
      /\ ~(Len(left) > 1) => k + 1 \notin DOMAIN s
  BY FromRest
<1>2. Rest(left) = IF Skips(Head(left)) /\ Len(left) > 1 THEN Tail(Tail(left)) ELSE Tail(left)
  BY Zenon DEF Rest, Skips
<1> QED BY <1>1, <1>2

LEMMA NextIs ==
  ASSUME NEW l, NEW s, s \in Seq(ToSet(s)), NEW k, IsFrom(l, s, k)
  PROVE  /\ k \in DOMAIN s => l # <<>> /\ Head(l) = s[k]
         /\ k \notin DOMAIN s <=> l = <<>>
         /\ l = <<>> => k = Len(s) + 1
         /\ k \in Nat /\ k >= 1
<1> DEFINE S == ToSet(s)
<1>1. s \in Seq(S) /\ l \in Seq(S)
  BY DEF IsFrom
<1> HIDE DEF S
<1>2. PICK m, n : m = Len(s) /\ n = Len(l)
  OBVIOUS
<1>3. m \in Nat /\ n \in Nat /\ DOMAIN s = 1 .. m /\ ((l = <<>>) <=> (n = 0))
  BY <1>1, <1>2
<1>4. k \in 1 .. m + 1 /\ n = m + 1 - k
  BY <1>2 DEF IsFrom
<1>5. (k \notin DOMAIN s) <=> (n = 0)
  BY <1>3, <1>4
<1>6. l # <<>> => Head(l) = s[k]
  BY FromTail
<1> QED BY <1>2, <1>3, <1>4, <1>5, <1>6

LEMMA ScriptIs ==
  ASSUME NamesInv, CodeInv, mode # "next"
  PROVE  /\ Head(queue).script \in Seq(ToSet(Head(queue).script))
         /\ stage \in {"util", "impl", "objects"} => Head(queue).script \in AllScripts
         /\ stage \in {"util", "impl"} => \A call \in ToSet(Head(queue).script) : call.do # "pin"
         /\ stage = "objects" =>
              /\ Head(queue) \in Items
              /\ Head(queue).name \in Seq(ToSet(Head(queue).name))
              /\ IsFlat(Head(queue).script) /\ IsFlat(Head(queue).name)
              /\ \A call \in ToSet(Head(queue).name) : call.do # "pin" /\ call.do # "once"
<1>1. /\ world \in Worlds /\ queue # <<>> /\ AreTasks(queue)
      /\ stage = "objects" => queue \in Seq(Items)
  BY DEF NamesInv, Inv, QueueInv, TasksInv
<1>2. PICK t : t = Head(queue)
  OBVIOUS
<1>3. IsTask(t) /\ t \in ToSet(queue)
  BY <1>1, <1>2, TailTasks, TailSet DEF AreTasks
<1>4. t.script \in Seq(ToSet(t.script))
  BY <1>3 DEF IsTask, IsScript
<1>5. stage = "util" => UtilTask(t, t.of.protocol)
  BY <1>3 DEF CodeInv, QueueCode
<1>6. stage = "impl" => ImplTask(t, t.of.protocol)
  BY <1>3 DEF CodeInv, QueueCode
<1>7. stage \in {"util", "impl"} => UsesNoObject(t) /\ t.script \in AllScripts
  BY <1>1, <1>5, <1>6, TaskScripts
<1>8. stage = "objects" => t \in Items
  BY <1>1, <1>2
<1>9. t \in Items => t.script \in AllScripts
  BY DEF AllScripts
<1>10. t \in Items => /\ IsScript(t.name) /\ IsFlat(t.name) /\ IsFlat(t.script)
                      /\ \A call \in ToSet(t.name) : call.do # "pin" /\ call.do # "once"
  BY <1>1, RenderingAssumption DEF Items
<1>11. stage \in {"util", "impl"} => \A call \in ToSet(t.script) : call.do # "pin"
  BY <1>7 DEF UsesNoObject
<1> QED BY <1>2, <1>4, <1>7, <1>8, <1>9, <1>10, <1>11 DEF IsScript

(* A call is executed. *)
LEMMA ExecuteFacts ==
  ASSUME NamesInv, CodeInv, Execute, NEW s, s \in Seq(ToSet(s)), NEW k, IsFrom(left, s, k)
  PROVE  /\ k \in DOMAIN s /\ k \in Nat /\ k >= 1 /\ s[k] = Head(left) /\ s[k] \in ToSet(s)
         /\ Skips(s[k]) /\ k + 1 \in DOMAIN s => IsFrom(left', s, k + 2)
         /\ ~(Skips(s[k]) /\ k + 1 \in DOMAIN s) => IsFrom(left', s, k + 1)
         /\ Call(s[k]) /\ Met(s[k], Pinned) /\ Settling' = Settling
         /\ s[k].do = "unlessImpl" /\ Skips(s[k]) => ImplProvided(s[k].of)
         /\ s[k].do = "unlessImpl" /\ ~Skips(s[k]) /\ stage = "objects" => ~ImplProvided(s[k].of)
         /\ s[k].do \notin {"once", "unlessImpl"} => ~Skips(s[k])
         /\ s[k].do = "once" => (Skips(s[k]) <=> s[k].of \in current.namespace.once)
<1>1. /\ left # <<>> /\ left' = Rest(left) /\ Call(Head(left)) /\ IsScript(left)
      /\ Shapes
  BY DEF Execute, NamesInv, TasksInv, Inv, StateInv
<1>2. PICK c : c = Head(left)
  OBVIOUS
<1>3. /\ k \in DOMAIN s /\ k \in Nat /\ k >= 1 /\ c = s[k] /\ c \in ToSet(s)
      /\ Skips(c) /\ k + 1 \in DOMAIN s => IsFrom(left', s, k + 2)
      /\ ~(Skips(c) /\ k + 1 \in DOMAIN s) => IsFrom(left', s, k + 1)
  BY <1>1, <1>2, RestIs
<1>4. ~Fails(c)
  BY <1>1, <1>2, Zenon DEF Call
<1>5. c.do \in {"util", "impl", "unlessImpl"} => c.of # None
  BY <1>1, <1>2, TailSet DEF IsScript
<1>6. Met(c, Pinned)
  BY <1>4, <1>5, FailsBy
<1>7. MarksKept
  BY <1>1, <1>2, CallMarks
<1>8. Settling' = Settling
  BY <1>7 DEF MarksKept, TextsKept, Settling
<1>9. PICK I : I = ExtraFiles(c.of, TRUE)
  OBVIOUS
<1>10. /\ c.do = "unlessImpl" /\ I # {} => ImplProvided(c.of)
       /\ c.do = "unlessImpl" /\ stage \in {"objects", "client"} /\ ImplProvided(c.of) => I # {}
  BY <1>5, <1>9, FailsBy, Zenon
<1>11. Skips(c) <=> \/ c.do = "once" /\ c.of \in current.namespace.once
                    \/ c.do = "unlessImpl" /\ I # {}
  BY <1>9, Zenon DEF Skips, IsFirst
<1>12. /\ c.do = "unlessImpl" /\ Skips(c) => ImplProvided(c.of)
       /\ c.do = "unlessImpl" /\ ~Skips(c) /\ stage = "objects" => ~ImplProvided(c.of)
       /\ c.do \notin {"once", "unlessImpl"} => ~Skips(c)
       /\ c.do = "once" => (Skips(c) <=> c.of \in current.namespace.once)
  BY <1>10, <1>11
<1> QED BY <1>1, <1>2, <1>3, <1>6, <1>8, <1>12

(* What is guarded is executed right after the first who asks for it.      *)
LEMMA ExecuteKept ==
  ASSUME NamesInv, CodeInv, OnceAgrees, Execute,
         NEW s \in AllScripts, s \in Seq(ToSet(s)), NEW k, IsFrom(left, s, k),
         Kept(current.namespace.once, Pinned, NextCall)
  PROVE  Kept(current'.namespace.once, Pinned', NextCall')
<1>1. PICK c : c = s[k]
  OBVIOUS
<1>2. /\ k \in DOMAIN s /\ k \in Nat /\ k >= 1 /\ c = Head(left)
      /\ ~(Skips(c) /\ k + 1 \in DOMAIN s) => IsFrom(left', s, k + 1)
      /\ Call(c) /\ Met(c, Pinned)
      /\ c.do = "once" => (Skips(c) <=> c.of \in current.namespace.once)
  BY <1>1, ExecuteFacts
<1>3. Shapes
  BY DEF NamesInv, Inv, StateInv
<1>4. /\ c.do = "pin" => Pinned' = Pinned \cup {c.of}
      /\ c.do # "pin" => Pinned' = Pinned
      /\ c.do = "once" => current'.namespace.once = current.namespace.once \cup {c.of}
      /\ c.do # "once" => current'.namespace.once = current.namespace.once
  BY <1>2, <1>3, CallMarks
<1>5. SUFFICES ASSUME NEW x \in current'.namespace.once, NEW call, Guards(x, call)
               PROVE  Settled(call, Pinned') \/ call \in NextCall'
  BY DEF Kept
<1>6. CASE x \in current.namespace.once
  <2>1. CASE Settled(call, Pinned)
    BY <1>4, <2>1, SettledMore
  <2>2. CASE call \in NextCall
    <3>1. call = c
      BY <1>2, <2>2 DEF NextCall
    <3>2. Met(call, Pinned')
      BY <1>2, <1>4, <3>1, MetMore
    <3> QED BY <1>4, <3>1, <3>2 DEF Settled
  <2> QED BY <1>5, <1>6, <2>1, <2>2 DEF Kept
<1>7. CASE x \notin current.namespace.once
  <2>1. c.do = "once" /\ x = c.of /\ ~Skips(c)
    BY <1>2, <1>4, <1>5, <1>7
  <2>2. call \in Guarded(s, k)
    <3>0. PICK t \in AllScripts :
            \E l \in DOMAIN t : t[l].do = "once" /\ t[l].of = x /\ call \in Guarded(t, l)
      BY <1>5 DEF Guards
    <3>1. PICK l \in DOMAIN t : t[l].do = "once" /\ t[l].of = x /\ call \in Guarded(t, l)
      BY <3>0
    <3>2. s[k].do = "once" /\ s[k].of = x
      BY <1>1, <2>1
    <3>3. Guarded(s, k) = Guarded(t, l)
      BY <1>2, <3>1, <3>2 DEF OnceAgrees
    <3> QED BY <3>1, <3>3
  <2>3. k + 1 \in DOMAIN s /\ call = s[k + 1]
    BY <2>2, GuardedCalls
  <2>4. IsFrom(left', s, k + 1)
    BY <1>2, <2>1
  <2>5. PICK l : l = left'
    OBVIOUS
  <2>6. l # <<>> /\ Head(l) = call
    BY <2>3, <2>4, <2>5, NextIs
  <2> QED BY <2>5, <2>6 DEF NextCall
<1> QED BY <1>6, <1>7

LEMMA NextPins ==
  ASSUME NEW s, NEW k \in Nat, k >= 1, Skipped(s, k) \/ s[k].do # "pin"
  PROVE  PinsBefore(s, k + 1) = PinsBefore(s, k)
<1>1. /\ PinsBefore(s, k) \subseteq PinsBefore(s, k + 1)
      /\ \A x \in PinsBefore(s, k + 1) :
           x \in PinsBefore(s, k) \/ (s[k].do = "pin" /\ ~Skipped(s, k) /\ x = s[k].of)
  BY PinsBeforeNext
<1> QED BY <1>1

(* What is next is not left out, and everything before has been executed.  *)
LEMMA ExecuteNext ==
  ASSUME NamesInv, CodeInv, Execute, stage = "objects",
         NEW s, s \in Seq(ToSet(s)), IsFlat(s), NEW k, IsFrom(left, s, k), IsNext(s, k)
  PROVE  /\ Skips(s[k]) /\ k + 1 \in DOMAIN s => IsFrom(left', s, k + 2) /\ IsNext(s, k + 2)
         /\ ~(Skips(s[k]) /\ k + 1 \in DOMAIN s) => IsFrom(left', s, k + 1) /\ IsNext(s, k + 1)
<1>1. /\ k \in DOMAIN s /\ k \in Nat /\ k >= 1
      /\ Skips(s[k]) /\ k + 1 \in DOMAIN s => IsFrom(left', s, k + 2)
      /\ ~(Skips(s[k]) /\ k + 1 \in DOMAIN s) => IsFrom(left', s, k + 1)
      /\ s[k].do = "unlessImpl" /\ ~Skips(s[k]) => ~ImplProvided(s[k].of)
      /\ s[k].do \notin {"once", "unlessImpl"} => ~Skips(s[k])
  BY ExecuteFacts
<1>2. ASSUME Skips(s[k]), k + 1 \in DOMAIN s
      PROVE  IsNext(s, k + 2)
  <2>1. s[k].do \in {"once", "unlessImpl"}
    BY <1>1, <1>2
  <2>2. k + 1 > 1 /\ (k + 1) - 1 = k /\ (k + 2) - 1 = k + 1
    BY <1>1
  <2>3. ~IsGuard(s[k + 1])
    BY <1>2, <2>1, <2>2 DEF IsFlat, IsGuard
  <2>4. s[(k + 2) - 1].do # "unlessImpl"
    BY <2>2, <2>3 DEF IsGuard
  <2> QED BY <2>4, SkippedBy DEF IsNext
<1>3. ASSUME ~(Skips(s[k]) /\ k + 1 \in DOMAIN s)
      PROVE  IsNext(s, k + 1)
  <2>1. k + 1 \in DOMAIN s => ~(s[k].do = "unlessImpl" /\ ImplProvided(s[k].of))
    BY <1>1, <1>3
  <2>2. (k + 1) - 1 = k
    BY <1>1
  <2> QED BY <2>1, <2>2, SkippedBy DEF IsNext
<1> QED BY <1>1, <1>2, <1>3

LEMMA ExecuteExecuted ==
  ASSUME NamesInv, CodeInv, Execute, stage = "objects",
         NEW s \in AllScripts, s \in Seq(ToSet(s)), IsFlat(s), NEW k, IsFrom(left, s, k),
         IsNext(s, k), Executed(s, k), Kept(current.namespace.once, Pinned, NextCall)
  PROVE  /\ Skips(s[k]) /\ k + 1 \in DOMAIN s => Executed(s, k + 2)'
         /\ ~(Skips(s[k]) /\ k + 1 \in DOMAIN s) => Executed(s, k + 1)'
<1>1. PICK c : c = s[k]
  OBVIOUS
<1>2. /\ k \in DOMAIN s /\ k \in Nat /\ k >= 1 /\ c = Head(left)
      /\ Call(c) /\ Met(c, Pinned) /\ Settling' = Settling
      /\ c.do = "unlessImpl" /\ Skips(c) => ImplProvided(c.of)
      /\ c.do \notin {"once", "unlessImpl"} => ~Skips(c)
      /\ c.do = "once" => (Skips(c) <=> c.of \in current.namespace.once)
  BY <1>1, ExecuteFacts
<1>3. Shapes /\ left # <<>> /\ world' = world
  BY DEF NamesInv, Inv, StateInv, Execute
<1>4. /\ c.do = "pin" => Pinned' = Pinned \cup {c.of}
      /\ c.do # "pin" => Pinned' = Pinned
  BY <1>2, <1>3, CallMarks
<1>5. ~Skipped(s, k)
  BY <1>2 DEF IsNext
<1>6. /\ PinsBefore(s, k) \subseteq PinsBefore(s, k + 1)
      /\ c.do = "pin" => c.of \in PinsBefore(s, k + 1)
      /\ \A x \in PinsBefore(s, k + 1) : x \in PinsBefore(s, k) \/ (c.do = "pin" /\ x = c.of)
  <2>1. /\ PinsBefore(s, k) \subseteq PinsBefore(s, k + 1)
        /\ s[k].do = "pin" /\ ~Skipped(s, k) => s[k].of \in PinsBefore(s, k + 1)
        /\ \A x \in PinsBefore(s, k + 1) :
             x \in PinsBefore(s, k) \/ (s[k].do = "pin" /\ ~Skipped(s, k) /\ x = s[k].of)
    BY <1>2, PinsBeforeNext
  <2> QED BY <1>1, <1>5, <2>1
<1>7. /\ PinsBefore(s, k) \subseteq Pinned
      /\ Pinned \subseteq Settling \cup PinsBefore(s, k)
      /\ \A j \in 1 .. k - 1 : Skipped(s, j) \/ Met(s[j], Settling \cup PinsBefore(s, j))
  BY DEF Executed
<1>8. Met(s[k], Settling \cup PinsBefore(s, k))
  BY <1>1, <1>2, <1>7, MetMore
<1>9. \A j \in 1 .. (k + 1) - 1 : Skipped(s, j) \/ Met(s[j], Settling \cup PinsBefore(s, j))
  <2>1. \A j \in 1 .. (k + 1) - 1 : j = k \/ j \in 1 .. k - 1
    BY <1>2
  <2> QED BY <1>7, <1>8, <2>1
<1>10. PinsBefore(s, k + 1) \subseteq Pinned' /\ Pinned' \subseteq Settling \cup PinsBefore(s, k + 1)
  BY <1>4, <1>6, <1>7
<1>11. ASSUME NEW n, PinsBefore(s, n) \subseteq Pinned', Pinned' \subseteq Settling \cup PinsBefore(s, n),
              \A j \in 1 .. n - 1 : Skipped(s, j) \/ Met(s[j], Settling \cup PinsBefore(s, j))
       PROVE  Executed(s, n)'
  <2>1. PinsBefore(s, n)' = PinsBefore(s, n)
    BY <1>3, ScriptKept
  <2>2. ASSUME NEW j \in 1 .. n - 1
        PROVE  Skipped(s, j)' \/ Met(s[j], Settling \cup PinsBefore(s, j))'
    <3>1. PICK P : P = Settling \cup PinsBefore(s, j)
      OBVIOUS
    <3>2. (Settling \cup PinsBefore(s, j))' = P
      BY <1>2, <1>3, <3>1, ScriptKept
    <3>3. Skipped(s, j) \/ Met(s[j], P)
      BY <1>11, <3>1
    <3>4. (Skipped(s, j)' <=> Skipped(s, j)) /\ (Met(s[j], P)' <=> Met(s[j], P))
      BY <1>3, ScriptKept, MetKept
    <3>5. Met(s[j], Settling \cup PinsBefore(s, j))' <=> Met(s[j], P)'
      BY <3>2 DEF Met
    <3> QED BY <3>3, <3>4, <3>5
  <2> QED BY <1>2, <1>11, <2>1, <2>2 DEF Executed
<1>12. Executed(s, k + 1)'
  BY <1>9, <1>10, <1>11
<1>13. ASSUME Skips(s[k]), k + 1 \in DOMAIN s
       PROVE  Executed(s, k + 2)'
  <2>1. PICK g, n : g = s[k + 1] /\ n = k + 1
    OBVIOUS
  <2>2. n \in Nat /\ n >= 1 /\ n > 1 /\ n - 1 = k /\ k + 2 = n + 1
    BY <1>2, <2>1
  <2>3. c.do \in {"once", "unlessImpl"} /\ g = s[n] /\ n \in DOMAIN s
    BY <1>1, <1>2, <1>13, <2>1
  <2>4. Skipped(s, n) \/ Settled(g, Pinned)
    <3>1. CASE c.do = "unlessImpl"
      BY <1>1, <1>2, <1>13, <2>2, <3>1, SkippedBy
    <3>2. CASE c.do = "once"
      <4>1. c.of \in current.namespace.once
        BY <1>1, <1>2, <1>13, <3>2
      <4>2. Guards(c.of, g)
        BY <1>1, <1>2, <1>13, <2>1, <3>2, GuardedCalls DEF Guards
      <4>3. ~IsGuard(g)
        BY <1>1, <2>2, <2>3, <3>2 DEF IsFlat, IsGuard
      <4>4. g # c
        BY <3>2, <4>3 DEF IsGuard
      <4>5. g \notin NextCall
        BY <1>2, <4>4 DEF NextCall
      <4> QED BY <4>1, <4>2, <4>5 DEF Kept
    <3> QED BY <2>3, <3>1, <3>2
  <2>5. Pinned' = Pinned
    BY <1>4, <2>3
  <2>6. /\ PinsBefore(s, n) \subseteq PinsBefore(s, n + 1)
        /\ \A x \in PinsBefore(s, n + 1) :
             x \in PinsBefore(s, n) \/ (g.do = "pin" /\ ~Skipped(s, n) /\ x = g.of)
    BY <2>2, <2>3, PinsBeforeNext
  <2>7. /\ PinsBefore(s, n + 1) \subseteq Pinned'
        /\ Pinned' \subseteq Settling \cup PinsBefore(s, n + 1)
    BY <1>10, <2>1, <2>4, <2>5, <2>6 DEF Settled
  <2>8. Skipped(s, n) \/ Met(s[n], Settling \cup PinsBefore(s, n))
    <3>1. Pinned \subseteq Settling \cup PinsBefore(s, n)
      BY <1>10, <2>1, <2>5
    <3> QED BY <2>3, <2>4, <3>1, MetMore DEF Settled
  <2>9. \A j \in 1 .. (n + 1) - 1 : Skipped(s, j) \/ Met(s[j], Settling \cup PinsBefore(s, j))
    <3>1. \A j \in 1 .. (n + 1) - 1 : j = n \/ j \in 1 .. n - 1
      BY <2>2
    <3>2. \A j \in 1 .. n - 1 : Skipped(s, j) \/ Met(s[j], Settling \cup PinsBefore(s, j))
      BY <1>9, <2>1
    <3> QED BY <2>8, <3>1, <3>2
  <2> QED BY <1>11, <2>2, <2>7, <2>9
<1> QED BY <1>12, <1>13

LEMMA AtKept ==
  ASSUME world' = world, UNCHANGED <<committed, current>>, queue' = queue, left' = left,
         stage' = "objects" => stage = "objects", NEW k
  PROVE  (NameAt(k) => NameAt(k)') /\ (BodyAt(k) => BodyAt(k)')
<1>1. PICK s, n : s = Head(queue).script /\ n = Head(queue).name
  OBVIOUS
<1>2. Settling' = Settling /\ Pinned' = Pinned
  BY DEF Settling, Pinned
<1>3. /\ IsNext(s, k)' <=> IsNext(s, k)
      /\ IsNext(n, k)' <=> IsNext(n, k)
  BY ScriptKept DEF IsNext
<1>4. Executed(s, k)' <=> Executed(s, k)
  <2>1. ASSUME NEW j
        PROVE  Met(s[j], Settling \cup PinsBefore(s, j))' <=> Met(s[j], Settling \cup PinsBefore(s, j))
    <3>1. PICK P : P = Settling \cup PinsBefore(s, j)
      OBVIOUS
    <3>2. (Settling \cup PinsBefore(s, j))' = P
      BY <1>2, <3>1, ScriptKept
    <3>3. Met(s[j], P)' <=> Met(s[j], P)
      BY MetKept
    <3>4. Met(s[j], Settling \cup PinsBefore(s, j))' <=> Met(s[j], P)'
      BY <3>2 DEF Met
    <3> QED BY <3>1, <3>3, <3>4
  <2> QED BY <1>2, <2>1, ScriptKept DEF Executed
<1> QED BY <1>1, <1>3, <1>4 DEF NameAt, BodyAt

LEMMA QuietAttempts ==
  ASSUME AttemptsInv, world' = world, UNCHANGED <<committed, current>>,
         mode' = "next" \/ UNCHANGED <<mode, left, queue>>,
         \/ stage' = stage
         \/ stage = "util" /\ stage' = "impl"
         \/ stage = "impl" /\ stage' = "objects" /\ mode' = "next"
         \/ stage' \in {"client", "failed", "not pinned", "finished"}
  PROVE  AttemptsInv'
<1>1. Settling' = Settling /\ Pinned' = Pinned
  BY DEF Settling, Pinned
<1>2. GrowInv'
  BY <1>1 DEF AttemptsInv, GrowInv
<1>3. \A once, P, pending : Kept(once, P, pending)' <=> Kept(once, P, pending)
  BY KeptSame
<1>4. OnceKept'
  <2>1. PICK c, r : c = committed.once /\ r = current.namespace.once
    OBVIOUS
  <2>2. PICK P, Q : P = Settling /\ Q = Pinned
    OBVIOUS
  <2>3. PICK n : n = NextCall'
    OBVIOUS
  <2>4. /\ Kept(committed.once, Settling, {})' <=> Kept(c, P, {})'
        /\ Kept(current.namespace.once, Pinned, NextCall)' <=> Kept(r, Q, n)'
    BY <1>1, <2>1, <2>2, <2>3 DEF Kept
  <2>5. stage' \in {"util", "impl", "objects"} => Kept(c, P, {})
    BY <2>1, <2>2 DEF AttemptsInv, OnceKept
  <2>6. stage' \in {"util", "impl", "objects"} /\ mode' = "body" => Kept(r, Q, n)
    <3>1. mode' = "body" => NextCall' = NextCall
      BY DEF NextCall
    <3> QED BY <2>1, <2>2, <2>3, <3>1 DEF AttemptsInv, OnceKept
  <2> QED BY <1>3, <2>4, <2>5, <2>6 DEF OnceKept
<1>5. AtInv'
  <2>1. CASE mode' = "next"
    BY <2>1 DEF AtInv
  <2>2. CASE UNCHANGED <<mode, left, queue>> /\ mode' # "next"
    <3>1. \A k : (NameAt(k) => NameAt(k)') /\ (BodyAt(k) => BodyAt(k)')
      BY <2>2, AtKept
    <3> QED BY <2>2, <3>1 DEF AttemptsInv, AtInv
  <2> QED BY <2>1, <2>2
<1> QED BY <1>2, <1>4, <1>5 DEF AttemptsInv

LEMMA FirstNext ==
  ASSUME NEW s, s \in Seq(ToSet(s)), world' = world
  PROVE  IsFrom(s, s, 1) /\ IsNext(s, 1)' /\ PinsBefore(s, 1)' = {}
<1>1. PinsBefore(s, 1) = {} /\ PinsBefore(s, 1)' = PinsBefore(s, 1)
  <2>1. PICK k : k = 1
    OBVIOUS
  <2>2. k \in Nat /\ k >= 1
    BY <2>1
  <2>3. PinsBefore(s, 1) = {}
    BY <2>2, PinsBeforeNext
  <2>4. PinsBefore(s, k)' = PinsBefore(s, k)
    BY ScriptKept
  <2>5. PinsBefore(s, 1)' = PinsBefore(s, k)'
    BY <2>1
  <2> QED BY <2>1, <2>3, <2>4, <2>5
<1>2. ~Skipped(s, 1) /\ (Skipped(s, 1)' <=> Skipped(s, 1))
  <2>1. PICK k : k = 1
    OBVIOUS
  <2>2. ~Skipped(s, k)
    BY <2>1, SkippedBy
  <2>3. Skipped(s, k)' <=> Skipped(s, k)
    BY ScriptKept
  <2>4. Skipped(s, 1)' <=> Skipped(s, k)'
    BY <2>1
  <2> QED BY <2>1, <2>2, <2>3, <2>4
<1> QED BY <1>1, <1>2, FromStart DEF IsNext

LEMMA BeginAttempts ==
  ASSUME NamesInv, CodeInv, AttemptsInv, world' = world, UNCHANGED <<stage, queue>>,
         queue # <<>>, mode' = "body", left' = Head(queue).script,
         NEW file, NEW package,
         \/ BeginFile(file, package)
         \/ \E protocol, impl : BeginExtraFile(file, package, protocol, impl)
  PROVE  AttemptsInv'
<1>1. MarksKept /\ current'.namespace = committed
  BY BeginMarks
<1>2. committed' = committed
  BY <1>1 DEF MarksKept, TextsKept
<1>3. Settling' = Settling /\ Pinned' = Settling
  BY <1>1, <1>2 DEF Settling, Pinned
<1>4. GrowInv'
  BY <1>3 DEF AttemptsInv, GrowInv
<1>5. OnceKept'
  <2>1. SUFFICES ASSUME stage \in {"util", "impl", "objects"}
                 PROVE  /\ Kept(committed.once, Settling, {})'
                        /\ Kept(current.namespace.once, Pinned, NextCall)'
    BY DEF OnceKept
  <2>2. PICK c, P, n : c = committed.once /\ P = Settling /\ n = NextCall'
    OBVIOUS
  <2>3. Kept(c, P, {})
    BY <2>1, <2>2 DEF AttemptsInv, OnceKept
  <2>4. Kept(c, P, {})' /\ Kept(c, P, n)'
    BY <2>3, KeptMore, KeptSame
  <2>5. /\ Kept(committed.once, Settling, {})' <=> Kept(c, P, {})'
        /\ Kept(current.namespace.once, Pinned, NextCall)' <=> Kept(c, P, n)'
    BY <1>1, <1>2, <1>3, <2>2 DEF Kept
  <2> QED BY <2>4, <2>5
<1>6. AtInv'
  <2>1. PICK s : s = Head(queue).script
    OBVIOUS
  <2>2. AreTasks(queue)
    BY DEF NamesInv, TasksInv
  <2>3. s \in Seq(ToSet(s))
    BY <2>1, <2>2, TailTasks DEF IsTask, IsScript
  <2>4. IsFrom(s, s, 1) /\ IsNext(s, 1)' /\ PinsBefore(s, 1)' = {}
    BY <2>3, FirstNext
  <2>5. Executed(s, 1)'
    <3>1. 1 .. 1 - 1 = {}
      OBVIOUS
    <3> QED BY <1>3, <2>4, <3>1 DEF Executed
  <2>6. BodyAt(1)'
    BY <2>1, <2>4, <2>5 DEF BodyAt
  <2> QED BY <2>6 DEF AtInv
<1> QED BY <1>4, <1>5, <1>6 DEF AttemptsInv

LEMMA NameAttempts ==
  ASSUME NamesInv, CodeInv, AttemptsInv, BeginName
  PROVE  AttemptsInv'
<1>1. /\ world' = world /\ UNCHANGED <<stage, queue, committed, current>> /\ mode' = "name"
      /\ stage = "objects" /\ queue # <<>> /\ left' = Head(queue).name
  BY DEF BeginName, manager
<1>2. Settling' = Settling /\ Pinned' = Pinned
  BY <1>1 DEF Settling, Pinned
<1>3. GrowInv'
  BY <1>1, <1>2 DEF AttemptsInv, GrowInv
<1>4. OnceKept'
  <2>1. PICK c, P : c = committed.once /\ P = Settling
    OBVIOUS
  <2>2. Kept(c, P, {})
    BY <1>1, <2>1 DEF AttemptsInv, OnceKept
  <2>3. Kept(c, P, {})'
    BY <1>1, <2>2, KeptSame
  <2>4. Kept(committed.once, Settling, {})' <=> Kept(c, P, {})'
    BY <1>1, <1>2, <2>1 DEF Kept
  <2> QED BY <1>1, <2>3, <2>4 DEF OnceKept
<1>5. AtInv'
  <2>1. PICK t : t = Head(queue)
    OBVIOUS
  <2>2. t \in Items /\ world \in Worlds
    BY <1>1, <2>1 DEF NamesInv, Inv, QueueInv
  <2>3. t.name \in Seq(ToSet(t.name))
    BY <2>2, RenderingAssumption DEF Items, IsScript
  <2>4. IsFrom(t.name, t.name, 1) /\ IsNext(t.name, 1)'
    BY <1>1, <2>3, FirstNext
  <2>5. NameAt(1)'
    BY <1>1, <2>1, <2>4 DEF NameAt
  <2> QED BY <1>1, <2>5 DEF AtInv
<1> QED BY <1>3, <1>4, <1>5 DEF AttemptsInv

LEMMA CommitAttempts ==
  ASSUME NamesInv, AttemptsInv, CommitFile
  PROVE  AttemptsInv'
<1>1. /\ world' = world /\ UNCHANGED <<stage>> /\ mode = "body" /\ mode' = "next" /\ left = <<>>
      /\ Commit(Head(queue).of)
  BY DEF CommitFile
<1>2. PICK of, f : of = Head(queue).of /\ f = current.file
  OBVIOUS
<1>3. Commit(of) /\ StateInv
  BY <1>1, <1>2 DEF NamesInv, Inv
<1>4. committed' = current.namespace /\ current'.namespace = current.namespace
  BY <1>1, <1>2, <1>3, CommitMarks
<1>5. Settling' = Pinned /\ Pinned' = Pinned
  BY <1>4 DEF Settling, Pinned
<1>6. GrowInv'
  BY <1>1, <1>5 DEF AttemptsInv, GrowInv
<1>7. OnceKept'
  <2>1. PICK r, P : r = current.namespace.once /\ P = Pinned
    OBVIOUS
  <2>2. NextCall = {}
    BY <1>1 DEF NextCall
  <2>3. stage \in {"util", "impl", "objects"} => Kept(r, P, {})
    BY <1>1, <2>1, <2>2 DEF AttemptsInv, OnceKept
  <2>4. stage \in {"util", "impl", "objects"} => Kept(r, P, {})'
    BY <1>1, <2>3, KeptSame
  <2>5. Kept(committed.once, Settling, {})' <=> Kept(r, P, {})'
    BY <1>4, <1>5, <2>1 DEF Kept
  <2> QED BY <1>1, <2>4, <2>5 DEF OnceKept
<1>8. AtInv'
  BY <1>1 DEF AtInv
<1> QED BY <1>6, <1>7, <1>8 DEF AttemptsInv

LEMMA ExecuteAttempts ==
  ASSUME NamesInv, CodeInv, OnceAgrees, AttemptsInv, Execute
  PROVE  AttemptsInv'
<1>1. /\ world' = world /\ UNCHANGED <<stage, queue, mode>> /\ mode # "next" /\ left # <<>>
      /\ Call(Head(left)) /\ mode \in {"name", "body"} /\ (mode = "name" => stage = "objects")
  BY DEF Execute, NamesInv, Inv, QueueInv
<1>2. PICK t, s, n : t = Head(queue) /\ s = t.script /\ n = t.name
  OBVIOUS
<1>3. /\ s \in Seq(ToSet(s))
      /\ stage \in {"util", "impl", "objects"} => s \in AllScripts
      /\ stage \in {"util", "impl"} => \A call \in ToSet(s) : call.do # "pin"
      /\ stage = "objects" => /\ n \in Seq(ToSet(n)) /\ IsFlat(s) /\ IsFlat(n)
                              /\ \A call \in ToSet(n) : call.do # "pin" /\ call.do # "once"
  BY <1>1, <1>2, ScriptIs
<1>4. /\ mode = "name" => \E k : IsFrom(left, n, k) /\ IsNext(n, k)
      /\ mode = "body" => \E k : /\ IsFrom(left, s, k)
                                 /\ stage = "objects" => IsNext(s, k) /\ Executed(s, k)
  BY <1>2 DEF AttemptsInv, AtInv, NameAt, BodyAt
<1>5. PICK m : m = IF mode = "name" THEN n ELSE s
  OBVIOUS
<1>6. PICK k : /\ IsFrom(left, m, k)
               /\ mode = "name" => IsNext(n, k)
               /\ mode = "body" /\ stage = "objects" => IsNext(s, k) /\ Executed(s, k)
  BY <1>1, <1>4, <1>5
<1>7. m \in Seq(ToSet(m))
  BY <1>1, <1>3, <1>5
<1>8. /\ k \in DOMAIN m /\ k \in Nat /\ m[k] = Head(left) /\ m[k] \in ToSet(m) /\ Call(m[k])
      /\ Skips(m[k]) /\ k + 1 \in DOMAIN m => IsFrom(left', m, k + 2)
      /\ ~(Skips(m[k]) /\ k + 1 \in DOMAIN m) => IsFrom(left', m, k + 1)
      /\ Settling' = Settling
  BY <1>6, <1>7, ExecuteFacts
<1>9. PICK c : c = m[k]
  OBVIOUS
<1>10. Shapes
  BY DEF NamesInv, Inv, StateInv
<1>11. /\ MarksKept
       /\ c.do = "pin" => Pinned' = Pinned \cup {c.of}
       /\ c.do # "pin" => Pinned' = Pinned
  BY <1>8, <1>9, <1>10, CallMarks
<1>12. GrowInv'
  <2>1. stage \in {"util", "impl"} => c.do # "pin"
    BY <1>1, <1>3, <1>5, <1>8, <1>9
  <2> QED BY <1>1, <1>8, <1>11, <2>1 DEF AttemptsInv, GrowInv
<1>13. committed' = committed
  BY <1>11 DEF MarksKept, TextsKept
<1>14. OnceKept'
  <2>1. SUFFICES ASSUME stage \in {"util", "impl", "objects"}
                 PROVE  /\ Kept(committed.once, Settling, {})'
                        /\ mode = "body" => Kept(current.namespace.once, Pinned, NextCall)'
    BY <1>1 DEF OnceKept
  <2>2. PICK o, P : o = committed.once /\ P = Settling
    OBVIOUS
  <2>3. Kept(o, P, {})
    BY <2>1, <2>2 DEF AttemptsInv, OnceKept
  <2>4. Kept(o, P, {})'
    BY <1>1, <2>3, KeptSame
  <2>5. Kept(committed.once, Settling, {})' <=> Kept(o, P, {})'
    BY <1>8, <1>13, <2>2 DEF Kept
  <2>6. ASSUME mode = "body"
        PROVE  Kept(current.namespace.once, Pinned, NextCall)'
    <3>1. m = s /\ s \in AllScripts
      BY <1>3, <1>5, <2>1, <2>6
    <3>2. Kept(current.namespace.once, Pinned, NextCall)
      BY <2>1, <2>6 DEF AttemptsInv, OnceKept
    <3>3. Kept(current'.namespace.once, Pinned', NextCall')
      BY <1>3, <1>6, <3>1, <3>2, ExecuteKept
    <3>4. PICK r, Q, N : r = current'.namespace.once /\ Q = Pinned' /\ N = NextCall'
      OBVIOUS
    <3>5. Kept(r, Q, N)
      BY <3>3, <3>4
    <3>6. Kept(r, Q, N)'
      BY <1>1, <3>5, KeptSame
    <3>7. Kept(current.namespace.once, Pinned, NextCall)' <=> Kept(r, Q, N)'
      BY <3>4 DEF Kept
    <3> QED BY <3>6, <3>7
  <2> QED BY <2>4, <2>5, <2>6
<1>15. AtInv'
  <2>1. CASE mode = "name"
    <3>1. m = n /\ stage = "objects" /\ IsFlat(n) /\ IsNext(n, k)
      BY <1>1, <1>3, <1>5, <1>6, <2>1
    <3>2. \/ IsFrom(left', n, k + 2) /\ IsNext(n, k + 2)
          \/ IsFrom(left', n, k + 1) /\ IsNext(n, k + 1)
      BY <1>3, <1>6, <3>1, ExecuteNext
    <3>3. PICK l : IsFrom(left', n, l) /\ IsNext(n, l)
      BY <3>2
    <3>4. IsNext(n, l)'
      BY <1>1, <3>3, ScriptKept DEF IsNext
    <3>5. NameAt(l)'
      BY <1>1, <1>2, <3>3, <3>4 DEF NameAt
    <3> QED BY <1>1, <2>1, <3>5 DEF AtInv
  <2>2. CASE mode = "body" /\ stage = "objects"
    <3>1. m = s /\ IsFlat(s) /\ IsNext(s, k) /\ Executed(s, k) /\ s \in AllScripts
      BY <1>3, <1>5, <1>6, <2>2
    <3>2. Kept(current.namespace.once, Pinned, NextCall)
      BY <2>2 DEF AttemptsInv, OnceKept
    <3>3. /\ Skips(s[k]) /\ k + 1 \in DOMAIN s => IsFrom(left', s, k + 2) /\ IsNext(s, k + 2)
          /\ ~(Skips(s[k]) /\ k + 1 \in DOMAIN s) => IsFrom(left', s, k + 1) /\ IsNext(s, k + 1)
      BY <1>3, <1>6, <2>2, <3>1, ExecuteNext
    <3>4. /\ Skips(s[k]) /\ k + 1 \in DOMAIN s => Executed(s, k + 2)'
          /\ ~(Skips(s[k]) /\ k + 1 \in DOMAIN s) => Executed(s, k + 1)'
      BY <1>3, <1>6, <2>2, <3>1, <3>2, ExecuteExecuted
    <3>5. \E l : IsFrom(left', s, l) /\ IsNext(s, l) /\ Executed(s, l)'
      BY <3>3, <3>4
    <3>6. PICK l : IsFrom(left', s, l) /\ IsNext(s, l) /\ Executed(s, l)'
      BY <3>5
    <3>7. IsNext(s, l)'
      BY <1>1, <3>6, ScriptKept DEF IsNext
    <3>8. BodyAt(l)'
      BY <1>1, <1>2, <3>6, <3>7 DEF BodyAt
    <3> QED BY <1>1, <2>2, <3>8 DEF AtInv
  <2>3. CASE mode = "body" /\ stage # "objects"
    <3>1. m = s
      BY <1>5, <2>3
    <3>2. \E l : IsFrom(left', s, l)
      BY <1>8, <3>1
    <3>3. PICK l : IsFrom(left', s, l)
      BY <3>2
    <3>4. BodyAt(l)'
      BY <1>1, <1>2, <2>3, <3>3 DEF BodyAt
    <3> QED BY <1>1, <2>3, <3>4 DEF AtInv
  <2> QED BY <1>1, <2>1, <2>2, <2>3
<1> QED BY <1>12, <1>14, <1>15 DEF AttemptsInv

LEMMA AttemptsNext ==
  ASSUME NamesInv, CodeInv, OnceAgrees, AttemptsInv, [Next]_vars
  PROVE  AttemptsInv'
<1>1. world' = world
  BY WorldKept
<1>2. CASE NextProtocol \/ Postpone \/ NextPass \/ StartImplementations \/ StartObjects \/ StartClient
  <2>1. /\ UNCHANGED <<committed, current>> /\ mode' = "next"
        /\ \/ stage' = stage
           \/ stage = "util" /\ stage' = "impl"
           \/ stage = "impl" /\ stage' = "objects"
           \/ stage' = "client"
    BY <1>2 DEF NextProtocol, Postpone, NextPass, StartImplementations, StartObjects, StartClient,
                Idle, manager
  <2> QED BY <1>1, <2>1, QuietAttempts
<1>3. CASE Fail \/ NotPinned \/ Finish
  <2>1. /\ UNCHANGED <<committed, current, mode, left, queue>>
        /\ stage' \in {"client", "failed", "not pinned", "finished"}
    BY <1>3 DEF Fail, NotPinned, Finish, manager, work
  <2> QED BY <1>1, <2>1, QuietAttempts
<1>4. CASE UNCHANGED vars
  <2>1. UNCHANGED <<committed, current, mode, left, queue, stage>>
    BY <1>4 DEF vars, manager, work
  <2> QED BY <1>1, <2>1, QuietAttempts
<1>5. CASE BeginTemplate \/ BeginBody
  <2>1. PICK t : t = Head(queue)
    OBVIOUS
  <2>2. /\ UNCHANGED <<stage, queue>> /\ queue # <<>> /\ mode' = "body"
        /\ left' = Head(queue).script
        /\ \/ BeginFile(t.file, t.package)
           \/ \E protocol, impl : BeginExtraFile(t.file, t.package, protocol, impl)
    BY <1>5, <2>1 DEF BeginTemplate, BeginBody, NamesInv, TasksInv
  <2> QED BY <1>1, <2>2, BeginAttempts
<1>6. CASE BeginName
  BY <1>6, NameAttempts
<1>7. CASE Execute
  BY <1>7, ExecuteAttempts
<1>8. CASE CommitFile
  BY <1>8, CommitAttempts
<1> QED BY <1>2, <1>3, <1>4, <1>5, <1>6, <1>7, <1>8 DEF Next

LEMMA InitAttempts == Init => AttemptsInv
<1> SUFFICES ASSUME Init
             PROVE  AttemptsInv
  OBVIOUS
<1>1. /\ mode = "next" /\ committed = [pins |-> [a \in {} |-> None], once |-> {}]
      /\ current = [file |-> None, package |-> None, protocol |-> None, impl |-> FALSE,
                    imports |-> NoImports, namespace |-> committed, buffer |-> NoText]
  BY DEF Init, InitManager
<1>2. current.namespace = committed
  <2>1. Fields(current, None, None, None, FALSE, NoImports, committed, NoText)
    BY <1>1, RecordFields
  <2> QED BY <2>1 DEF Fields
<1>3. committed.once = {} /\ DOMAIN committed.pins = {}
  BY <1>1
<1>4. Pinned = {} /\ Settling = {}
  BY <1>2, <1>3 DEF Pinned, Settling
<1> QED BY <1>1, <1>3, <1>4 DEF AttemptsInv, OnceKept, AtInv, GrowInv, Kept

-----------------------------------------------------------------------------
(* What a call that fails says of the order of the queue *)

ReadyNamed(item, S) == Ready(item, S, TRUE)
ReadyBody(item, S) == Ready(item, S, FALSE)
RenderableNamed == Renderable(TRUE)
RenderableBody == Renderable(FALSE)

LEMMA ReadyIs ==
  ASSUME NEW i, NEW S
  PROVE  /\ ReadyNamed(i, S) <=> (Runs(i.name, PinnedBy(S)) /\ Runs(i.script, PinnedBy(S)))
         /\ ReadyBody(i, S) <=> Runs(i.script, PinnedBy(S))
BY Zenon DEF ReadyNamed, ReadyBody, Ready

LEMMA RenderableIs ==
  /\ RenderableNamed <=> ~ \E S \in SUBSET Items : S # Items /\ \A i \in Items \ S : ~ReadyNamed(i, S)
  /\ RenderableBody <=> ~ \E S \in SUBSET Items : S # Items /\ \A i \in Items \ S : ~ReadyBody(i, S)
BY Zenon DEF RenderableNamed, RenderableBody, Renderable, DeadEnd, ReadyNamed, ReadyBody

LEMMA OrderKept ==
  ASSUME world' = world
  PROVE  /\ \A S : PinnedBy(S)' = PinnedBy(S)
         /\ \A i, S : ReadyNamed(i, S)' <=> ReadyNamed(i, S)
         /\ \A i, S : ReadyBody(i, S)' <=> ReadyBody(i, S)
         /\ RenderableNamed' <=> RenderableNamed
         /\ RenderableBody' <=> RenderableBody
<1>1. ASSUME NEW S
      PROVE  PinnedBy(S)' = PinnedBy(S)
  BY ScriptKept DEF PinnedBy
<1>2. ASSUME NEW s, NEW S
      PROVE  Runs(s, PinnedBy(S))' <=> Runs(s, PinnedBy(S))
  <2>1. PICK P : P = PinnedBy(S)
    OBVIOUS
  <2>2. Runs(s, P)' <=> Runs(s, P)
    BY ScriptKept
  <2>3. Runs(s, PinnedBy(S))' <=> Runs(s, P)'
    BY <1>1, <2>1 DEF Runs, Met
  <2> QED BY <2>1, <2>2, <2>3
<1>3. ASSUME NEW i, NEW S
      PROVE  (ReadyNamed(i, S)' <=> ReadyNamed(i, S)) /\ (ReadyBody(i, S)' <=> ReadyBody(i, S))
  BY <1>2, Zenon DEF ReadyNamed, ReadyBody, Ready
<1>4. Items' = Items
  BY ItemsKept
<1>5. (RenderableNamed' <=> RenderableNamed) /\ (RenderableBody' <=> RenderableBody)
  <2>1. /\ RenderableNamed' <=>
             ~ \E S \in SUBSET Items : S # Items /\ \A i \in Items \ S : ~ReadyNamed(i, S)'
        /\ RenderableBody' <=>
             ~ \E S \in SUBSET Items : S # Items /\ \A i \in Items \ S : ~ReadyBody(i, S)'
    BY <1>4, Zenon DEF RenderableNamed, RenderableBody, Renderable, DeadEnd, ReadyNamed, ReadyBody
  <2> QED BY <1>3, <2>1, RenderableIs
<1> QED BY <1>1, <1>3, <1>5

(* The item cannot be rendered as long as only these pins are there.       *)
LEMMA PostponedNotReady ==
  ASSUME NamesInv, CodeInv, AttemptsInv, stage = "objects", mode # "next", left # <<>>,
         Fails(Head(left)), NEW S, PinnedBy(S) \subseteq Settling
  PROVE  ~ReadyNamed(Head(queue), S)
<1>1. PICK t, s, n : t = Head(queue) /\ s = t.script /\ n = t.name
  OBVIOUS
<1>2. /\ s \in Seq(ToSet(s)) /\ n \in Seq(ToSet(n))
      /\ \A call \in ToSet(n) : call.do # "pin"
  BY <1>1, ScriptIs
<1>3. IsScript(left) /\ mode \in {"name", "body"} /\ Settling \subseteq Pinned
  BY DEF NamesInv, TasksInv, Inv, QueueInv, AttemptsInv, GrowInv
<1>4. PICK c : c = Head(left)
  OBVIOUS
<1>5. ~Met(c, Pinned)
  <2>1. c.do \in {"util", "impl", "unlessImpl"} => c.of # None
    BY <1>3, <1>4, TailSet DEF IsScript
  <2> QED BY <1>4, <2>1, FailsBy
<1>6. ASSUME NEW m, NEW k, IsFrom(left, m, k), m \in Seq(ToSet(m)), IsNext(m, k),
             PinsBefore(m, k) \subseteq Pinned
      PROVE  ~Runs(m, PinnedBy(S))
  <2>1. k \in DOMAIN m /\ c = m[k]
    BY <1>4, <1>6, RestIs
  <2>2. ~Skipped(m, k)
    BY <1>6, <2>1 DEF IsNext
  <2>3. ~Met(m[k], PinnedBy(S) \cup PinsBefore(m, k))
    <3>1. PinnedBy(S) \cup PinsBefore(m, k) \subseteq Pinned
      BY <1>3, <1>6
    <3> QED BY <1>5, <2>1, <3>1, MetMore
  <2> QED BY <2>1, <2>2, <2>3 DEF Runs
<1>7. CASE mode = "name"
  <2>1. PICK k : IsFrom(left, n, k) /\ IsNext(n, k)
    BY <1>1, <1>7 DEF AttemptsInv, AtInv, NameAt
  <2>2. PinsBefore(n, k) = {}
    <3>1. \A j \in 1 .. k - 1 : j \in DOMAIN n
      <4>1. PICK N : N = Len(n)
        OBVIOUS
      <4>2. k \in DOMAIN n /\ DOMAIN n = 1 .. N
        <5>1. k \in DOMAIN n
          BY <1>2, <2>1, RestIs
        <5>2. PICK T : T = ToSet(n)
          OBVIOUS
        <5>3. n \in Seq(T)
          BY <1>2, <5>2
        <5> QED BY <4>1, <5>1, <5>3
      <4>3. N \in Nat
        <5>1. PICK T : T = ToSet(n)
          OBVIOUS
        <5>2. n \in Seq(T)
          BY <1>2, <5>1
        <5> QED BY <4>1, <5>2
      <4> QED BY <4>2, <4>3
    <3>2. \A j \in DOMAIN n : n[j].do # "pin"
      BY <1>2 DEF ToSet
    <3> QED BY <3>1, <3>2 DEF PinsBefore
  <2>3. ~Runs(n, PinnedBy(S))
    BY <1>2, <1>6, <2>1, <2>2
  <2> QED BY <1>1, <2>3, ReadyIs
<1>8. CASE mode = "body"
  <2>1. PICK k : IsFrom(left, s, k) /\ IsNext(s, k) /\ Executed(s, k)
    BY <1>1, <1>8 DEF AttemptsInv, AtInv, BodyAt
  <2>2. PinsBefore(s, k) \subseteq Pinned
    BY <2>1 DEF Executed
  <2>3. ~Runs(s, PinnedBy(S))
    BY <1>2, <1>6, <2>1, <2>2
  <2> QED BY <1>1, <2>3, ReadyIs
<1> QED BY <1>3, <1>7, <1>8

(* An attempt that ends has pinned what the template pins, and could have  *)
(* been made with the pins there were before.                              *)
LEMMA EndOfAttempt ==
  ASSUME NamesInv, CodeInv, AttemptsInv, stage = "objects", mode = "body", left = <<>>,
         NEW s, s = Head(queue).script
  PROVE  /\ Pins(s) \subseteq Pinned /\ Pinned \subseteq Settling \cup Pins(s)
         /\ Runs(s, Settling)
<1>1. s \in Seq(ToSet(s))
  BY ScriptIs
<1>2. PICK k : IsFrom(left, s, k) /\ Executed(s, k)
  BY DEF AttemptsInv, AtInv, BodyAt
<1>3. k = Len(s) + 1
  BY <1>1, <1>2, NextIs
<1>4. PICK N : N = Len(s)
  OBVIOUS
<1>5. N \in Nat /\ DOMAIN s = 1 .. N
  <2>1. PICK T : T = ToSet(s)
    OBVIOUS
  <2>2. s \in Seq(T)
    BY <1>1, <2>1
  <2> QED BY <1>4, <2>2
<1>6. Pins(s) = PinsBefore(s, k)
  BY <1>3 DEF Pins
<1>7. k - 1 = N
  BY <1>3, <1>4, <1>5
<1>8. \A j \in DOMAIN s : Skipped(s, j) \/ Met(s[j], Settling \cup PinsBefore(s, j))
  BY <1>2, <1>5, <1>7 DEF Executed
<1> QED BY <1>2, <1>6, <1>8 DEF Executed, Runs

-----------------------------------------------------------------------------
(* The passes over the queue *)

Waiting == ToSet(queue) \cup ToSet(postponed)

(* These items have been rendered.                                         *)
AreDone(S, pinned) == \A i \in S : Pins(i.script) \subseteq pinned /\ Runs(i.script, pinned)

(* There is an item to render as long as something that is pinned by now   *)
(* is not pinned by the items of S.                                        *)
Ordered(pinned) ==
  \A S \in SUBSET Items : ~(pinned \subseteq PinnedBy(S)) => \E i \in Items \ S : ReadyBody(i, S)

NoneReady(T, S) == \A i \in T : ~ReadyNamed(i, S)

PassInv ==
  /\ AreDone(Items \ Waiting, Settling) /\ Ordered(Settling)
  /\ size \in Nat /\ Len(queue) + Len(postponed) <= size
  /\ Len(queue) + Len(postponed) = size => NoneReady(ToSet(postponed), Items \ Waiting)

OrderInv ==
  /\ stage \in {"util", "impl"} => postponed = <<>>
  /\ stage = "objects" => PassInv
  /\ stage \in {"client", "finished"} => RenderableBody /\ PinnedBy(Items) \subseteq Settling
  /\ stage = "not pinned" => ~RenderableNamed
  /\ stage = "failed" => ~ExtraCodeIsClosed

LEMMA PassKept ==
  ASSUME world' = world, NEW S, NEW P
  PROVE  /\ AreDone(S, P)' <=> AreDone(S, P)
         /\ Ordered(P)' <=> Ordered(P)
         /\ \A T : NoneReady(T, S)' <=> NoneReady(T, S)
<1>1. AreDone(S, P)' <=> AreDone(S, P)
  <2>1. ASSUME NEW s
        PROVE  (Runs(s, P)' <=> Runs(s, P)) /\ Pins(s)' = Pins(s)
    BY ScriptKept
  <2> QED BY <2>1 DEF AreDone
<1>2. Ordered(P)' <=> Ordered(P)
  <2>1. Items' = Items
    BY ItemsKept
  <2> QED BY <2>1, OrderKept DEF Ordered
<1>3. \A T : NoneReady(T, S)' <=> NoneReady(T, S)
  BY OrderKept DEF NoneReady
<1> QED BY <1>1, <1>2, <1>3

LEMMA DoneMore ==
  ASSUME NEW S, NEW P, NEW Q, P \subseteq Q, AreDone(S, P)
  PROVE  AreDone(S, Q)
BY RunsMore DEF AreDone

LEMMA DonePins ==
  ASSUME NEW S, NEW P, AreDone(S, P)
  PROVE  PinnedBy(S) \subseteq P
BY DEF AreDone, PinnedBy

(* What is pinned has been pinned in an order that can be followed.        *)
LEMMA OrderedMore ==
  ASSUME NEW P, NEW Q, NEW u \in Items, Ordered(P), Q \subseteq P \cup Pins(u.script),
         Runs(u.script, P)
  PROVE  Ordered(Q)
<1>1. SUFFICES ASSUME NEW S \in SUBSET Items, ~(Q \subseteq PinnedBy(S))
               PROVE  \E i \in Items \ S : ReadyBody(i, S)
  BY DEF Ordered
<1>2. CASE ~(P \subseteq PinnedBy(S))
  BY <1>2 DEF Ordered
<1>3. CASE P \subseteq PinnedBy(S)
  <2>1. u \notin S
    BY <1>1, <1>3 DEF PinnedBy
  <2>2. Runs(u.script, PinnedBy(S))
    BY <1>3, RunsMore
  <2> QED BY <2>1, <2>2, ReadyIs
<1> QED BY <1>2, <1>3

(* When everything has been rendered, that order renders everything.       *)
LEMMA AllDone ==
  ASSUME NEW P, AreDone(Items, P), Ordered(P)
  PROVE  RenderableBody /\ PinnedBy(Items) \subseteq P
<1>1. PinnedBy(Items) \subseteq P
  BY DonePins
<1>2. ASSUME NEW S \in SUBSET Items, S # Items, \A i \in Items \ S : ~ReadyBody(i, S)
      PROVE  FALSE
  <2>1. P \subseteq PinnedBy(S)
    BY <1>2 DEF Ordered
  <2>2. PICK i \in Items \ S : TRUE
    BY <1>2
  <2>3. Runs(i.script, PinnedBy(S))
    BY <2>1, <2>2, RunsMore DEF AreDone
  <2> QED BY <1>2, <2>2, <2>3, ReadyIs
<1> QED BY <1>1, <1>2, RenderableIs

LEMMA NothingWaits == ASSUME queue = <<>> PROVE Waiting = ToSet(postponed)
BY EmptyText DEF Waiting

LEMMA AppendSet ==
  ASSUME NEW S, NEW s \in Seq(S), NEW x \in S
  PROVE  /\ ToSet(Append(s, x)) = ToSet(s) \cup {x}
         /\ Len(Append(s, x)) = Len(s) + 1 /\ Append(s, x) \in Seq(S)
<1>1. PICK n, t : n = Len(s) /\ t = Append(s, x)
  OBVIOUS
<1>2. /\ n \in Nat /\ DOMAIN s = 1 .. n /\ DOMAIN t = 1 .. n + 1 /\ t[n + 1] = x
      /\ \A k \in 1 .. n : t[k] = s[k]
  BY <1>1
<1>3. ToSet(t) = {t[k] : k \in 1 .. n + 1} /\ ToSet(s) = {s[k] : k \in 1 .. n}
  BY <1>2 DEF ToSet
<1>4. 1 .. n + 1 = (1 .. n) \cup {n + 1}
  BY <1>2
<1>5. ToSet(t) = ToSet(s) \cup {x}
  BY <1>2, <1>3, <1>4
<1>6. Len(Append(s, x)) = Len(s) + 1 /\ Append(s, x) \in Seq(S)
  OBVIOUS
<1> QED BY <1>1, <1>5, <1>6

LEMMA TailOfQueue ==
  ASSUME NEW S, NEW s \in Seq(S), s # <<>>
  PROVE  /\ ToSet(s) = {Head(s)} \cup ToSet(Tail(s)) /\ Head(s) \in S
         /\ Len(Tail(s)) = Len(s) - 1 /\ Len(s) \in Nat /\ Tail(s) \in Seq(S)
<1>1. s \in Seq(ToSet(s))
  BY SequenceSet
<1>2. ToSet(s) = {Head(s)} \cup ToSet(Tail(s))
  BY <1>1, HeadTail
<1> QED BY <1>2

LEMMA ClosedKept == ASSUME world' = world PROVE ExtraCodeIsClosed' <=> ExtraCodeIsClosed
<1>1. Items' = Items
  BY ItemsKept
<1>2. \A c : ExtraTasks(c)' = ExtraTasks(c)
  BY DEF ExtraTasks
<1>3. \A impl : ExtraCode(impl)' = ExtraCode(impl)
  BY DEF ExtraCode
<1>4. \A call : Met(call, {})' <=> Met(call, {})
  BY MetKept
<1>5. \A call : Met(call, PinnedBy(Items))' <=> Met(call, PinnedBy(Items))
  <2>1. PICK P : P = PinnedBy(Items)
    OBVIOUS
  <2>2. PinnedBy(Items)' = P
    <3>1. PICK S : S = Items
      OBVIOUS
    <3>2. PinnedBy(S)' = PinnedBy(S)
      BY OrderKept
    <3>3. PinnedBy(Items)' = PinnedBy(S)'
      BY <1>1, <3>1 DEF PinnedBy
    <3> QED BY <2>1, <3>1, <3>2, <3>3
  <2>3. ASSUME NEW call
        PROVE  Met(call, PinnedBy(Items))' <=> Met(call, PinnedBy(Items))
    <3>1. Met(call, P)' <=> Met(call, P)
      BY MetKept
    <3>2. Met(call, PinnedBy(Items))' <=> Met(call, P)'
      BY <2>2 DEF Met
    <3> QED BY <2>1, <3>1, <3>2
  <2> QED BY <2>3
<1> QED BY <1>1, <1>2, <1>3, <1>4, <1>5, Zenon DEF ExtraCodeIsClosed, Calls

LEMMA ClientTask ==
  ASSUME NEW app, NEW t \in ToSet(ClientTasks(app))
  PROVE  \E i \in DOMAIN app : t.script = app[i].script /\ t.of = [protocol |-> None, impl |-> FALSE]
<1>1. PICK of : of = [protocol |-> None, impl |-> FALSE]
  OBVIOUS
<1>2. ClientTasks(app) = [i \in DOMAIN app |-> [of |-> of, package |-> Main, file |-> app[i].file,
                                                script |-> app[i].script]]
  BY <1>1, Zenon DEF ClientTasks
<1>3. PICK i \in DOMAIN app :
        t = [of |-> of, package |-> Main, file |-> app[i].file, script |-> app[i].script]
  BY <1>2 DEF ToSet
<1>4. t.script = app[i].script /\ t.of = of
  BY <1>3
<1> QED BY <1>1, <1>4, Zenon

(* Extra code fails for what is not there.                                 *)
LEMMA FailNotClosed ==
  ASSUME NamesInv, CodeInv, AttemptsInv, OrderInv, Fail
  PROVE  ~ExtraCodeIsClosed
<1>1. stage \in {"util", "impl", "client"} /\ mode = "body" /\ left # <<>> /\ Fails(Head(left))
  BY DEF Fail
<1>2. PICK t, s, c : t = Head(queue) /\ s = t.script /\ c = Head(left)
  OBVIOUS
<1>3. s \in Seq(ToSet(s))
  BY <1>1, <1>2, ScriptIs
<1>4. PICK k : IsFrom(left, s, k)
  BY <1>1, <1>2 DEF AttemptsInv, AtInv, BodyAt
<1>5. c \in ToSet(s)
  BY <1>1, <1>2, <1>3, <1>4, RestIs
<1>6. t \in ToSet(queue)
  <2>1. queue # <<>> /\ queue \in Seq(ToSet(queue))
    BY <1>1 DEF NamesInv, TasksInv, AreTasks
  <2> QED BY <1>2, <2>1, TailSet
<1>7. c.do \in {"util", "impl", "unlessImpl"} => c.of # None
  <2>1. IsScript(left)
    BY <1>1 DEF NamesInv, TasksInv
  <2> QED BY <1>1, <1>2, <2>1, TailSet DEF IsScript
<1>8. Fails(c)
  BY <1>1, <1>2
<1>9. CASE stage = "util"
  <2>1. UtilTask(t, t.of.protocol)
    BY <1>6, <1>9 DEF CodeInv, QueueCode
  <2>2. PICK d : d = UtilCode(t.of.protocol)
    OBVIOUS
  <2>3. t \in ToSet(ExtraTasks(d))
    BY <2>1, <2>2, CodeOfTask
  <2>4. d \in ExtraCode(FALSE)
    BY <2>1, <2>2 DEF UtilTask, UtilCode, ExtraCode
  <2>5. PICK C : C = ExtraCode(FALSE)
    OBVIOUS
  <2>6. ExtraCodeIsClosed =>
          \A e \in UNION {ToSet(ExtraTasks(x)) : x \in C} :
            \A call \in ToSet(e.script) : call.do \in {"ext", "once"}
    BY <2>5, Zenon DEF ExtraCodeIsClosed, Calls
  <2>7. ExtraCodeIsClosed => c.do \in {"ext", "once"}
    BY <1>2, <1>5, <2>3, <2>4, <2>5, <2>6
  <2> QED BY <1>8, <2>7 DEF Fails
<1>10. CASE stage = "impl"
  <2>1. ImplTask(t, t.of.protocol)
    BY <1>6, <1>10 DEF CodeInv, QueueCode
  <2>2. PICK d : d = ImplCode(t.of.protocol)
    OBVIOUS
  <2>3. t \in ToSet(ExtraTasks(d))
    BY <2>1, <2>2, CodeOfTask
  <2>4. d \in ExtraCode(TRUE)
    BY <2>1, <2>2 DEF ImplTask, ImplCode, ExtraCode
  <2>5. PICK C : C = ExtraCode(TRUE)
    OBVIOUS
  <2>6. ExtraCodeIsClosed =>
          \A e \in UNION {ToSet(ExtraTasks(x)) : x \in C} :
            \A call \in ToSet(e.script) : call.do \in {"ext", "once", "util"} /\ Met(call, {})
    BY <2>5, Zenon DEF ExtraCodeIsClosed, Calls
  <2>7. ExtraCodeIsClosed => c.do \in {"ext", "once", "util"} /\ Met(c, {})
    BY <1>2, <1>5, <2>3, <2>4, <2>5, <2>6
  <2>8. Met(c, {}) => Met(c, Pinned)
    BY MetMore
  <2>9. c.do # "impl" /\ Met(c, Pinned) => ~Fails(c)
    BY <1>7, <1>10, FailsBy
  <2> QED BY <1>8, <2>7, <2>8, <2>9
<1>11. CASE stage = "client"
  <2>1. t \in ToSet(ClientTasks(world.client))
    BY <1>6, <1>11 DEF CodeInv, QueueCode
  <2>2. PICK i \in DOMAIN world.client : s = world.client[i].script
    BY <1>2, <2>1, ClientTask
  <2>3. world.client[i] \in ToSet(world.client)
    BY DEF ToSet
  <2>4. ExtraCodeIsClosed => Met(c, PinnedBy(Items))
    BY <1>5, <2>2, <2>3, Zenon DEF ExtraCodeIsClosed, Calls
  <2>5. PinnedBy(Items) \subseteq Pinned
    BY <1>11 DEF OrderInv, AttemptsInv, GrowInv
  <2>6. ExtraCodeIsClosed => Met(c, Pinned)
    BY <2>4, <2>5, MetMore
  <2>7. Met(c, Pinned) => ~Fails(c)
    BY <1>7, <1>11, FailsBy
  <2> QED BY <1>8, <2>6, <2>7
<1> QED BY <1>1, <1>9, <1>10, <1>11

LEMMA SameOrder ==
  ASSUME OrderInv, world' = world, Settling' = Settling, UNCHANGED <<stage, queue, postponed, size>>
  PROVE  OrderInv'
<1>1. Items' = Items
  BY ItemsKept
<1>2. PassInv' <=> PassInv
  <2>1. PICK W, P, S, T : W = Waiting /\ P = Settling /\ S = Items \ W /\ T = ToSet(postponed)
    OBVIOUS
  <2>2. Waiting' = W
    BY <2>1 DEF Waiting
  <2>3. /\ AreDone(S, P)' <=> AreDone(S, P)
        /\ Ordered(P)' <=> Ordered(P)
        /\ NoneReady(T, S)' <=> NoneReady(T, S)
    BY PassKept
  <2>4. AreDone(Items \ Waiting, Settling)' <=> AreDone(S, P)'
    BY <1>1, <2>1, <2>2 DEF AreDone
  <2>5. Ordered(Settling)' <=> Ordered(P)'
    BY <2>1 DEF Ordered
  <2>6. NoneReady(ToSet(postponed), Items \ Waiting)' <=> NoneReady(T, S)'
    <3>1. (Items \ Waiting)' = S /\ ToSet(postponed)' = T
      BY <1>1, <2>1, <2>2
    <3> QED BY <3>1, Zenon DEF NoneReady, ReadyNamed, Ready
  <2> QED BY <2>1, <2>3, <2>4, <2>5, <2>6 DEF PassInv
<1>3. PinnedBy(Items)' = PinnedBy(Items)
  <2>1. PICK S : S = Items
    OBVIOUS
  <2>2. PinnedBy(S)' = PinnedBy(S)
    BY OrderKept
  <2>3. PinnedBy(Items)' = PinnedBy(S)'
    BY <1>1, <2>1 DEF PinnedBy
  <2> QED BY <2>1, <2>2, <2>3
<1>4. /\ RenderableNamed' <=> RenderableNamed
      /\ RenderableBody' <=> RenderableBody
      /\ ExtraCodeIsClosed' <=> ExtraCodeIsClosed
  BY OrderKept, ClosedKept
<1> QED BY <1>2, <1>3, <1>4 DEF OrderInv

LEMMA PassIs ==
  ASSUME world' = world, NEW W, W = Waiting', NEW P, P = Settling',
         AreDone(Items \ W, P), Ordered(P), size' \in Nat, Len(queue') + Len(postponed') <= size',
         Len(queue') + Len(postponed') = size' => NoneReady(ToSet(postponed'), Items \ W)
  PROVE  PassInv'
<1>1. PICK S, T : S = Items \ W /\ T = ToSet(postponed')
  OBVIOUS
<1>2. Items' = Items
  BY ItemsKept
<1>3. /\ AreDone(S, P)' <=> AreDone(S, P)
      /\ Ordered(P)' <=> Ordered(P)
      /\ NoneReady(T, S)' <=> NoneReady(T, S)
  BY PassKept
<1>4. AreDone(Items \ Waiting, Settling)' <=> AreDone(S, P)'
  BY <1>1, <1>2 DEF AreDone
<1>5. Ordered(Settling)' <=> Ordered(P)'
  BY <1>1 DEF Ordered
<1>6. NoneReady(ToSet(postponed), Items \ Waiting)' <=> NoneReady(T, S)'
  <2>1. (Items \ Waiting)' = S /\ ToSet(postponed)' = T
    BY <1>1, <1>2
  <2> QED BY <2>1, Zenon DEF NoneReady, ReadyNamed, Ready
<1> QED BY <1>1, <1>3, <1>4, <1>5, <1>6 DEF PassInv

LEMMA PinnedByItems == ASSUME world' = world PROVE PinnedBy(Items)' = PinnedBy(Items)
<1>1. Items' = Items
  BY ItemsKept
<1>2. PICK S : S = Items
  OBVIOUS
<1>3. PinnedBy(S)' = PinnedBy(S)
  BY OrderKept
<1>4. PinnedBy(Items)' = PinnedBy(S)'
  BY <1>1, <1>2 DEF PinnedBy
<1> QED BY <1>2, <1>3, <1>4

LEMMA CommitOrder ==
  ASSUME NamesInv, CodeInv, AttemptsInv, OrderInv, CommitFile
  PROVE  OrderInv'
<1>1. /\ world' = world /\ UNCHANGED <<stage, postponed, size>> /\ mode = "body" /\ left = <<>>
      /\ queue' = Tail(queue) /\ Commit(Head(queue).of)
  BY DEF CommitFile
<1>2. /\ StateInv /\ stage \in {"util", "impl", "objects", "client"} /\ queue # <<>>
      /\ postponed \in Seq(Items) /\ (stage = "objects" => queue \in Seq(Items))
  BY <1>1 DEF NamesInv, Inv, TasksInv, QueueInv
<1>3. PICK u, of, f : u = Head(queue) /\ of = u.of /\ f = current.file
  OBVIOUS
<1>4. Settling' = Pinned /\ Settling \subseteq Pinned
  <2>1. Commit(of) /\ StateInv /\ mode = "body"
    BY <1>1, <1>2, <1>3
  <2>2. committed' = current.namespace
    BY <1>3, <2>1, CommitMarks
  <2> QED BY <2>2 DEF Settling, Pinned, AttemptsInv, GrowInv
<1>5. stage = "objects" => PassInv'
  <2> SUFFICES ASSUME stage = "objects"
               PROVE  PassInv'
    OBVIOUS
  <2>1. /\ Pinned \subseteq Settling \cup Pins(u.script) /\ Pins(u.script) \subseteq Pinned
        /\ Runs(u.script, Settling)
    BY <1>1, <1>3, EndOfAttempt
  <2>2. u \in Items /\ ToSet(queue) = {u} \cup ToSet(queue') /\ Len(queue') = Len(queue) - 1
        /\ Len(queue) \in Nat /\ queue' \in Seq(Items)
    BY <1>1, <1>2, <1>3, TailOfQueue
  <2>3. PICK W : W = Waiting'
    OBVIOUS
  <2>4. Waiting \subseteq {u} \cup W
    BY <1>1, <2>2, <2>3 DEF Waiting
  <2>5. AreDone(Items \ Waiting, Settling) /\ Ordered(Settling)
        /\ Len(queue) + Len(postponed) <= size /\ size \in Nat
    BY DEF OrderInv, PassInv
  <2>6. AreDone(Items \ W, Pinned)
    <3>1. AreDone(Items \ Waiting, Pinned)
      BY <1>4, <2>5, DoneMore
    <3>2. Pins(u.script) \subseteq Pinned /\ Runs(u.script, Pinned)
      BY <1>4, <2>1, RunsMore
    <3> QED BY <2>4, <3>1, <3>2 DEF AreDone
  <2>7. Ordered(Pinned)
    BY <2>1, <2>2, <2>5, OrderedMore
  <2>8. Len(queue') + Len(postponed') <= size' /\ Len(queue') + Len(postponed') # size'
    <3>1. PICK a, b, c, z : a = Len(queue) /\ b = Len(postponed) /\ c = Len(queue') /\ z = size
      OBVIOUS
    <3>2. a \in Nat /\ b \in Nat /\ c = a - 1 /\ a + b <= z
      BY <1>2, <2>2, <2>5, <3>1
    <3>3. z \in Int
      BY <2>5, <3>1
    <3> QED BY <1>1, <3>1, <3>2, <3>3
  <2>9. size' \in Nat /\ Settling' = Pinned
    BY <1>1, <1>4, <2>5
  <2>10. PICK P : P = Pinned
    OBVIOUS
  <2>11. P = Settling' /\ AreDone(Items \ W, P) /\ Ordered(P)
    BY <2>6, <2>7, <2>9, <2>10
  <2> QED BY <1>1, <2>3, <2>8, <2>9, <2>11, PassIs
<1>6. PinnedBy(Items)' = PinnedBy(Items)
  BY <1>1, PinnedByItems
<1>7. RenderableBody' <=> RenderableBody
  BY <1>1, OrderKept
<1> QED BY <1>1, <1>2, <1>4, <1>5, <1>6, <1>7 DEF OrderInv

LEMMA PostponeOrder ==
  ASSUME NamesInv, CodeInv, AttemptsInv, OrderInv, Postpone
  PROVE  OrderInv'
<1>1. /\ world' = world /\ UNCHANGED <<stage, size, committed>> /\ stage = "objects"
      /\ mode # "next" /\ left # <<>> /\ Fails(Head(left))
      /\ postponed' = Append(postponed, Head(queue)) /\ queue' = Tail(queue)
  BY DEF Postpone, manager
<1>2. queue \in Seq(Items) /\ postponed \in Seq(Items) /\ queue # <<>>
  BY <1>1 DEF NamesInv, Inv, QueueInv
<1>3. PICK u, W, P : u = Head(queue) /\ W = Waiting /\ P = Settling
  OBVIOUS
<1>4. /\ u \in Items /\ ToSet(queue) = {u} \cup ToSet(queue') /\ Len(queue') = Len(queue) - 1
      /\ Len(queue) \in Nat
  BY <1>1, <1>2, <1>3, TailOfQueue
<1>5. ToSet(postponed') = ToSet(postponed) \cup {u} /\ Len(postponed') = Len(postponed) + 1
  BY <1>1, <1>2, <1>3, <1>4, AppendSet
<1>6. Waiting' = W /\ Settling' = P
  BY <1>1, <1>3, <1>4, <1>5 DEF Waiting, Settling
<1>7. /\ AreDone(Items \ W, P) /\ Ordered(P) /\ Len(queue) + Len(postponed) <= size
      /\ size \in Nat
      /\ Len(queue) + Len(postponed) = size => NoneReady(ToSet(postponed), Items \ W)
  BY <1>1, <1>3 DEF OrderInv, PassInv
<1>8. Len(queue') + Len(postponed') = Len(queue) + Len(postponed)
  <2>1. Len(postponed) \in Nat
    BY <1>2
  <2> QED BY <1>4, <1>5, <2>1
<1>9. ~ReadyNamed(u, Items \ W)
  <2>1. PinnedBy(Items \ W) \subseteq Settling
    BY <1>3, <1>7, DonePins
  <2> QED BY <1>1, <1>3, <2>1, PostponedNotReady
<1>10. Len(queue') + Len(postponed') = size' => NoneReady(ToSet(postponed'), Items \ W)
  BY <1>1, <1>5, <1>7, <1>8, <1>9 DEF NoneReady
<1>11. PassInv'
  BY <1>1, <1>6, <1>7, <1>8, <1>10, PassIs
<1> QED BY <1>1, <1>11 DEF OrderInv

(* A pass begins: nothing has been postponed in it.                        *)
LEMMA PassBegins ==
  ASSUME world' = world, postponed' = <<>>, size' = Len(queue'), NEW S, queue' \in Seq(S),
         NEW P, P = Settling', AreDone(Items \ ToSet(queue'), P), Ordered(P)
  PROVE  PassInv'
<1>1. PICK W : W = Waiting'
  OBVIOUS
<1>2. ToSet(postponed') = {} /\ Len(postponed') = 0
  <2>1. Len(<<>>) = 0
    OBVIOUS
  <2> QED BY <2>1, EmptyText
<1>3. W = ToSet(queue')
  BY <1>1, <1>2 DEF Waiting
<1>4. Len(queue') + Len(postponed') <= size' /\ size' \in Nat
  <2>1. PICK n : n = Len(queue')
    OBVIOUS
  <2>2. n \in Nat
    <3>1. PICK q : q = queue'
      OBVIOUS
    <3>2. q \in Seq(S)
      BY <3>1
    <3> QED BY <2>1, <3>1, <3>2
  <2> QED BY <1>2, <2>1, <2>2
<1>5. NoneReady(ToSet(postponed'), Items \ W)
  BY <1>2 DEF NoneReady
<1> QED BY <1>1, <1>3, <1>4, <1>5, PassIs

LEMMA OrderNext ==
  ASSUME NamesInv, CodeInv, AttemptsInv, OrderInv, [Next]_vars
  PROVE  OrderInv'
<1>1. /\ world' = world /\ world \in Worlds /\ Shapes /\ postponed \in Seq(Items)
      /\ stage = "objects" => queue \in Seq(Items)
  BY WorldKept DEF NamesInv, Inv, QueueInv, StateInv
<1>2. Items' = Items /\ PinnedBy(Items)' = PinnedBy(Items)
  BY <1>1, ItemsKept, PinnedByItems
<1>3. /\ RenderableNamed' <=> RenderableNamed
      /\ RenderableBody' <=> RenderableBody
      /\ ExtraCodeIsClosed' <=> ExtraCodeIsClosed
  BY <1>1, OrderKept, ClosedKept
<1>4. CASE NextProtocol \/ StartImplementations
  <2>1. UNCHANGED postponed /\ stage \in {"util", "impl"} /\ stage' \in {"util", "impl"}
    BY <1>4 DEF NextProtocol, StartImplementations
  <2> QED BY <2>1 DEF OrderInv
<1>5. CASE BeginTemplate \/ BeginBody
  <2>1. PICK t : t = Head(queue)
    OBVIOUS
  <2>2. /\ UNCHANGED <<stage, queue, postponed, size>>
        /\ \/ BeginFile(t.file, t.package)
           \/ \E protocol, impl : BeginExtraFile(t.file, t.package, protocol, impl)
    BY <1>5, <2>1 DEF BeginTemplate, BeginBody
  <2>3. MarksKept
    BY <2>2, BeginMarks
  <2>4. Settling' = Settling
    BY <2>3 DEF MarksKept, TextsKept, Settling
  <2> QED BY <1>1, <2>2, <2>4, SameOrder
<1>6. CASE Fail
  <2>1. stage' = "failed"
    BY <1>6 DEF Fail
  <2>2. ~ExtraCodeIsClosed
    BY <1>6, FailNotClosed
  <2> QED BY <1>3, <2>1, <2>2 DEF OrderInv
<1>7. CASE BeginName \/ UNCHANGED vars
  <2>1. UNCHANGED <<stage, queue, postponed, size, committed>>
    BY <1>7 DEF BeginName, vars, work, manager
  <2>2. Settling' = Settling
    BY <2>1 DEF Settling
  <2> QED BY <1>1, <2>1, <2>2, SameOrder
<1>8. CASE Execute
  <2>1. UNCHANGED <<stage, queue, postponed, size>>
    BY <1>8 DEF Execute
  <2>2. PICK call : call = Head(left)
    OBVIOUS
  <2>3. Call(call)
    BY <1>8, <2>2 DEF Execute
  <2>4. MarksKept
    BY <1>1, <2>3, CallMarks
  <2>5. Settling' = Settling
    BY <2>4 DEF MarksKept, TextsKept, Settling
  <2> QED BY <1>1, <2>1, <2>5, SameOrder
<1>9. CASE CommitFile
  BY <1>9, CommitOrder
<1>10. CASE Postpone
  BY <1>10, PostponeOrder
<1>11. CASE NextPass
  <2>1. /\ UNCHANGED <<stage, committed>> /\ stage = "objects" /\ queue = <<>>
        /\ queue' = postponed /\ size' = Len(postponed) /\ postponed' = <<>>
    BY <1>11 DEF NextPass, Idle, manager
  <2>2. PICK P, S : P = Settling /\ S = Items
    OBVIOUS
  <2>3. P = Settling' /\ queue' \in Seq(S) /\ size' = Len(queue')
    BY <1>1, <2>1, <2>2 DEF Settling
  <2>4. AreDone(Items \ ToSet(queue'), P) /\ Ordered(P)
    BY <2>1, <2>2, NothingWaits DEF OrderInv, PassInv
  <2>5. PassInv'
    BY <1>1, <2>1, <2>3, <2>4, PassBegins
  <2> QED BY <2>1, <2>5 DEF OrderInv
<1>12. CASE NotPinned
  <2>1. /\ stage = "objects" /\ queue = <<>> /\ postponed # <<>> /\ Len(postponed) = size
        /\ stage' = "not pinned"
    BY <1>12 DEF NotPinned, Idle
  <2>2. Len(queue) + Len(postponed) = size
    <3>1. PICK n, m : n = Len(postponed) /\ m = Len(queue)
      OBVIOUS
    <3>2. n \in Nat
      BY <1>1, <3>1
    <3>3. m = 0
      <4>1. Len(<<>>) = 0
        OBVIOUS
      <4> QED BY <2>1, <3>1, <4>1
    <3>4. m + n = n
      BY <3>2, <3>3
    <3>5. n = size
      BY <2>1, <3>1, Zenon
    <3> QED BY <3>1, <3>4, <3>5, Zenon
  <2>3. PICK S : S = Items \ ToSet(postponed)
    OBVIOUS
  <2>4. \A i \in ToSet(postponed) : ~ReadyNamed(i, S)
    BY <2>1, <2>2, <2>3, NothingWaits DEF OrderInv, PassInv, NoneReady
  <2>5. S # Items
    <3>1. postponed \in Seq(ToSet(postponed)) /\ ToSet(postponed) \subseteq Items
      BY <1>1, SequenceSet
    <3>2. Head(postponed) \in ToSet(postponed)
      BY <2>1, <3>1, TailSet
    <3> QED BY <2>3, <3>1, <3>2
  <2>6. ~RenderableNamed
    BY <2>3, <2>4, <2>5, RenderableIs
  <2> QED BY <1>3, <2>1, <2>6 DEF OrderInv
<1>13. CASE StartObjects
  <2>1. /\ UNCHANGED <<committed, postponed>> /\ stage = "impl" /\ stage' = "objects"
        /\ queue' = world.queue /\ size' = Len(world.queue)
    BY <1>13 DEF StartObjects, manager
  <2>2. postponed' = <<>> /\ Settling = {}
    BY <2>1 DEF OrderInv, AttemptsInv, GrowInv
  <2>3. PICK P, S : P = Settling /\ S = Items
    OBVIOUS
  <2>4. P = {} /\ P = Settling' /\ size' = Len(queue')
    BY <2>1, <2>2, <2>3 DEF Settling
  <2>5. queue' \in Seq(S)
    BY <1>1, <2>1, <2>3, RenderingAssumption DEF Items, AreTasks
  <2>6. ToSet(queue') = Items
    BY <2>1 DEF Items
  <2>7. AreDone(Items \ ToSet(queue'), P) /\ Ordered(P)
    BY <2>4, <2>6 DEF AreDone, Ordered
  <2>8. PassInv'
    BY <1>1, <2>2, <2>4, <2>5, <2>7, PassBegins
  <2> QED BY <2>1, <2>8 DEF OrderInv
<1>14. CASE StartClient
  <2>1. /\ UNCHANGED committed /\ stage = "objects" /\ stage' = "client"
        /\ queue = <<>> /\ postponed = <<>>
    BY <1>14 DEF StartClient, Idle, manager
  <2>2. Waiting = {}
    BY <2>1, NothingWaits, EmptyText
  <2>3. AreDone(Items, Settling) /\ Ordered(Settling)
    BY <2>1, <2>2 DEF OrderInv, PassInv
  <2>4. PICK P : P = Settling
    OBVIOUS
  <2>5. RenderableBody /\ PinnedBy(Items) \subseteq P
    BY <2>3, <2>4, AllDone
  <2>6. Settling' = P
    BY <2>1, <2>4 DEF Settling
  <2> QED BY <1>2, <1>3, <2>1, <2>5, <2>6 DEF OrderInv
<1>15. CASE Finish
  <2>1. UNCHANGED committed /\ stage = "client" /\ stage' = "finished"
    BY <1>15 DEF Finish, manager
  <2>2. Settling' = Settling
    BY <2>1 DEF Settling
  <2> QED BY <1>2, <1>3, <2>1, <2>2 DEF OrderInv
<1> QED
  BY <1>4, <1>5, <1>6, <1>7, <1>8, <1>9, <1>10, <1>11, <1>12, <1>13, <1>14, <1>15 DEF Next

LEMMA InitOrder == Init => OrderInv
BY DEF Init, OrderInv

-----------------------------------------------------------------------------
(* How often an item is in a queue and in the text *)

Where(s, E) == {k \in DOMAIN s : s[k] \in E}
Hits(s, E) == Cardinality(Where(s, E))

LEMMA WhereFinite ==
  ASSUME NEW S, NEW s \in Seq(S), NEW E
  PROVE  IsFiniteSet(Where(s, E)) /\ Hits(s, E) \in Nat /\ ((Hits(s, E) = 0) <=> (Where(s, E) = {}))
<1>1. PICK n : n = Len(s)
  OBVIOUS
<1>2. n \in Nat /\ DOMAIN s = 1 .. n
  BY <1>1
<1>3. IsFiniteSet(1 .. n)
  BY <1>2, FS_Interval
<1>4. Where(s, E) \subseteq 1 .. n
  BY <1>2 DEF Where
<1>5. IsFiniteSet(Where(s, E))
  BY <1>3, <1>4, FS_Subset
<1> QED BY <1>5, FS_CardinalityType, FS_EmptySet DEF Hits

LEMMA HitsEmpty == ASSUME NEW E PROVE Hits(<<>>, E) = 0
<1>1. Where(<<>>, E) = {}
  BY EmptyText DEF Where
<1> QED BY <1>1, FS_EmptySet DEF Hits

LEMMA HitsAppend ==
  ASSUME NEW S, NEW s \in Seq(S), NEW x \in S, NEW E
  PROVE  /\ x \in E => Hits(Append(s, x), E) = Hits(s, E) + 1
         /\ x \notin E => Hits(Append(s, x), E) = Hits(s, E)
<1>1. PICK n, t : n = Len(s) /\ t = Append(s, x)
  OBVIOUS
<1>2. /\ n \in Nat /\ DOMAIN s = 1 .. n /\ DOMAIN t = 1 .. n + 1 /\ t[n + 1] = x
      /\ \A k \in 1 .. n : t[k] = s[k]
  BY <1>1
<1>3. 1 .. n + 1 = (1 .. n) \cup {n + 1} /\ n + 1 \notin 1 .. n
  BY <1>2
<1>4. x \in E => Where(t, E) = Where(s, E) \cup {n + 1}
  BY <1>2, <1>3 DEF Where
<1>5. x \notin E => Where(t, E) = Where(s, E)
  BY <1>2, <1>3 DEF Where
<1>6. n + 1 \notin Where(s, E) /\ IsFiniteSet(Where(s, E))
  BY <1>2, <1>3, WhereFinite DEF Where
<1>7. x \in E => Hits(t, E) = Hits(s, E) + 1
  BY <1>4, <1>6, FS_AddElement DEF Hits
<1> QED BY <1>1, <1>5, <1>7 DEF Hits

LEMMA HitsTail ==
  ASSUME NEW S, NEW s \in Seq(S), s # <<>>, NEW E
  PROVE  /\ Head(s) \in E => Hits(s, E) = Hits(Tail(s), E) + 1
         /\ Head(s) \notin E => Hits(s, E) = Hits(Tail(s), E)
<1>1. PICK n, t : n = Len(s) /\ t = Tail(s)
  OBVIOUS
<1>2. /\ Head(s) = s[1] /\ n \in Nat \ {0} /\ DOMAIN s = 1 .. n
      /\ t \in Seq(S) /\ Len(t) = n - 1 /\ \A j \in 1 .. n - 1 : t[j] = s[j + 1]
  BY <1>1, TailAt
<1>3. DOMAIN t = 1 .. n - 1
  BY <1>2
<1> DEFINE A == Where(t, E)
           B == {k \in Where(s, E) : k # 1}
           next == [k \in A |-> k + 1]
<1>4. IsFiniteSet(A)
  BY <1>2, WhereFinite
<1>5. \A k \in A : k + 1 \in B /\ k \in Int
  <2> SUFFICES ASSUME NEW k \in A
               PROVE  k + 1 \in B /\ k \in Int
    OBVIOUS
  <2>1. k \in 1 .. n - 1 /\ t[k] \in E
    BY <1>3 DEF Where
  <2>2. k + 1 \in 1 .. n /\ k + 1 # 1 /\ s[k + 1] = t[k]
    BY <1>2, <2>1
  <2> QED BY <1>2, <2>1, <2>2 DEF Where
<1>6. \A k \in B : k - 1 \in A /\ (k - 1) + 1 = k
  <2> SUFFICES ASSUME NEW k \in B
               PROVE  k - 1 \in A /\ (k - 1) + 1 = k
    OBVIOUS
  <2>1. k \in 1 .. n /\ k # 1 /\ s[k] \in E
    BY <1>2 DEF Where
  <2>2. k - 1 \in 1 .. n - 1 /\ (k - 1) + 1 = k
    BY <1>2, <2>1
  <2>3. t[k - 1] = s[k]
    BY <1>2, <2>2
  <2> QED BY <1>3, <2>1, <2>2, <2>3 DEF Where
<1>7. next \in Bijection(A, B)
  <2>1. next \in [A -> B]
    BY <1>5
  <2>2. \A k, l \in A : next[k] = next[l] => k = l
    BY <1>5
  <2>3. \A k \in B : \E l \in A : next[l] = k
    <3> SUFFICES ASSUME NEW k \in B
                 PROVE  \E l \in A : next[l] = k
      OBVIOUS
    <3>1. k - 1 \in A /\ next[k - 1] = k
      BY <1>6
    <3> QED BY <3>1
  <2> HIDE DEF A, B, next
  <2> QED BY <2>1, <2>2, <2>3 DEF Bijection, Injection, Surjection, IsInjective
<1>8. IsFiniteSet(B) /\ Cardinality(B) = Cardinality(A)
  <2> HIDE DEF A, B, next
  <2> QED BY <1>4, <1>7, FS_Bijection DEF ExistsBijection
<1>9. /\ s[1] \in E => Where(s, E) = B \cup {1}
      /\ s[1] \notin E => Where(s, E) = B
  BY <1>2 DEF Where
<1>10. 1 \notin B
  OBVIOUS
<1>11. s[1] \in E => Cardinality(Where(s, E)) = Cardinality(B) + 1
  <2> HIDE DEF A, B, next
  <2> QED BY <1>8, <1>9, <1>10, FS_AddElement
<1> HIDE DEF B, next
<1> QED BY <1>1, <1>2, <1>8, <1>9, <1>11 DEF Hits

(* The items that are to be written to f for the object o.                 *)
Wanted(f, o) == {i \in Items : i.file = f /\ i.of = o}

LEMMA AskedIs ==
  ASSUME world \in Worlds, NEW f, NEW o
  PROVE  /\ Cardinality(Asked(f, o)) = Hits(world.queue, Wanted(f, o))
         /\ Hits(world.queue, Wanted(f, o)) \in Nat
         /\ Asked(f, o) = {} => Hits(world.queue, Wanted(f, o)) = 0
         /\ Hits(world.queue, Wanted(f, o)) = 0 => Asked(f, o) = {}
<1>1. PICK q, I : q = world.queue /\ I = Items
  OBVIOUS
<1>2. q \in Seq(I)
  BY <1>1, RenderingAssumption DEF Items, AreTasks
<1>3. \A k \in DOMAIN q : q[k] \in I
  BY <1>2
<1>4. Asked(f, o) = Where(q, Wanted(f, o))
  BY <1>1, <1>3 DEF Asked, Where, Wanted
<1> QED BY <1>1, <1>2, <1>4, WhereFinite DEF Hits

(* What has been written for o to f.                                       *)
WrittenTo(f, o) == {k \in Written(f, o) : f \in DOMAIN files}
Times(f, o) == Cardinality(WrittenTo(f, o))

LEMMA WrittenKept ==
  ASSUME MarksKept, NEW f, NEW o
  PROVE  WrittenTo(f, o)' = WrittenTo(f, o)
<1>1. CASE f \in DOMAIN files
  BY <1>1 DEF MarksKept, TextsKept, WrittenTo, Written
<1>2. CASE f \in DOMAIN files' \ DOMAIN files
  BY <1>2, EmptyText DEF MarksKept, TextsKept, WrittenTo, Written
<1>3. CASE f \notin DOMAIN files'
  BY <1>3 DEF MarksKept, TextsKept, WrittenTo, Written
<1> QED BY <1>1, <1>2, <1>3

LEMMA WrittenFinite ==
  ASSUME Shapes, NEW f, NEW o
  PROVE  /\ IsFiniteSet(WrittenTo(f, o)) /\ Times(f, o) \in Nat
         /\ (Times(f, o) = 0) <=> (WrittenTo(f, o) = {})
<1>1. IsFiniteSet(WrittenTo(f, o))
  <2>1. CASE f \in DOMAIN files
    <3>1. PICK t : t = files[f].text
      OBVIOUS
    <3>2. PICK S : S = ToSet(t)
      OBVIOUS
    <3>3. t \in Seq(S)
      BY <2>1, <3>1, <3>2 DEF Shapes, IsFile, IsText
    <3>4. PICK n : n = Len(t)
      OBVIOUS
    <3>5. n \in Nat /\ DOMAIN t = 1 .. n
      BY <3>3, <3>4
    <3>6. IsFiniteSet(1 .. n)
      BY <3>5, FS_Interval
    <3>7. WrittenTo(f, o) \subseteq 1 .. n
      BY <3>1, <3>5 DEF WrittenTo, Written
    <3> QED BY <3>6, <3>7, FS_Subset
  <2>2. CASE f \notin DOMAIN files
    <3>1. WrittenTo(f, o) = {}
      BY <2>2 DEF WrittenTo
    <3> QED BY <3>1, FS_EmptySet
  <2> QED BY <2>1, <2>2
<1> QED BY <1>1, FS_CardinalityType, FS_EmptySet DEF Times

(* What a commit writes counts once more.                                  *)
LEMMA CommitWritten ==
  ASSUME StateInv, mode = "body", NEW of, Commit(of), NEW file, file = current.file, NEW f, NEW o
  PROVE  /\ f = file /\ o = of => Times(f, o)' = Times(f, o) + 1
         /\ f # file \/ o # of => WrittenTo(f, o)' = WrittenTo(f, o) /\ Times(f, o)' = Times(f, o)
<1>1. /\ file \in DOMAIN files /\ DOMAIN files' = DOMAIN files
      /\ \A g \in DOMAIN files : g # file => files'[g] = files[g]
      /\ \E entry : /\ entry.of = of /\ IsText(files[file].text)
                    /\ files'[file].text = Append(files[file].text, entry)
  BY CommitMarks
<1>2. CASE f # file
  <2>1. WrittenTo(f, o)' = WrittenTo(f, o)
    <3>1. CASE f \in DOMAIN files
      BY <1>1, <1>2, <3>1 DEF WrittenTo, Written
    <3>2. CASE f \notin DOMAIN files
      BY <1>1, <3>2 DEF WrittenTo
    <3> QED BY <3>1, <3>2
  <2> QED BY <1>2, <2>1 DEF Times
<1>3. CASE f = file
  <2>1. PICK entry : /\ entry.of = of /\ IsText(files[file].text)
                     /\ files'[file].text = Append(files[file].text, entry)
    BY <1>1
  <2>2. PICK s, t, n : s = files[file].text /\ t = files'[file].text /\ n = Len(s)
    OBVIOUS
  <2>3. PICK S : S = ToSet(s)
    OBVIOUS
  <2>4. s \in Seq(S) /\ t = Append(s, entry)
    BY <2>1, <2>2, <2>3 DEF IsText
  <2>5. /\ n \in Nat /\ DOMAIN s = 1 .. n /\ DOMAIN t = 1 .. n + 1 /\ t[n + 1] = entry
        /\ \A k \in 1 .. n : t[k] = s[k]
    BY <2>2, <2>4
  <2>6. 1 .. n + 1 = (1 .. n) \cup {n + 1} /\ n + 1 \notin 1 .. n
    BY <2>5
  <2>7. WrittenTo(f, o) = {k \in 1 .. n : s[k].of = o}
    BY <1>1, <1>3, <2>2, <2>5 DEF WrittenTo, Written
  <2>8. WrittenTo(f, o)' = {k \in 1 .. n + 1 : t[k].of = o}
    BY <1>1, <1>3, <2>2, <2>5 DEF WrittenTo, Written
  <2>9. CASE o = of
    <3>1. WrittenTo(f, o)' = WrittenTo(f, o) \cup {n + 1} /\ n + 1 \notin WrittenTo(f, o)
      BY <2>1, <2>5, <2>6, <2>7, <2>8, <2>9
    <3>2. IsFiniteSet(WrittenTo(f, o))
      BY WrittenFinite DEF StateInv
    <3> QED BY <1>3, <2>9, <3>1, <3>2, FS_AddElement DEF Times
  <2>10. CASE o # of
    <3>1. WrittenTo(f, o)' = WrittenTo(f, o)
      BY <2>1, <2>5, <2>6, <2>7, <2>8, <2>10
    <3> QED BY <2>10, <3>1 DEF Times
  <2> QED BY <2>9, <2>10
<1> QED BY <1>2, <1>3

IsObject(o) == \E i \in Items : i.of = o

(* Every entry of the queue is written once.                               *)
Counted(f, o) ==
  /\ stage \in {"util", "impl"} => WrittenTo(f, o) = {}
  /\ stage = "objects" =>
       Times(f, o) + Hits(queue, Wanted(f, o)) + Hits(postponed, Wanted(f, o)) =
         Hits(world.queue, Wanted(f, o))
  /\ stage \in {"client", "finished"} => Times(f, o) = Hits(world.queue, Wanted(f, o))

OutputInv == stage = "finished" => output = {f \in DOMAIN files : HasLetters(f)}

CountInv ==
  /\ \A f, o : IsObject(o) => Counted(f, o)
  /\ OutputInv

LEMMA WantedKept ==
  ASSUME world' = world, NEW f, NEW o
  PROVE  /\ Wanted(f, o)' = Wanted(f, o) /\ (IsObject(o)' <=> IsObject(o))
         /\ Hits(world.queue, Wanted(f, o))' = Hits(world.queue, Wanted(f, o))
<1>1. Items' = Items
  BY ItemsKept
<1>2. Wanted(f, o)' = Wanted(f, o) /\ (IsObject(o)' <=> IsObject(o))
  BY <1>1 DEF Wanted, IsObject
<1> QED BY <1>2 DEF Hits, Where

LEMMA SameCount ==
  ASSUME world' = world, CountInv, MarksKept, UNCHANGED <<queue, postponed, output>>,
         \/ stage' = stage /\ UNCHANGED <<files>>
         \/ stage' = stage /\ stage # "finished"
         \/ stage' \in {"failed", "not pinned"}
         \/ stage = "util" /\ stage' = "impl"
  PROVE  CountInv'
<1>1. ASSUME NEW f, NEW o, IsObject(o)
      PROVE  Counted(f, o)'
  <2>1. WrittenTo(f, o)' = WrittenTo(f, o)
    BY WrittenKept
  <2>2. Times(f, o)' = Times(f, o)
    BY <2>1 DEF Times
  <2>3. /\ Wanted(f, o)' = Wanted(f, o)
        /\ Hits(world.queue, Wanted(f, o))' = Hits(world.queue, Wanted(f, o))
    BY WantedKept
  <2>4. /\ Hits(queue, Wanted(f, o))' = Hits(queue, Wanted(f, o))
        /\ Hits(postponed, Wanted(f, o))' = Hits(postponed, Wanted(f, o))
    BY <2>3 DEF Hits, Where
  <2>5. Counted(f, o)
    BY <1>1 DEF CountInv
  <2>6. \/ stage' = stage \/ stage' \in {"failed", "not pinned"}
        \/ stage = "util" /\ stage' = "impl"
    OBVIOUS
  <2> QED BY <2>1, <2>2, <2>3, <2>4, <2>5, <2>6 DEF Counted
<1>2. OutputInv'
  <2>1. stage' = "finished" => stage = "finished" /\ UNCHANGED <<files, output>>
    OBVIOUS
  <2> QED BY <2>1 DEF CountInv, OutputInv, HasLetters
<1>3. \A f, o : IsObject(o)' => Counted(f, o)'
  BY <1>1, WantedKept
<1> QED BY <1>2, <1>3 DEF CountInv

(* Extra code and the client application are not objects.                  *)
LEMMA CodeIsNoObject ==
  ASSUME NamesInv, CodeInv, mode = "body", stage \in {"util", "impl", "client"}
  PROVE  ~IsObject(Head(queue).of)
<1>1. world \in Worlds /\ AreTasks(queue) /\ queue # <<>>
  BY DEF NamesInv, Inv, QueueInv, TasksInv
<1>2. PICK t, of : t = Head(queue) /\ of = t.of
  OBVIOUS
<1>3. t \in ToSet(queue)
  BY <1>1, <1>2, TailSet DEF AreTasks
<1>4. \A i \in Items :
        i.of \notin [protocol : ToSet(world.util) \cup ToSet(world.impl) \cup {None}, impl : BOOLEAN]
  BY <1>1, RenderingAssumption DEF Items
<1>5. PICK N : N = ToSet(world.util) \cup ToSet(world.impl) \cup {None}
  OBVIOUS
<1>6. ASSUME NEW p \in N, NEW b \in BOOLEAN, of = [protocol |-> p, impl |-> b]
      PROVE  ~IsObject(of)
  <2>1. of \in [protocol : N, impl : BOOLEAN]
    BY <1>6
  <2> QED BY <1>4, <1>5, <2>1 DEF IsObject
<1>7. CASE stage = "util"
  <2>1. UtilTask(t, of.protocol)
    BY <1>2, <1>3, <1>7 DEF CodeInv, QueueCode
  <2>2. IsCode(of, stage = "impl")
    BY <1>2, <1>3, <1>7 DEF NamesInv, TasksInv
  <2>3. PICK b : b = (stage = "impl")
    OBVIOUS
  <2>4. of = [protocol |-> of.protocol, impl |-> b] /\ b \in BOOLEAN
    BY <2>2, <2>3 DEF IsCode
  <2>5. of.protocol \in N
    BY <1>5, <2>1 DEF UtilTask
  <2> QED BY <1>2, <1>6, <2>4, <2>5
<1>8. CASE stage = "impl"
  <2>1. ImplTask(t, of.protocol)
    BY <1>2, <1>3, <1>8 DEF CodeInv, QueueCode
  <2>2. IsCode(of, stage = "impl")
    BY <1>2, <1>3, <1>8 DEF NamesInv, TasksInv
  <2>3. PICK b : b = (stage = "impl")
    OBVIOUS
  <2>4. of = [protocol |-> of.protocol, impl |-> b] /\ b \in BOOLEAN
    BY <2>2, <2>3 DEF IsCode
  <2>5. of.protocol \in N
    BY <1>5, <2>1 DEF ImplTask
  <2> QED BY <1>2, <1>6, <2>4, <2>5
<1>9. CASE stage = "client"
  <2>1. t \in ToSet(ClientTasks(world.client))
    BY <1>3, <1>9 DEF CodeInv, QueueCode
  <2>2. of = [protocol |-> None, impl |-> FALSE]
    BY <1>2, <2>1, ClientTask, Zenon
  <2>3. None \in N
    BY <1>5
  <2> QED BY <1>2, <1>6, <2>2, <2>3
<1> QED BY <1>7, <1>8, <1>9

LEMMA CommitCount ==
  ASSUME NamesInv, CodeInv, CountInv, CommitFile
  PROVE  CountInv'
<1>1. /\ world' = world /\ UNCHANGED <<stage, postponed>> /\ mode = "body" /\ left = <<>>
      /\ queue' = Tail(queue) /\ Commit(Head(queue).of)
  BY DEF CommitFile
<1>2. /\ StateInv /\ stage \in {"util", "impl", "objects", "client"} /\ queue # <<>>
      /\ (stage = "objects" => queue \in Seq(Items)) /\ postponed \in Seq(Items)
  BY <1>1 DEF NamesInv, Inv, TasksInv, QueueInv
<1>3. PICK u, of, file : u = Head(queue) /\ of = u.of /\ file = u.file
  OBVIOUS
<1>4. Commit(of) /\ file = current.file
  BY <1>1, <1>3 DEF CodeInv, QueueCode
<1>5. SUFFICES ASSUME NEW f, NEW o, IsObject(o)
               PROVE  Counted(f, o)'
  BY <1>1, <1>2, WantedKept DEF CountInv, OutputInv
<1>6. /\ f = file /\ o = of => Times(f, o)' = Times(f, o) + 1
      /\ f # file \/ o # of => WrittenTo(f, o)' = WrittenTo(f, o) /\ Times(f, o)' = Times(f, o)
  BY <1>1, <1>2, <1>4, CommitWritten
<1>7. /\ Wanted(f, o)' = Wanted(f, o)
      /\ Hits(world.queue, Wanted(f, o))' = Hits(world.queue, Wanted(f, o))
  BY <1>1, WantedKept
<1>8. Counted(f, o)
  BY <1>5 DEF CountInv
<1>9. CASE stage \in {"util", "impl", "client"}
  <2>1. o # of
    BY <1>1, <1>3, <1>5, <1>9, CodeIsNoObject
  <2>2. stage' \in {"util", "impl", "client"} /\ stage' = stage
    BY <1>1, <1>9
  <2> QED BY <1>6, <1>7, <1>8, <2>1, <2>2 DEF Counted
<1>10. CASE stage = "objects"
  <2>1. PICK E, I, q, r : E = Wanted(f, o) /\ I = Items /\ q = queue /\ r = postponed
    OBVIOUS
  <2>2. q \in Seq(I) /\ r \in Seq(I) /\ q # <<>> /\ u \in I /\ Tail(q) \in Seq(I)
    BY <1>2, <1>3, <1>10, <2>1
  <2>3. u \in E <=> f = file /\ o = of
    BY <1>3, <2>1, <2>2 DEF Wanted
  <2>4. /\ u \in E => Hits(q, E) = Hits(Tail(q), E) + 1
        /\ u \notin E => Hits(q, E) = Hits(Tail(q), E)
    BY <1>3, <2>1, <2>2, HitsTail
  <2>5. PICK w, a, b, c, h : /\ w = Times(f, o) /\ a = Hits(q, E) /\ b = Hits(Tail(q), E)
                             /\ c = Hits(r, E) /\ h = Hits(world.queue, E)
    OBVIOUS
  <2>6. w \in Nat /\ a \in Nat /\ b \in Nat /\ c \in Nat
    BY <1>2, <2>2, <2>5, WhereFinite, WrittenFinite DEF StateInv
  <2>7. w + a + c = h
    BY <1>8, <1>10, <2>1, <2>5 DEF Counted
  <2>8. PICK v : v = Times(f, o)'
    OBVIOUS
  <2>9. (u \in E /\ v = w + 1 /\ a = b + 1) \/ (u \notin E /\ v = w /\ a = b)
    BY <1>6, <2>3, <2>4, <2>5, <2>8
  <2>10. v + b + c = h
    BY <2>6, <2>7, <2>9
  <2>11. /\ Hits(queue, Wanted(f, o))' = b /\ Hits(postponed, Wanted(f, o))' = c
         /\ Hits(world.queue, Wanted(f, o))' = h
    BY <1>1, <1>7, <2>1, <2>5 DEF Hits, Where
  <2> QED BY <1>1, <1>10, <2>8, <2>10, <2>11 DEF Counted
<1> QED BY <1>2, <1>9, <1>10

LEMMA PostponeCount ==
  ASSUME NamesInv, CountInv, Postpone
  PROVE  CountInv'
<1>1. /\ world' = world /\ UNCHANGED <<stage, files, committed>> /\ stage = "objects" /\ mode # "next"
      /\ postponed' = Append(postponed, Head(queue)) /\ queue' = Tail(queue)
  BY DEF Postpone, manager
<1>2. /\ Shapes /\ queue # <<>> /\ queue \in Seq(Items) /\ postponed \in Seq(Items)
  BY <1>1 DEF NamesInv, Inv, QueueInv, StateInv
<1>3. SUFFICES ASSUME NEW f, NEW o, IsObject(o)
               PROVE  Counted(f, o)'
  BY <1>1, WantedKept DEF CountInv, OutputInv
<1>4. MarksKept
  BY <1>1, SameMarks
<1>5. WrittenTo(f, o)' = WrittenTo(f, o)
  BY <1>4, WrittenKept
<1>6. /\ Wanted(f, o)' = Wanted(f, o)
      /\ Hits(world.queue, Wanted(f, o))' = Hits(world.queue, Wanted(f, o))
  BY <1>1, WantedKept
<1>7. Counted(f, o)
  BY <1>3 DEF CountInv
<1>8. PICK E, I, q, r, u : /\ E = Wanted(f, o) /\ I = Items /\ q = queue /\ r = postponed
                           /\ u = Head(queue)
  OBVIOUS
<1>9. q \in Seq(I) /\ r \in Seq(I) /\ q # <<>> /\ u \in I /\ Tail(q) \in Seq(I)
  BY <1>2, <1>8
<1>10. /\ u \in E => Hits(q, E) = Hits(Tail(q), E) + 1
       /\ u \notin E => Hits(q, E) = Hits(Tail(q), E)
  BY <1>8, <1>9, HitsTail
<1>11. /\ u \in E => Hits(Append(r, u), E) = Hits(r, E) + 1
       /\ u \notin E => Hits(Append(r, u), E) = Hits(r, E)
  BY <1>9, HitsAppend
<1>12. PICK w, a, b, c, d, h : /\ w = Times(f, o) /\ a = Hits(q, E) /\ b = Hits(Tail(q), E)
                               /\ c = Hits(r, E) /\ d = Hits(Append(r, u), E)
                               /\ h = Hits(world.queue, E)
  OBVIOUS
<1>13. w \in Nat /\ a \in Nat /\ b \in Nat /\ c \in Nat
  BY <1>2, <1>9, <1>12, WhereFinite, WrittenFinite
<1>14. w + a + c = h
  BY <1>1, <1>7, <1>8, <1>12 DEF Counted
<1>15. (a = b + 1 /\ d = c + 1) \/ (a = b /\ d = c)
  BY <1>10, <1>11, <1>12
<1>16. w + b + d = h
  BY <1>13, <1>14, <1>15
<1>17. /\ Hits(queue, Wanted(f, o))' = b /\ Hits(postponed, Wanted(f, o))' = d
       /\ Hits(world.queue, Wanted(f, o))' = h
  BY <1>1, <1>6, <1>8, <1>12 DEF Hits, Where
<1>18. Times(f, o)' = w
  BY <1>5, <1>12 DEF Times
<1> QED BY <1>1, <1>16, <1>17, <1>18 DEF Counted

LEMMA CountNext ==
  ASSUME NamesInv, CodeInv, OrderInv, CountInv, [Next]_vars
  PROVE  CountInv'
<1>1. /\ world' = world /\ world \in Worlds /\ Shapes /\ postponed \in Seq(Items)
      /\ mode = "name" => stage = "objects"
  BY WorldKept DEF NamesInv, Inv, QueueInv, StateInv
<1>2. ASSUME UNCHANGED <<files, committed>>, NEW f, NEW o, IsObject(o)
      PROVE  /\ WrittenTo(f, o)' = WrittenTo(f, o) /\ Times(f, o)' = Times(f, o)
             /\ Wanted(f, o)' = Wanted(f, o) /\ Counted(f, o) /\ Times(f, o) \in Nat
             /\ Hits(world.queue, Wanted(f, o))' = Hits(world.queue, Wanted(f, o))
  <2>1. WrittenTo(f, o)' = WrittenTo(f, o)
    BY <1>2, SameMarks, WrittenKept
  <2>2. Wanted(f, o)' = Wanted(f, o)
        /\ Hits(world.queue, Wanted(f, o))' = Hits(world.queue, Wanted(f, o))
    BY <1>1, WantedKept
  <2>3. Counted(f, o) /\ Times(f, o) \in Nat
    BY <1>1, <1>2, WrittenFinite DEF CountInv
  <2> QED BY <2>1, <2>2, <2>3 DEF Times
<1>3. ASSUME \A f, o : IsObject(o) => Counted(f, o)', OutputInv'
      PROVE  CountInv'
  BY <1>1, <1>3, WantedKept DEF CountInv
<1>4. CASE NextProtocol
  <2>1. UNCHANGED <<stage, files, committed>> /\ stage \in {"util", "impl"}
    BY <1>4 DEF NextProtocol, manager
  <2>2. \A f, o : IsObject(o) => Counted(f, o)'
    BY <1>2, <2>1 DEF Counted
  <2> QED BY <1>3, <2>1, <2>2 DEF OutputInv
<1>5. CASE BeginTemplate \/ BeginBody
  <2>1. PICK t : t = Head(queue)
    OBVIOUS
  <2>2. /\ UNCHANGED <<stage, queue, postponed, output>>
        /\ \/ BeginFile(t.file, t.package)
           \/ \E protocol, impl : BeginExtraFile(t.file, t.package, protocol, impl)
    BY <1>5, <2>1 DEF BeginTemplate, BeginBody
  <2>3. stage # "finished"
    BY <1>1, <1>5 DEF BeginTemplate, BeginBody
  <2>4. MarksKept
    BY <2>2, BeginMarks
  <2> QED BY <1>1, <2>2, <2>3, <2>4, SameCount
<1>6. CASE Fail \/ NotPinned
  <2>1. /\ UNCHANGED <<queue, postponed, files, committed, output>>
        /\ stage' \in {"failed", "not pinned"}
    BY <1>6 DEF Fail, NotPinned, manager, work
  <2> QED BY <1>1, <2>1, SameMarks, SameCount
<1>7. CASE BeginName \/ UNCHANGED vars
  <2>1. UNCHANGED <<stage, queue, postponed, files, committed, output>>
    BY <1>7 DEF BeginName, vars, manager, work
  <2> QED BY <1>1, <2>1, SameMarks, SameCount
<1>8. CASE Execute
  <2>1. UNCHANGED <<stage, queue, postponed, output>> /\ stage # "finished"
    BY <1>8 DEF Execute
  <2>2. PICK call : call = Head(left)
    OBVIOUS
  <2>3. Call(call)
    BY <1>8, <2>2 DEF Execute
  <2>4. MarksKept
    BY <1>1, <2>3, CallMarks
  <2> QED BY <1>1, <2>1, <2>4, SameCount
<1>9. CASE CommitFile
  BY <1>9, CommitCount
<1>10. CASE Postpone
  BY <1>10, PostponeCount
<1>11. CASE NextPass
  <2>1. /\ UNCHANGED <<stage, files, committed>> /\ stage = "objects" /\ queue = <<>>
        /\ queue' = postponed /\ postponed' = <<>>
    BY <1>11 DEF NextPass, Idle, manager
  <2>2. ASSUME NEW f, NEW o, IsObject(o)
        PROVE  Counted(f, o)'
    <3>1. /\ Times(f, o)' = Times(f, o) /\ Wanted(f, o)' = Wanted(f, o) /\ Counted(f, o)
          /\ Times(f, o) \in Nat
          /\ Hits(world.queue, Wanted(f, o))' = Hits(world.queue, Wanted(f, o))
      BY <1>2, <2>1, <2>2
    <3>2. PICK E, w, c, h : /\ E = Wanted(f, o) /\ w = Times(f, o) /\ c = Hits(postponed, E)
                            /\ h = Hits(world.queue, E)
      OBVIOUS
    <3>3. Hits(queue, E) = 0
      BY <2>1, HitsEmpty
    <3>4. w \in Nat /\ c \in Nat
      BY <1>1, <3>1, <3>2, WhereFinite
    <3>5. w + 0 + c = h
      BY <2>1, <3>1, <3>2, <3>3 DEF Counted
    <3>6. w + c + 0 = h
      BY <3>4, <3>5
    <3>7. Hits(queue, Wanted(f, o))' = c
      BY <2>1, <3>1, <3>2 DEF Hits, Where
    <3>8. Hits(postponed, Wanted(f, o))' = 0
      <4>1. Hits(<<>>, E) = 0
        BY HitsEmpty
      <4>2. Hits(postponed, Wanted(f, o))' = Hits(<<>>, E)
        BY <2>1, <3>1, <3>2 DEF Hits, Where
      <4> QED BY <4>1, <4>2
    <3> QED BY <2>1, <3>1, <3>2, <3>6, <3>7, <3>8 DEF Counted
  <2> QED BY <1>3, <2>1, <2>2 DEF OutputInv
<1>12. CASE StartImplementations
  <2>1. /\ UNCHANGED <<queue, postponed, files, committed, output>>
        /\ stage = "util" /\ stage' = "impl"
    BY <1>12 DEF StartImplementations, manager
  <2> QED BY <1>1, <2>1, SameMarks, SameCount
<1>13. CASE StartObjects
  <2>1. /\ UNCHANGED <<files, committed, postponed>> /\ stage = "impl" /\ stage' = "objects"
        /\ queue' = world.queue
    BY <1>13 DEF StartObjects, manager
  <2>2. postponed' = <<>>
    BY <2>1 DEF OrderInv
  <2>3. ASSUME NEW f, NEW o, IsObject(o)
        PROVE  Counted(f, o)'
    <3>1. /\ Times(f, o)' = Times(f, o) /\ Wanted(f, o)' = Wanted(f, o) /\ Counted(f, o)
          /\ Hits(world.queue, Wanted(f, o))' = Hits(world.queue, Wanted(f, o))
      BY <1>2, <2>1, <2>3
    <3>2. PICK E, h : E = Wanted(f, o) /\ h = Hits(world.queue, E)
      OBVIOUS
    <3>3. Times(f, o)' = 0
      <4>1. WrittenTo(f, o) = {}
        BY <2>1, <3>1 DEF Counted
      <4> QED BY <3>1, <4>1, FS_EmptySet DEF Times
    <3>4. Hits(queue, Wanted(f, o))' = h
      BY <2>1, <3>1, <3>2 DEF Hits, Where
    <3>5. Hits(postponed, Wanted(f, o))' = 0
      <4>1. Hits(<<>>, E) = 0
        BY HitsEmpty
      <4>2. Hits(postponed, Wanted(f, o))' = Hits(<<>>, E)
        BY <2>2, <3>1, <3>2 DEF Hits, Where
      <4> QED BY <4>1, <4>2
    <3>6. h \in Nat
      BY <1>1, <3>2, AskedIs
    <3>7. 0 + h + 0 = h
      BY <3>6
    <3> QED BY <2>1, <3>1, <3>2, <3>3, <3>4, <3>5, <3>7 DEF Counted
  <2> QED BY <1>3, <2>1, <2>3 DEF OutputInv
<1>14. CASE StartClient
  <2>1. /\ UNCHANGED <<files, committed>> /\ stage = "objects" /\ stage' = "client"
        /\ queue = <<>> /\ postponed = <<>>
    BY <1>14 DEF StartClient, Idle, manager
  <2>2. ASSUME NEW f, NEW o, IsObject(o)
        PROVE  Counted(f, o)'
    <3>1. /\ Times(f, o)' = Times(f, o) /\ Counted(f, o) /\ Times(f, o) \in Nat
          /\ Hits(world.queue, Wanted(f, o))' = Hits(world.queue, Wanted(f, o))
      BY <1>2, <2>1, <2>2
    <3>2. PICK E, w, h : E = Wanted(f, o) /\ w = Times(f, o) /\ h = Hits(world.queue, E)
      OBVIOUS
    <3>3. Hits(queue, E) = 0 /\ Hits(postponed, E) = 0
      BY <2>1, HitsEmpty
    <3>4. w + 0 + 0 = h
      BY <2>1, <3>1, <3>2, <3>3 DEF Counted
    <3>5. w = h
      BY <3>1, <3>2, <3>4
    <3> QED BY <2>1, <3>1, <3>2, <3>5 DEF Counted
  <2> QED BY <1>3, <2>1, <2>2 DEF OutputInv
<1>15. CASE Finish
  <2>1. /\ UNCHANGED <<files, committed>> /\ stage = "client" /\ stage' = "finished"
        /\ output' = {f \in DOMAIN files : HasLetters(f)}
    BY <1>15 DEF Finish, manager
  <2>2. \A f, o : IsObject(o) => Counted(f, o)'
    BY <1>2, <2>1 DEF Counted
  <2>3. OutputInv'
    <3>1. world' = world
      BY <1>15 DEF Finish
    <3> QED BY <2>1, <3>1 DEF OutputInv, HasLetters
  <2> QED BY <1>3, <2>2, <2>3
<1> QED
  BY <1>4, <1>5, <1>6, <1>7, <1>8, <1>9, <1>10, <1>11, <1>12, <1>13, <1>14, <1>15 DEF Next

LEMMA InitCount == Init => CountInv
<1> SUFFICES ASSUME Init
             PROVE  CountInv
  OBVIOUS
<1>1. DOMAIN files = {} /\ stage = "util"
  BY DEF Init, InitManager
<1>2. \A f, o : WrittenTo(f, o) = {}
  BY <1>1 DEF WrittenTo
<1> QED BY <1>1, <1>2 DEF CountInv, Counted, OutputInv

-----------------------------------------------------------------------------
RunInv == CodeInv /\ AttemptsInv /\ OrderInv /\ CountInv

SuccessInv == NamesInv /\ (Apart /\ OnceAgrees => RunInv)

LEMMA WorldsKept ==
  ASSUME world' = world
  PROVE  (Apart' <=> Apart) /\ (OnceAgrees' <=> OnceAgrees)
<1>1. AllCode' = AllCode /\ AllScripts' = AllScripts
  BY ItemsKept
<1>2. \A c : TaskFiles(c)' = TaskFiles(c)
  BY DEF TaskFiles, ExtraTasks
<1> QED BY <1>1, <1>2 DEF Apart, OnceAgrees

LEMMA SuccessNext ==
  ASSUME SuccessInv, [Next]_vars
  PROVE  SuccessInv'
<1>1. NamesInv'
  BY NextInv, TasksNext, TextNext DEF SuccessInv, NamesInv
<1>2. (Apart' <=> Apart) /\ (OnceAgrees' <=> OnceAgrees)
  BY WorldKept, WorldsKept
<1>3. ASSUME Apart, OnceAgrees
      PROVE  RunInv'
  <2>1. NamesInv /\ CodeInv /\ AttemptsInv /\ OrderInv /\ CountInv
    BY <1>3 DEF SuccessInv, RunInv
  <2>2. CodeInv'
    BY <1>3, <2>1, CodeNext
  <2>3. AttemptsInv'
    BY <1>3, <2>1, AttemptsNext
  <2>4. OrderInv'
    BY <2>1, OrderNext
  <2>5. CountInv'
    BY <2>1, CountNext
  <2> QED BY <2>2, <2>3, <2>4, <2>5 DEF RunInv
<1> QED BY <1>1, <1>2, <1>3 DEF SuccessInv

(* What the invariants say of the end. *)
LEMMA SuccessFollows ==
  ASSUME SuccessInv
  PROVE  SucceedsWhenPossible
<1>1. SUFFICES ASSUME Apart, OnceAgrees
               PROVE  /\ stage = "failed" => ~ExtraCodeIsClosed
                      /\ stage = "not pinned" => ~Renderable(TRUE)
                      /\ stage = "finished" =>
                           /\ Renderable(FALSE)
                           /\ \A i \in Items : i.of \notin world.blank => i.file \in output
                           /\ \A f \in output, i \in Items :
                                Cardinality(Written(f, i.of)) = Cardinality(Asked(f, i.of))
  BY Zenon DEF SucceedsWhenPossible
<1>2. NamesInv /\ OrderInv /\ CountInv
  BY <1>1 DEF SuccessInv, RunInv
<1>3. world \in Worlds /\ Shapes
  BY <1>2 DEF NamesInv, Inv, QueueInv, StateInv
<1>4. stage = "not pinned" => ~Renderable(TRUE)
  BY <1>2, Zenon DEF OrderInv, RenderableNamed
<1>5. stage = "finished" => Renderable(FALSE)
  <2>1. stage = "finished" => RenderableBody
    BY <1>2 DEF OrderInv
  <2> QED BY <2>1, Zenon DEF RenderableBody
<1>6. ASSUME stage = "finished", NEW i \in Items, NEW f
      PROVE  Times(f, i.of) = Cardinality(Asked(f, i.of))
  <2>1. Counted(f, i.of)
    BY <1>2 DEF CountInv, IsObject
  <2> QED BY <1>3, <1>6, <2>1, AskedIs DEF Counted
<1>7. ASSUME stage = "finished", NEW i \in Items, i.of \notin world.blank
      PROVE  i.file \in output
  <2>1. PICK k \in DOMAIN world.queue : world.queue[k] = i
    BY DEF Items, ToSet
  <2>2. Asked(i.file, i.of) # {}
    BY <2>1 DEF Asked
  <2>3. Cardinality(Asked(i.file, i.of)) # 0
    BY <1>3, <2>2, AskedIs
  <2>4. WrittenTo(i.file, i.of) # {}
    BY <1>3, <1>6, <1>7, <2>3, WrittenFinite
  <2>5. i.file \in DOMAIN files
    BY <2>4 DEF WrittenTo
  <2>6. PICK n \in DOMAIN files[i.file].text : files[i.file].text[n].of = i.of
    BY <2>4, <2>5 DEF WrittenTo, Written
  <2>7. HasLetters(i.file)
    BY <1>7, <2>6 DEF HasLetters, ToSet
  <2> QED BY <1>2, <1>7, <2>5, <2>7 DEF CountInv, OutputInv
<1>8. ASSUME stage = "finished", NEW f \in output, NEW i \in Items
      PROVE  Cardinality(Written(f, i.of)) = Cardinality(Asked(f, i.of))
  <2>1. f \in DOMAIN files
    BY <1>2, <1>8 DEF CountInv, OutputInv
  <2>2. WrittenTo(f, i.of) = Written(f, i.of)
    BY <2>1 DEF WrittenTo
  <2> QED BY <1>6, <1>8, <2>2 DEF Times
<1>9. stage = "failed" => ~ExtraCodeIsClosed
  BY <1>2 DEF OrderInv
<1> QED BY <1>4, <1>5, <1>7, <1>8, <1>9, Zenon

(* Rendering the objects of a queue succeeds when some order of the queue  *)
(* does, whatever the templates ask for, and every object with a text is   *)
(* then in its file as often as the queue has it there; it fails only      *)
(* where no order would help, RenderArtifacts with its passes over what    *)
(* was postponed.                                                          *)
THEOREM Succeeds == Spec => []SucceedsWhenPossible
<1>1. Init => SuccessInv
  BY InitInv, InitNames, InitCode, InitAttempts, InitOrder, InitCount
     DEF SuccessInv, RunInv, NamesInv
<1>2. SuccessInv /\ [Next]_vars => SuccessInv'
  BY SuccessNext
<1>3. SuccessInv => SucceedsWhenPossible
  BY SuccessFollows
<1> QED
  BY <1>1, <1>2, <1>3, PTL DEF Spec
=============================================================================
