----------------------------- MODULE Accessors ------------------------------
(***************************************************************************)
(* SetCorrelationID of outbound messages and CorrelationID of inbound ones:*)
(* the Go code that runtimeExpression makes of a location and that         *)
(* templates/code/message.tmpl prints, and what it does when it runs.      *)
(*                                                                         *)
(* A location has the field of the message ("headers" or "payload") and a  *)
(* path of members [key, number]; quoted numbers are not numbers.          *)
(***************************************************************************)
EXTENDS Generation

(* A Go type: its kind, where its schema stands, and whether it is written *)
(* with a star.  A map's schema is that of its values, NoRef for any.      *)
GoType(kind, at, star) == [kind |-> kind, at |-> at, star |-> star]

NoType   == GoType("none", NoRef, FALSE)
AnyValue == GoType("any", NoRef, FALSE)
MapOfAny == GoType("map", NoRef, FALSE)

(* A nullable schema is a pointer, which is written without a star where   *)
(* the type itself is any; a union is built before anything is asked.      *)
TypeOf(x) ==
  LET shape == Shape(doc, x.ptr)
      star  == doc[x.ptr].nullable /\ shape # "union"
  IN IF Dummy(x) \/ shape = "any" THEN AnyValue
     ELSE GoType(IF shape = "object" THEN "struct" ELSE shape, x.ptr, star)

(* Whether a pointer to it is written with a star of its own. *)
CanBeAddressed(t) == t.kind # "any" /\ ~t.star

TypeAt(ptr) == TypeOf(end[ptr])

(* The type of InType's and OutType's field. *)
FieldType(m, field) ==
  IF Has(doc, m.ptr, field) THEN TypeAt(m.ptr \o <<field>>)
  ELSE IF field = "headers" THEN MapOfAny ELSE AnyValue

(* A field is found by the name it has in the schema, and the one for      *)
(* additional properties has none.  A required property is a pointer.      *)
StructStep(t, member) ==
  LET found == ~member.number /\ Has(doc, t.at, "properties")
               /\ Has(doc, t.at \o <<"properties">>, member.key)
      type  == TypeAt(t.at \o <<"properties", member.key>>)
  IN IF found
     THEN [type EXCEPT !.star = @ \/ (member.key \in doc[t.at].required /\ CanBeAddressed(type))]
     ELSE IF member.number \/ member.key # "" THEN NoType
     ELSE IF doc[t.at].open THEN MapOfAny
     ELSE IF Has(doc, t.at, "additionalProperties")
     THEN GoType("map", t.at \o <<"additionalProperties">>, FALSE)
     ELSE NoType

ArrayStep(t, member) ==
  IF ~member.number THEN NoType
  ELSE IF Has(doc, t.at, "items") /\ doc[t.at \o <<"items">>].type = "Object"
  THEN TypeAt(t.at \o <<"items">>) ELSE MapOfAny

MapStep(t) == IF t.at = NoRef THEN AnyValue ELSE TypeAt(t.at)

(* Pointers are looked through; what has no members ends the path. *)
StepType(t, member) ==
  CASE t.kind = "struct" -> StructStep(t, member)
    [] t.kind = "array"  -> ArrayStep(t, member)
    [] t.kind = "map"    -> MapStep(t)
    [] OTHER             -> NoType

(* The types of v0, v1, and so on to the last variable. *)
Types(m, location) ==
  LET types[i \in 0 .. Len(location.path)] ==
        IF i = 0 THEN FieldType(m, location.field)
        ELSE StepType(types[i - 1], location.path[i])
  IN types

(* Without steps the message has no accessors. *)
Resolves(types) == \A i \in DOMAIN types : types[i] # NoType

(* Where the Go compiler refuses the code: a number as the key of a map, a *)
(* pointer to a map or an array in the place of one, and a variable for    *)
(* the values of a map that is initialised with a pointer to them.         *)
IsValidGo(types, path) ==
  \A i \in DOMAIN path :
    LET t == types[i - 1] IN
    /\ t.kind = "map" => ~path[i].number /\ ~CanBeAddressed(types[i])
    /\ t.kind \in {"map", "array"} => ~t.star

-----------------------------------------------------------------------------
(* Running it.  Of the message's content only what lies on the path counts.*)
(* of[i] says of the i-th container on it that it is                       *)
(*   "there"   it is, and has the member                                   *)
(*   "empty"   it is, but a map without the key or an array too short      *)
(*   "nil"     it is a nil pointer or map                                  *)
(* and value is what the path leads to, when all of them are there.  A     *)
(* variable read from a container without the member has its zero value.   *)

Panic   == [status |-> "panic"]
Error   == [status |-> "error"]
Value(v) == [status |-> "ok", value |-> v]

MayBe(t) ==
  CASE t.kind = "struct" -> IF t.star THEN {"there", "nil"} ELSE {"there"}
    [] t.kind = "map"    -> {"there", "empty", "nil"}
    [] OTHER             -> {"there", "empty"}

ZeroOf(t) ==
  CASE t.kind = "struct" -> IF t.star THEN "nil" ELSE "there"
    [] t.kind = "map"    -> "nil"
    [] OTHER             -> "empty"

IsPossible(of, types) ==
  /\ \A i \in DOMAIN of : of[i] \in MayBe(types[i - 1])
  /\ \A i \in DOMAIN of \ {1} : of[i - 1] # "there" => of[i] = ZeroOf(types[i - 1])

Contents(types, n, values) ==
  {[of |-> of, value |-> v] :
     of \in {of \in [1 .. n -> {"there", "empty", "nil"}] : IsPossible(of, types)}, v \in values}

(* A step of the getter at a container that is not there. *)
Misses(t, level) == IF t.kind = "struct" THEN Panic ELSE Error

Get(types, content) ==
  LET missing == {i \in DOMAIN content.of : content.of[i] # "there"}
      first   == CHOOSE i \in missing : \A j \in missing : i <= j
  IN IF missing = {} THEN Value(content.value) ELSE Misses(types[first - 1], content.of[first])

(* Reading into the next variable, for which the setter has no validation: *)
(* only a map may lack its member, and a nil one is made.                  *)
CanRead(t, level) == level = "there" \/ t.kind = "map"

(* Assigning to the member of a container. *)
CanWrite(t, level) == level = "there" \/ (t.kind = "map" /\ level = "empty")

(* Mutant: the variables are not written back. *)
AssignedBackNot(types, content, v) ==
  IF \E i \in DOMAIN content.of : types[i - 1].star \/ types[i - 1].kind # "struct"
  THEN [of |-> [i \in DOMAIN content.of |-> "there"], value |-> v] ELSE content

(* From the last variable to the first each is assigned to the member of   *)
(* the one before, and the first to the field of the message.              *)
AssignedBack(types, content, v) == [of |-> [i \in DOMAIN content.of |-> "there"], value |-> v]

(* The lines of all steps but the last, then the assignments. *)
Set(types, content, v) ==
  LET n == Len(content.of) IN
  IF \/ \E i \in 1 .. n - 1 : ~CanRead(types[i - 1], content.of[i])
     \/ ~CanWrite(types[n - 1], content.of[n])
  THEN Panic ELSE Value(AssignedBack(types, content, v))

-----------------------------------------------------------------------------

(* The messages with both accessors, and their locations. *)
Correlated ==
  {m \in rendered :
     /\ m.type = "Message" /\ Options.pub /\ Options.sub
     /\ Has(doc, m.ptr, "correlationId") /\ ~Dummy(Field(m, "correlationId"))
     /\ Resolves(Types(m, doc[Field(m, "correlationId").ptr].location))}

Location(m) == doc[Field(m, "correlationId").ptr].location

(* The generator writes the setter and the getter as lines of code, from   *)
(* steps it makes without running them; one leaves out the lines of the    *)
(* last step and assigns in reverse, the other checks what it reads.  Where*)
(* the code is valid they fit together: a correlation id that was set is   *)
(* the one that is received, whatever else the message holds; setting it   *)
(* fails only for want of something it has to be put in; and the getter    *)
(* panics only at a pointer that is nil.                                   *)
AccessorsFitTogether ==
  Generated =>
    \A m \in Correlated :
      LET types == Types(m, Location(m))
          n     == Len(Location(m).path)
      IN IsValidGo(types, Location(m).path) =>
         \A content \in Contents(types, n, {"old"}) :
           LET after == Set(types, content, "new") IN
           /\ after.status = "ok" => Get(types, after.value) = Value("new")
           /\ after.status = "panic" => \E i \in 1 .. n : content.of[i] # "there"
           /\ Get(types, content) = Panic =>
                \E i \in 1 .. n : types[i - 1].star /\ content.of[i] = "nil"
=============================================================================
