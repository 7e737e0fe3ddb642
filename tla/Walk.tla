-------------------------------- MODULE Walk --------------------------------
(***************************************************************************)
(* Compiling one document: Document.Compile, WalkAndCompile, traverse and  *)
(* pushStack of internal/compiler, and the compile context.                *)
(*                                                                         *)
(* The recursion is the sequence of its frames; each has the object it is  *)
(* in and the children it still has to visit.  Builders do not see the     *)
(* frames: where they are and how their field is tagged they read off the  *)
(* context's stack.                                                        *)
(***************************************************************************)
EXTENDS Document

CONSTANT Inputs  \* the inputs by name; each has the objectsTree as doc

(* What decoding gives: a tree of the structs of internal/asyncapi; scalars *)
(* and raw values are no nodes of it.  No map or list holds another, only   *)
(* the root has components, and only a schema has a list under these keys;  *)
(* only these two have servers, channels and operations.  The path of a     *)
(* location is never empty (parseRuntimeExpression).                        *)
IsTree(d) ==
  /\ DOMAIN d \subseteq Seq(STRING) /\ <<>> \in DOMAIN d
  /\ \A p \in DOMAIN d :
       /\ d[p].keys \in Seq(STRING) /\ IsInjective(d[p].keys)
       /\ \A key \in ToSet(d[p].keys) : p \o <<key>> \in DOMAIN d
       /\ \A i \in 1 .. Len(p) : LET q == SubSeq(p, 1, i - 1) IN q \in DOMAIN d /\ Has(d, q, p[i])

IsTyped(d) ==
  /\ d[<<>>].type = "AsyncAPI"
  /\ \A p \in DOMAIN d :
       /\ \A f \in FieldTypes : d[p].type = f[1] /\ Has(d, p, f[2]) => d[p \o <<f[2]>>].type = f[3]
       /\ \A e \in ElementTypes :
            d[p].type = e[1] /\ Has(d, p, e[2]) =>
              /\ d[p \o <<e[2]>>].type = e[3]
              /\ \A key \in ToSet(d[p \o <<e[2]>>].keys) : d[p \o <<e[2], key>>].type = e[4]
       /\ d[p].type = "Components" => p = <<"components">>
       /\ p # <<>> /\ d[p].type \in Containers => d[Front(p)].type \notin Containers
       /\ p # <<>> /\ d[p].type = "List" /\ Last(p) \in {"allOf", "anyOf", "oneOf"} =>
            d[Front(p)].type = "Object"

IsPlaced(d) ==
  \A p \in DOMAIN d :
    /\ d[p].type = "AsyncAPI" => p = <<>>
    /\ d[p].type \in {"Server", "Channel", "Operation"} =>
         Len(p) > 1 /\ d[Front(Front(p))].type \in {"AsyncAPI", "Components"}
    /\ d[p].type = "CorrelationID" =>
         d[p].location.path \in Seq([key : STRING, number : BOOLEAN]) \ {<<>>}

ASSUME InputsAssumption ==
  \A i \in DOMAIN Inputs :
    IsTree(Inputs[i].doc) /\ IsTyped(Inputs[i].doc) /\ IsPlaced(Inputs[i].doc)

VARIABLES
  input,      \* what is compiled, and with which options
  stack,      \* ctx.Stack: keys with the flags of their fields
  frames,     \* the recursion
  artifacts,  \* in the order of PutArtifact
  promises,   \* promises put, without their order
  stage       \* "decoded", "walking", or how it ended

walkVars == <<input, stack, frames, artifacts, promises, stage>>

doc == input.doc

WalkInit ==
  /\ \E i \in DOMAIN Inputs : input = Inputs[i]
  /\ stack = <<>> /\ frames = <<>>
  /\ artifacts = <<>> /\ promises = {}
  /\ stage = "decoded"

Frame(p) == [at |-> p, left |-> doc[p].keys]

Keys(s) == [i \in DOMAIN s |-> s[i].key]

TopFlags == IF stack = <<>> THEN {} ELSE Last(stack).flags

(* Mutant: nothing is inherited. *)
FlagsNotInherited(type, key) ==
  IF type \in Containers THEN TopFlags ELSE FieldTags(type, key)

(* The flags pushed for a child: the field's own tags, or in a map or list *)
(* those of the container; data_model is inherited by everything below.    *)
FlagsOf(type, key) ==
  (IF type \in Containers THEN TopFlags ELSE FieldTags(type, key))
  \cup (TopFlags \cap {"data_model"})

(* Only a *Bindings has the method Compile; in a map there are values.     *)
HasCompile(p, parent) ==
  /\ doc[p].type \in CompiledTypes
  /\ ~(doc[p].type = "Bindings" /\ doc[parent].type \in Containers)

Put(p, s, flags) ==
  /\ artifacts' = Append(artifacts, Artifact(doc, p, Keys(s), flags))
  /\ promises' = promises \cup PromisesOf(doc, p, Keys(s))

(* The root is compiled before the walk, with an empty stack. *)
CompileRoot ==
  /\ stage = "decoded"
  /\ IF Refused(doc, <<>>)
     THEN stage' = "refused" /\ UNCHANGED <<frames, artifacts, promises>>
     ELSE /\ Put(<<>>, stack, {})
          /\ frames' = <<Frame(<<>>)>>
          /\ stage' = "walking"
  /\ UNCHANGED <<input, stack>>

Here == Last(frames)
Parent == Here.at
Key    == Head(Here.left)
Child  == Parent \o <<Key>>

Visiting == stage = "walking" /\ frames # <<>> /\ Here.left # <<>>

Push == stack' = Append(stack, [key |-> Key, flags |-> FlagsOf(doc[Parent].type, Key)])

Descend == frames' = Front(frames) \o <<[Here EXCEPT !.left = Tail(@)], Frame(Child)>>

(* A container or a struct without the method is only walked. *)
VisitPlain ==
  /\ Visiting /\ ~HasCompile(Child, Parent)
  /\ Push /\ Descend
  /\ UNCHANGED <<input, artifacts, promises, stage>>

VisitObject ==
  /\ Visiting /\ HasCompile(Child, Parent) /\ ~Refused(doc, Child)
  /\ Push /\ Descend
  /\ Put(Child, stack', Last(stack').flags)
  /\ UNCHANGED <<input, stage>>

(* The first error ends the compilation. *)
VisitRefused ==
  /\ Visiting /\ HasCompile(Child, Parent) /\ Refused(doc, Child)
  /\ Push
  /\ stage' = "refused"
  /\ UNCHANGED <<input, frames, artifacts, promises>>

(* Mutant: a list leaves its items' keys on the stack. *)
LeaveListUnpopped ==
  /\ stage = "walking" /\ frames # <<>> /\ Here.left = <<>>
  /\ frames' = Front(frames)
  /\ stack' = IF stack = <<>> \/ (Len(frames) > 1 /\ doc[frames[Len(frames) - 1].at].type = "List")
              THEN stack ELSE Front(stack)
  /\ UNCHANGED <<input, artifacts, promises, stage>>

Leave ==
  /\ stage = "walking" /\ frames # <<>> /\ Here.left = <<>>
  /\ frames' = Front(frames)
  /\ stack' = IF stack = <<>> THEN stack ELSE Front(stack)
  /\ UNCHANGED <<input, artifacts, promises, stage>>

Finish ==
  /\ stage = "walking" /\ frames = <<>>
  /\ stage' = "compiled"
  /\ UNCHANGED <<input, stack, frames, artifacts, promises>>

WalkNext == CompileRoot \/ VisitPlain \/ VisitObject \/ VisitRefused \/ Leave \/ Finish

-----------------------------------------------------------------------------
(* Properties *)

Compiled == stage \notin {"decoded", "walking", "refused"}

(* Objects are compiled apart and only meet in the linker, by pointers     *)
(* which one builder composes and the walk assigns to another.  They agree:*)
(* what an object expects among its own fields is there, once, and of the  *)
(* type it expects, unless a $ref stands in its place.                     *)
FieldsAreFound ==
  Compiled =>
    \A p \in promises : p.by = "field" =>
      \E i \in DOMAIN artifacts :
        /\ {j \in DOMAIN artifacts : artifacts[j].ptr = p.to} = {i}
        /\ artifacts[i].form = "Ref" \/ artifacts[i].type = p.want

(* Below a message's headers or payload, or the shared schemas. *)
InDataModel(p) ==
  \E i \in 1 .. Len(p) - 1 :
    \/ doc[SubSeq(p, 1, i)].type = "Message" /\ p[i + 1] \in {"headers", "payload"}
    \/ i = 1 /\ SubSeq(p, 1, 2) = <<"components", "schemas">>

(* A schema with a definition of its own: shared, or an alternative of a   *)
(* union.                                                                  *)
StandsAlone(p) ==
  \/ Len(p) = 3 /\ SubSeq(p, 1, 2) = <<"components", "schemas">>
  \/ /\ Len(p) > 1 /\ doc[Front(p)].type = "List"
     /\ p[Len(p) - 1] \in {"allOf", "anyOf", "oneOf"}

(* However deep a schema is nested, its fields are tagged like those of    *)
(* the message or shared schema it belongs to, and it gets a definition    *)
(* only where something can name it.                                       *)
SchemasInheritTheirPlace ==
  Compiled =>
    \A i \in DOMAIN artifacts :
      LET a == artifacts[i] IN
      a.type = "Object" /\ a.form = "Built" =>
        /\ a.model <=> InDataModel(a.ptr) /\ IsStruct(doc, a.ptr)
        /\ a.sel = "yes" <=> StandsAlone(a.ptr) /\ HasDefinition(doc, a.ptr)
=============================================================================
