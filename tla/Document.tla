------------------------------ MODULE Document ------------------------------
(***************************************************************************)
(* A decoded document and what the objects in it compile to: the Compile   *)
(* and build methods of internal/asyncapi.                                 *)
(*                                                                         *)
(* A document maps JSON pointers, sequences of keys, to nodes:             *)
(*   type    the Go type; "Map" and "List" are containers, "Struct" any    *)
(*           struct that is not compiled.  A union is its current value    *)
(*   keys    the children that are present, in the order they are walked   *)
(*   ref     the $ref (a pointer in the same document), or NoRef           *)
(*   ignore  x-ignore                                                      *)
(*   info    what else decides: a server's protocol or that of bindings,   *)
(*           an operation's action, the type of a schema; "bad" for what   *)
(*           build refuses                                                 *)
(*   nullable   of a schema: x-nullable, or "null" among its types         *)
(*   open       of a schema: additionalProperties is true, and no schema   *)
(*   required, location   of a schema and of a correlation id              *)
(***************************************************************************)
EXTENDS Naturals, Sequences, SequencesExt, FiniteSets

NoRef == <<>>

Containers == {"Map", "List"}

CompiledTypes ==
  {"AsyncAPI", "Server", "Channel", "Operation", "OperationReply",
   "OperationReplyAddress", "Message", "Object", "SecurityScheme",
   "Parameter", "ServerVariable", "CorrelationID", "Bindings"}

(* Go types of fields: <<struct, field, type>>, and of what is in maps and   *)
(* lists, <<struct, field, container, type>>, as far as builders ask for it. *)
FieldTypes ==
  ({"Server", "Channel", "Operation", "Message"} \X {"bindings"} \X {"Bindings"})
  \cup ({"Message"} \X {"headers", "payload"} \X {"Object"})
  \cup {<<"AsyncAPI", "components", "Components">>, <<"Operation", "reply", "OperationReply">>,
        <<"OperationReply", "address", "OperationReplyAddress">>,
        <<"Message", "correlationId", "CorrelationID">>}

ElementTypes ==
  ({"Object"} \X {"allOf", "anyOf", "oneOf"} \X {"List"} \X {"Object"})
  \cup ({"Server", "Operation"} \X {"security"} \X {"List"} \X {"SecurityScheme"})
  \cup {<<"AsyncAPI", "servers", "Map", "Server">>, <<"AsyncAPI", "channels", "Map", "Channel">>,
        <<"AsyncAPI", "operations", "Map", "Operation">>, <<"Components", "schemas", "Map", "Object">>,
        <<"Server", "variables", "Map", "ServerVariable">>,
        <<"Channel", "parameters", "Map", "Parameter">>, <<"Channel", "messages", "Map", "Message">>,
        <<"Object", "properties", "Map", "Object">>}

Has(d, p, key) == key \in ToSet(d[p].keys)

HasSome(d, p, key) == Has(d, p, key) /\ d[p \o <<key>>].keys # <<>>

(* The `cgen` tags of the fields. *)
FieldTags(type, key) ==
  CASE type = "AsyncAPI" /\ key \in {"servers", "channels", "operations"} -> {"selectable"}
    [] type = "Components" /\ key = "schemas"         -> {"selectable", "data_model"}
    [] type = "Channel" /\ key = "messages"           -> {"selectable"}
    [] type = "Message" /\ key \in {"headers", "payload"} -> {"data_model"}
    [] type = "Object" /\ key \in {"allOf", "anyOf", "oneOf"} -> {"selectable"}
    [] OTHER -> {}

-----------------------------------------------------------------------------
(* Schemas. *)

IsUnion(d, p) == \E key \in {"oneOf", "anyOf", "allOf"} : HasSome(d, p, key)

(* guessObjectType, for a schema without a type. *)
SchemaType(d, p) ==
  IF d[p].info # "" THEN d[p].info
  ELSE IF ~HasSome(d, p, "properties") /\ Has(d, p, "items") THEN "array" ELSE "object"

(* What build makes of a schema that is neither ignored nor a reference.   *)
(* "custom" is an x-go-type; like "any" it has no definition of its own.   *)
Shape(d, p) == IF IsUnion(d, p) THEN "union" ELSE SchemaType(d, p)

IsStruct(d, p) == Shape(d, p) = "object"

-----------------------------------------------------------------------------
(* Promises.  The builder looks at the node at p; at is where it believes  *)
(* to be: the keys on the stack of the compile context.  A message's       *)
(* promise to its document's root is left out: the root always answers it. *)
(* A promise is by "field", for something the object has, whose pointer it *)
(* composes itself, or by "$ref".                                          *)

Promise(at, to, want, by) == [from |-> at, to |-> to, want |-> want, by |-> by]

One(d, p, at, key, want) ==
  IF Has(d, p, key) THEN {Promise(at, at \o <<key>>, want, "field")} ELSE {}

Each(d, p, at, key, want) ==
  IF Has(d, p, key)
  THEN {Promise(at, at \o <<key, k>>, want, "field") : k \in ToSet(d[p \o <<key>>].keys)}
  ELSE {}

(* Objects elsewhere, named by StandaloneRef fields. *)
Named(d, p, at, key, want) ==
  IF Has(d, p, key) THEN {Promise(at, d[p \o <<key>>].ref, want, "$ref")} ELSE {}

NamedEach(d, p, at, key, want) ==
  IF Has(d, p, key)
  THEN {Promise(at, d[p \o <<key, k>>].ref, want, "$ref") : k \in ToSet(d[p \o <<key>>].keys)}
  ELSE {}

ServerPromises(d, p, at) ==
  One(d, p, at, "bindings", "Bindings") \cup Each(d, p, at, "security", "SecurityScheme")
  \cup Each(d, p, at, "variables", "ServerVariable")

ChannelPromises(d, p, at) ==
  NamedEach(d, p, at, "servers", "Server") \cup Each(d, p, at, "parameters", "Parameter")
  \cup Each(d, p, at, "messages", "Message") \cup One(d, p, at, "bindings", "Bindings")

OperationPromises(d, p, at) ==
  Named(d, p, at, "channel", "Channel") \cup One(d, p, at, "bindings", "Bindings")
  \cup Each(d, p, at, "security", "SecurityScheme")
  \cup NamedEach(d, p, at, "messages", "Message") \cup One(d, p, at, "reply", "OperationReply")

ReplyPromises(d, p, at) ==
  One(d, p, at, "address", "OperationReplyAddress") \cup Named(d, p, at, "channel", "Channel")
  \cup NamedEach(d, p, at, "messages", "Message")

MessagePromises(d, p, at) ==
  One(d, p, at, "headers", "Object") \cup One(d, p, at, "payload", "Object")
  \cup One(d, p, at, "bindings", "Bindings") \cup One(d, p, at, "correlationId", "CorrelationID")

(* A field that may hold something other than one schema. *)
OneSchema(d, p, at, key) ==
  IF Has(d, p, key) /\ d[p \o <<key>>].type = "Object" THEN One(d, p, at, key, "Object") ELSE {}

StructPromises(d, p, at) ==
  Each(d, p, at, "properties", "Object") \cup OneSchema(d, p, at, "additionalProperties")

UnionPromises(d, p, at) ==
  UNION {Each(d, p, at, key, "Object") : key \in {"oneOf", "anyOf", "allOf"}}

SchemaPromises(d, p, at) ==
  CASE Shape(d, p) = "union"  -> UnionPromises(d, p, at)
    [] Shape(d, p) = "object" -> StructPromises(d, p, at)
    [] Shape(d, p) = "array"  -> OneSchema(d, p, at, "items")
    [] OTHER                  -> {}

BuiltPromises(d, p, at) ==
  CASE d[p].type = "Server"         -> ServerPromises(d, p, at)
    [] d[p].type = "Channel"        -> ChannelPromises(d, p, at)
    [] d[p].type = "Operation"      -> OperationPromises(d, p, at)
    [] d[p].type = "OperationReply" -> ReplyPromises(d, p, at)
    [] d[p].type = "Message"        -> MessagePromises(d, p, at)
    [] d[p].type = "Object"         -> SchemaPromises(d, p, at)
    [] OTHER                        -> {}

-----------------------------------------------------------------------------
(* What build returns. *)

(* x-ignore is looked at before $ref; a security scheme's after it, and a  *)
(* parameter, a variable and bindings have none.                           *)
Ignored(d, p) ==
  /\ d[p].ignore
  /\ d[p].type \notin {"SecurityScheme", "Parameter", "ServerVariable", "Bindings"}

IsReference(d, p) == d[p].ref # NoRef /\ ~Ignored(d, p)

(* Build fails: a bad version, an operation without channel, a security    *)
(* scheme without type, a runtime expression or schema type it cannot read.*)
Refused(d, p) ==
  /\ ~Ignored(d, p) /\ ~IsReference(d, p)
  /\ \/ d[p].info = "bad" /\ ~(d[p].type = "Object" /\ IsUnion(d, p))
     \/ d[p].type = "Operation" /\ ~Has(d, p, "channel")

(* The third argument of NewRef: a flag of its own, or the target's.       *)
RefSelectable(type, flags) ==
  CASE type = "Object" -> IF "selectable" \in flags THEN "yes" ELSE "no"
    [] type \in {"Server", "Channel", "Operation", "Message"} ->
         IF "selectable" \in flags THEN "yes" ELSE "target"
    [] OTHER -> "target"

HasDefinition(d, p) == Shape(d, p) \notin {"any", "custom"}

BuiltSelectable(d, p, flags) ==
  CASE d[p].type = "Object" -> "selectable" \in flags /\ HasDefinition(d, p)
    [] d[p].type \in {"Server", "Channel", "Operation", "Message"} -> "selectable" \in flags
    [] d[p].type = "SecurityScheme" -> ~d[p].ignore
    [] d[p].type \in {"AsyncAPI", "Parameter", "OperationReply"} -> TRUE
    [] OTHER -> FALSE

(* An artifact: where it says it stands, what form it has, whether it asks *)
(* to be selected, and whether the tags of its fields follow the content   *)
(* types of messages.                                                      *)
Artifact(d, p, at, flags) ==
  [ptr   |-> at,
   form  |-> IF Ignored(d, p) THEN "Dummy" ELSE IF IsReference(d, p) THEN "Ref" ELSE "Built",
   type  |-> d[p].type,
   sel   |-> IF Ignored(d, p) THEN "no"
             ELSE IF IsReference(d, p) THEN RefSelectable(d[p].type, flags)
             ELSE IF BuiltSelectable(d, p, flags) THEN "yes" ELSE "no",
   model |-> /\ d[p].type = "Object" /\ ~Ignored(d, p) /\ ~IsReference(d, p)
             /\ IsStruct(d, p) /\ "data_model" \in flags]

PromisesOf(d, p, at) ==
  IF Ignored(d, p) THEN {}
  ELSE IF IsReference(d, p) THEN {Promise(at, d[p].ref, "any", "$ref")}
  ELSE BuiltPromises(d, p, at)
=============================================================================
