---------------------------- MODULE MCGeneration ----------------------------
(***************************************************************************)
(* Documents for Accessors, and with it for Generation, put together from  *)
(* trees: a tree is the node at its root and the trees below it, by key.   *)
(***************************************************************************)
EXTENDS Accessors

Tree(node, kids) ==
  LET below(i) == {<<kids[i][1]>> \o p : p \in DOMAIN kids[i][2]}
      kid(key) == kids[CHOOSE i \in DOMAIN kids : kids[i][1] = key][2]
  IN [p \in {<<>>} \cup UNION {below(i) : i \in DOMAIN kids} |->
        IF p = <<>> THEN [node EXCEPT !.keys = [i \in DOMAIN kids |-> kids[i][1]]]
        ELSE kid(Head(p))[Tail(p)]]

Name(key)   == [key |-> key, number |-> FALSE]
Number(key) == [key |-> key, number |-> TRUE]

At(field, path) == [field |-> field, path |-> path]

Node(type, info) ==
  [type |-> type, keys |-> <<>>, ref |-> NoRef, ignore |-> FALSE, info |-> info,
   nullable |-> FALSE, open |-> FALSE, required |-> {}, location |-> At("headers", <<Name("k")>>)]

T(type, info, kids) == Tree(Node(type, info), kids)
Map(kids)           == T("Map", "", kids)
List(trees)         == T("List", "", [i \in DOMAIN trees |-> <<ToString(i - 1), trees[i]>>])
RefTree(type, to)   == Tree([Node(type, "") EXCEPT !.ref = to], <<>>)
Names(refs)         == List([i \in DOMAIN refs |-> RefTree("Struct", refs[i])])
Without(type)       == Tree([Node(type, "") EXCEPT !.ignore = TRUE], <<>>)

(* An object inline, ignored, or a $ref to components. *)
Stands(form, tree, section, key) ==
  CASE form = "ref"     -> RefTree(tree[<<>>].type, <<"components", section, key>>)
    [] form = "apart"   -> RefTree(tree[<<>>].type, <<"components", section, key>>)
    [] form = "ignored" -> Without(tree[<<>>].type)
    [] OTHER            -> tree

Root(kids) == T("AsyncAPI", "", kids)

Everything == {[kinds |-> {"schema", "server", "channel", "operation", "message", "parameter"},
                protocols |-> {}, not |-> FALSE],
               [kinds |-> {"security"}, protocols |-> {}, not |-> FALSE]}

OnlyProtocol(p) == {[kinds |-> {}, protocols |-> {p}, not |-> FALSE]}

(* docs: howtos/customize-the-code-layout.md *)
OneKindApart(kind) == {[kinds |-> {kind}, protocols |-> {}, not |-> FALSE],
                       [kinds |-> {kind}, protocols |-> {}, not |-> TRUE]}

-----------------------------------------------------------------------------
(* Wiring: two servers, two channels, an operation with a message and a    *)
(* reply.  Each input is Plain but for a few choices.                      *)

Plain == [server |-> "inline", channel |-> "inline", servers |-> "all",
          message |-> "inline", operation |-> "inline", action |-> "send",
          messages |-> "all", reply |-> "none", bindings |-> "none", options |-> "both",
          layout |-> "default"]

Variants ==
  [server    : {"inline", "ref", "ignored"},
   channel   : {"inline", "ref", "ignored"},
   servers   : {"all", "first"},
   message   : {"inline", "ref", "ignored"},
   operation : {"inline", "ref", "apart", "ignored", "none"},
   action    : {"send", "receive"},
   messages  : {"all", "own", "foreign"},
   reply     : {"none", "same", "own", "other", "foreign", "silent", "empty", "apart", "ignored"},
   bindings  : {"none", "channel", "message"},
   options   : {"both", "pub", "sub"},
   layout    : {"default", "protocol", "apart"}]

Deviations == 3

Chosen == {c \in Variants : Cardinality({k \in DOMAIN c : c[k] # Plain[k]}) <= Deviations}

Wiring(c) ==
  LET server1   == T("Server", "p", <<>>)
      message   == T("Message", "", <<<<"payload", T("Object", "object", <<>>)>>>>)
      bound(at) == IF c.bindings = at THEN <<<<"bindings", T("Bindings", "r", <<>>)>>>> ELSE <<>>
      message1  == T("Message", "", <<<<"payload", T("Object", "object", <<>>)>>>> \o bound("message"))
      named(key, channel, m) == <<<<key, Names(<<<<"channels", channel, "messages", m>>>>)>>>>
      to(channel) == <<<<"channel", RefTree("Struct", <<"channels", channel>>)>>>>
      toApart     == <<<<"channel", RefTree("Struct", <<"components", "channels", "c0">>)>>>>
      channel1  ==
        T("Channel", "", bound("channel") \o
          (IF c.servers = "first" THEN <<<<"servers", Names(<<<<"servers", "s1">>>>)>>>> ELSE <<>>)
          \o <<<<"messages", Map(<<<<"m", Stands(c.message, message1, "messages", "m")>>>>)>>>>)
      channel2  ==
        T("Channel", "", <<<<"servers", Names(<<<<"servers", "s2">>>>)>>,
                           <<"messages", Map(<<<<"n", message>>>>)>>>>)
      operation ==
        T("Operation", c.action,
          (IF c.operation = "apart" THEN toApart ELSE to("c1"))
          \o (CASE c.messages = "own"     -> named("messages", "c1", "m")
                [] c.messages = "foreign" -> named("messages", "c2", "n")
                [] OTHER                  -> <<>>)
          \o CASE c.reply = "none"    -> <<>>
               [] c.reply = "ignored" -> <<<<"reply", Without("OperationReply")>>>>
               [] OTHER -> <<<<"reply", T("OperationReply", "",
                    CASE c.reply = "own"     -> named("messages", "c1", "m")
                      [] c.reply = "foreign" -> named("messages", "c2", "n")
                      [] c.reply = "other"   -> to("c2")
                      [] c.reply = "silent"  -> to("c3")
                      [] c.reply = "empty"   -> to("c2") \o <<<<"messages", List(<<>>)>>>>
                      [] c.reply = "apart"   -> toApart
                      [] OTHER               -> <<>>)>>>>)
      shared(form, section, key, tree) ==
        IF form \in {"ref", "apart"} THEN <<<<section, Map(<<<<key, tree>>>>)>>>> ELSE <<>>
      sharedChannels ==
        LET channels == (IF c.channel = "ref" THEN <<<<"c1", channel1>>>> ELSE <<>>)
                        \o (IF "apart" \in {c.operation, c.reply} THEN <<<<"c0", channel1>>>> ELSE <<>>)
        IN IF channels = <<>> THEN <<>> ELSE <<<<"channels", Map(channels)>>>>
  IN Root(<<
       <<"servers", Map(<<<<"s1", Stands(c.server, server1, "servers", "s1")>>,
                          <<"s2", T("Server", "q", <<>>)>>>>)>>,
       <<"channels", Map(<<<<"c1", Stands(c.channel, channel1, "channels", "c1")>>,
                           <<"c2", channel2>>>>
                         \o (IF c.reply = "silent" THEN <<<<"c3", T("Channel", "", <<>>)>>>> ELSE <<>>))>>,
       <<"operations", Map(IF c.operation = "none" THEN <<>>
                           ELSE <<<<"o", Stands(c.operation, operation, "operations", "o")>>>>)>>,
       <<"components", T("Components", "",
          shared(c.server, "servers", "s1", server1)
          \o sharedChannels
          \o shared(c.message, "messages", "m", message1)
          \o shared(c.operation, "operations", "o", operation))>>>>)

-----------------------------------------------------------------------------
(* Schemas: two around a third, in three places. *)

Object(info, kids) == T("Object", info, kids)

Around == {"properties", "additionalProperties", "items", "itemsList", "oneOf", "allOf", "definitions"}

Wrap(how, tree) ==
  CASE how = "properties"  -> Object("object", <<<<how, Map(<<<<"x", tree>>, <<"y", tree>>>>)>>>>)
    [] how = "additionalProperties" -> Object("", <<<<how, tree>>>>)
    [] how = "items"       -> Object("", <<<<"items", tree>>>>)
    [] how = "itemsList"   -> Object("array", <<<<"items", List(<<tree>>)>>>>)
    [] how = "definitions" -> Object("object", <<<<how, Map(<<<<"x", tree>>>>)>>>>)
    [] OTHER               -> Object("", <<<<how, List(<<tree, tree>>)>>>>)

Leaves ==
  {Object(info, <<>>) : info \in {"object", "string", "any", "custom", "bad"}}
  \cup {Without("Object"), RefTree("Object", <<"components", "schemas", "S">>),
        RefTree("Object", <<"components", "schemas", "Missing">>),
        Object("", <<<<"properties", Map(<<>>)>>, <<"oneOf", List(<<>>)>>,
                     <<"items", Object("string", <<>>)>>>>)}

Placed(place, tree) ==
  Root(<<
    <<"channels", Map(<<<<"c1", T("Channel", "", <<<<"messages", Map(<<<<"m",
       IF place = "schemas" THEN T("Message", "", <<>>)
       ELSE T("Message", "", <<<<place, tree>>>>)>>>>)>>>>)>>>>)>>,
    <<"components", T("Components", "", <<<<"schemas",
       Map(<<<<"S", IF place = "schemas" THEN tree ELSE Object("object", <<>>)>>>>)>>>>)>>>>)

Schemas ==
  {[place |-> place, outer |-> outer, inner |-> inner, leaf |-> leaf] :
     place \in {"payload", "schemas"}, outer \in Around, inner \in Around,
     leaf \in {Object("object", <<>>), Object("any", <<>>)}}
  \cup {[place |-> place, outer |-> outer, inner |-> "", leaf |-> leaf] :
     place \in {"payload", "headers", "schemas"}, outer \in Around, leaf \in Leaves}

SchemaDocument(c) ==
  Placed(c.place, Wrap(c.outer, IF c.inner = "" THEN c.leaf ELSE Wrap(c.inner, c.leaf)))

-----------------------------------------------------------------------------
(* Correlation ids: a path through two schemas around a third. *)

Through == {"properties", "required", "nullable", "additionalProperties", "open", "items", "itemsList"}

Surround(how, tree) ==
  LET object == Wrap("properties", tree)
  IN CASE how = "required" -> [object EXCEPT ![<<>>].required = {"x"}]
       [] how = "nullable" -> [object EXCEPT ![<<>>].nullable = TRUE]
       [] how = "open"     -> [Object("object", <<>>) EXCEPT ![<<>>].open = TRUE]
       [] OTHER            -> Wrap(how, tree)

Steps(how) ==
  CASE how \in {"properties", "required", "nullable"} -> <<Name("x")>>
    [] how \in {"additionalProperties", "open"} -> <<Name(""), Name("k")>>
    [] how = "items"                      -> <<Number("0")>>
    [] how = "itemsList"                  -> <<Number("0"), Name("k")>>
    [] OTHER                              -> <<>>

(* The path as it should be, with its last member given as a number or as  *)
(* a name, or with one member more.                                        *)
Bend(path, how) ==
  CASE how = "straight" \/ path = <<>> -> path
    [] how = "number"   -> Front(path) \o <<Number(Last(path).key)>>
    [] how = "name"     -> Front(path) \o <<Name(Last(path).key)>>
    [] how = "longer"   -> path \o <<Name("x")>>

Correlations ==
  [field : {"headers", "payload"}, schema : BOOLEAN, outer : Through, inner : Through,
   leaf : {"string", "any", "object"}, bend : {"straight"}]
  \cup [field : {"headers", "payload"}, schema : BOOLEAN, outer : Through, inner : Through,
        leaf : {"string"}, bend : {"number", "name", "longer"}]

CorrelationDocument(c) ==
  Root(<<<<"channels", Map(<<<<"c1", T("Channel", "", <<<<"messages", Map(<<<<"m", T("Message", "",
    (IF c.schema THEN <<<<c.field, Surround(c.outer, Surround(c.inner, Object(c.leaf, <<>>)))>>>> ELSE <<>>)
    \o <<<<"correlationId",
          Tree([Node("CorrelationID", "") EXCEPT !.location =
                  At(c.field, Bend(IF c.schema THEN Steps(c.outer) \o Steps(c.inner)
                                   ELSE <<Name("k")>>, c.bend))],
               <<>>)>>>>)>>>>)>>>>)>>>>)>>>>)

-----------------------------------------------------------------------------
(* One of everything else, and what ends early. *)

Others == [
  all |->
    Root(<<
      <<"servers", Map(<<<<"s", T("Server", "p",
         <<<<"bindings", T("Bindings", "p", <<>>)>>,
           <<"security", List(<<T("SecurityScheme", "user", <<>>), Without("SecurityScheme")>>)>>,
           <<"variables", Map(<<<<"v", T("ServerVariable", "", <<>>)>>>>)>>>>)>>>>)>>,
      <<"channels", Map(<<<<"c", T("Channel", "",
         <<<<"bindings", T("Bindings", "p", <<>>)>>,
           <<"parameters", Map(<<<<"x", T("Parameter", "", <<>>)>>>>)>>,
           <<"messages", Map(<<<<"m", T("Message", "",
              <<<<"bindings", T("Bindings", "p", <<>>)>>,
                <<"correlationId", T("CorrelationID", "", <<>>)>>>>)>>>>)>>>>)>>>>)>>,
      <<"operations", Map(<<<<"o", T("Operation", "receive",
         <<<<"channel", RefTree("Struct", <<"channels", "c">>)>>,
           <<"traits", List(<<T("Struct", "",
              <<<<"bindings", T("Bindings", "p", <<>>)>>>>)>>)>>,
           <<"reply", T("OperationReply", "",
              <<<<"address", T("OperationReplyAddress", "", <<>>)>>,
                <<"messages", Names(<<<<"channels", "c", "messages", "m">>>>)>>>>)>>>>)>>>>)>>>>),
  version   |-> T("AsyncAPI", "bad", <<>>),
  channel   |-> Root(<<<<"operations", Map(<<<<"o", T("Operation", "send", <<>>)>>>>)>>>>),
  bindings  |-> Root(<<
      <<"servers", Map(<<<<"s", T("Server", "p",
         <<<<"bindings", RefTree("Bindings", <<"components", "serverBindings", "b">>)>>>>)>>>>)>>,
      <<"components", T("Components", "",
         <<<<"serverBindings", Map(<<<<"b", T("Bindings", "p", <<>>)>>>>)>>>>)>>>>),
  cycle     |-> Root(<<<<"components", T("Components", "", <<<<"messages",
      Map(<<<<"a", RefTree("Message", <<"components", "messages", "b">>)>>,
            <<"b", RefTree("Message", <<"components", "messages", "a">>)>>>>)>>>>)>>>>),
  ignored   |-> Root(<<
      <<"channels", Map(<<<<"c", T("Channel", "", <<<<"messages",
         Map(<<<<"m", RefTree("Message", <<"components", "messages", "m">>)>>>>)>>>>)>>>>)>>,
      <<"components", T("Components", "",
         <<<<"messages", Map(<<<<"m", Without("Message")>>>>)>>>>)>>>>),
  misplaced |-> Root(<<
      <<"operations", Map(<<<<"o", RefTree("Operation", <<"components", "servers", "s">>)>>>>)>>,
      <<"components", T("Components", "",
         <<<<"servers", Map(<<<<"s", T("Server", "p", <<>>)>>>>)>>>>)>>>>),
  type      |-> Root(<<<<"channels", Map(<<<<"c", T("Channel", "",
      <<<<"servers", Names(<<<<"channels", "c">>>>)>>>>)>>>>)>>>>)]

-----------------------------------------------------------------------------

Layout(name) ==
  CASE name = "default"  -> Everything
    [] name = "protocol" -> OnlyProtocol("p")
    [] name = "apart"    -> OneKindApart("server")

Input(tree, options, layout) ==
  [doc |-> tree, pub |-> options # "sub", sub |-> options # "pub", layout |-> Layout(layout)]

MCInputs ==
  [i \in ({"wiring"} \X Chosen) \cup ({"schema"} \X Schemas) \cup ({"other"} \X DOMAIN Others)
         \cup ({"correlation"} \X Correlations) |->
     CASE i[1] = "wiring" -> Input(Wiring(i[2]), i[2].options, i[2].layout)
       [] i[1] = "schema" -> Input(SchemaDocument(i[2]), "both", "default")
       [] i[1] = "correlation" -> Input(CorrelationDocument(i[2]), "both", "default")
       [] i[1] = "other"  ->
            Input(Others[i[2]], "both", IF i[2] = "ignored" THEN "protocol" ELSE "default")]
=============================================================================
