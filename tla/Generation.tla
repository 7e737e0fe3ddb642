----------------------------- MODULE Generation -----------------------------
(***************************************************************************)
(* From the artifacts of a document to the code: the linked objects of     *)
(* internal/render, the selection of internal/selector by the layout rules *)
(* of the configuration, and what templates/code makes of the selected     *)
(* objects: the names the generated code declares, and those it uses.      *)
(*                                                                         *)
(* An input also has the options pub and sub, and layout, a set of rules   *)
(* [kinds, protocols, not]; an empty kinds or protocols filters nothing.   *)
(***************************************************************************)
EXTENDS Walk

VARIABLES
  end,       \* pointer -> the object a promise with that target has
  rendered   \* the objects main.tmpl renders

vars == <<walkVars, end, rendered>>

Init == WalkInit /\ end = <<>> /\ rendered = {}

Options == input

All == ToSet(artifacts)

-----------------------------------------------------------------------------
(* Linking, in one step: the module Linker has the algorithm, and its      *)
(* refinement says that this is its outcome.                               *)

Pointers == {a.ptr : a \in All}

RefTo(ptr) == (CHOOSE p \in promises : p.from = ptr /\ p.want = "any").to

ArtifactAt(ptr)     == CHOOSE a \in All : a.ptr = ptr
RefPointers == {ptr \in Pointers : ArtifactAt(ptr).form = "Ref"}

(* From every pointer over the $refs, n hops. *)
Hops(hop, count) ==
  LET after[n \in 0 .. count] ==
        IF n = 0 THEN [ptr \in Pointers |-> ptr]
        ELSE [ptr \in Pointers |-> hop[after[n - 1][ptr]]]
  IN after[count]

(* The artifact at the pointer, or after some $refs the one they lead to.  *)
Ends ==
  LET refs == RefPointers
      to   == [ptr \in Pointers |-> IF ptr \in refs THEN RefTo(ptr) ELSE ptr]
      last == Hops(to, Cardinality(refs))
  IN [ptr \in Pointers |-> ArtifactAt(last[ptr])]

Dangling == \E p \in promises : p.to \notin Pointers

(* lo.Must and the type assertion in Assign panic. *)
LinkCrashes(e) ==
  \E p \in promises : p.want # "any" /\ e[p.to].form # "Ref" /\ e[p.to].type # p.want

LinkPanic ==
  /\ stage = "compiled"
  /\ ~Dangling => LinkCrashes(Ends)
  /\ stage' = "crashed"
  /\ UNCHANGED <<input, stack, frames, artifacts, promises, end, rendered>>

(* References that lead nowhere are reported. *)
LinkFails ==
  /\ stage = "compiled" /\ ~Dangling
  /\ \E e \in {Ends} :
       ~LinkCrashes(e) /\ \E ptr \in DOMAIN e : e[ptr].form = "Ref"
  /\ stage' = "failed"
  /\ UNCHANGED <<input, stack, frames, artifacts, promises, end, rendered>>

Link ==
  /\ stage = "compiled" /\ ~Dangling
  /\ \E e \in {Ends} :
       /\ ~LinkCrashes(e) /\ \A ptr \in DOMAIN e : e[ptr].form # "Ref"
       /\ end' = e
  /\ stage' = "linked"
  /\ UNCHANGED <<input, stack, frames, artifacts, promises, rendered>>

-----------------------------------------------------------------------------
(* The linked objects.  Each is the record of its artifact.                *)

Dummy(x) == x.form = "Dummy"

Field(x, key)   == end[x.ptr \o <<key>>]
Fields(x, key)  == IF Has(doc, x.ptr, key)
                   THEN {end[x.ptr \o <<key, k>>] : k \in ToSet(doc[x.ptr \o <<key>>].keys)} ELSE {}
NamedBy(ptr)    == end[doc[ptr].ref]
NamedIn(x, key) == IF Has(doc, x.ptr, key)
                   THEN {NamedBy(x.ptr \o <<key, k>>) : k \in ToSet(doc[x.ptr \o <<key>>].keys)} ELSE {}

Does(o, action) == doc[o.ptr].info = action
HasReply(o)     == Has(doc, o.ptr, "reply")

IsPublisher(o)       == Does(o, "send") /\ Options.pub
IsSubscriber(o)      == Does(o, "receive") /\ Options.sub
IsReplyPublisher(o)  == HasReply(o) /\ Does(o, "receive") /\ Options.pub
IsReplySubscriber(o) == HasReply(o) /\ Does(o, "send") /\ Options.sub

HasCode(o) == IsPublisher(o) \/ IsSubscriber(o) \/ IsReplyPublisher(o) \/ IsReplySubscriber(o)

ChannelOf(o) == NamedBy(o.ptr \o <<"channel">>)

Visible(x) == ~Dummy(x) /\ (x.type = "Operation" => ~Dummy(ChannelOf(x)) /\ HasCode(x))

(* Mutant: the list promises leave out only what is ignored itself. *)
ActiveOrNot(section, type) ==
  {x \in {end[a.ptr] : a \in {a \in All : Len(a.ptr) > 1 /\ a.ptr[1] = section}} :
     x.type = type /\ ~Dummy(x)}

(* The list promises: what stands in a section of the root and is visible. *)
Active(section, type) ==
  {x \in {end[a.ptr] : a \in {a \in All : Len(a.ptr) > 1 /\ a.ptr[1] = section}} :
     x.type = type /\ Visible(x)}

BoundServers(c) ==
  IF Dummy(c) THEN {}
  ELSE IF NamedIn(c, "servers") = {} THEN Active("servers", "Server")
  ELSE NamedIn(c, "servers")

BoundChannels(s) == {c \in Active("channels", "Channel") : s \in BoundServers(c)}

BoundOperations(c) ==
  IF Dummy(c) THEN {} ELSE {o \in Active("operations", "Operation") : ChannelOf(o) = c}

ChannelMessages(c) == IF Dummy(c) THEN {} ELSE Fields(c, "messages")

BoundMessages(o) ==
  IF Has(doc, o.ptr, "messages") THEN NamedIn(o, "messages") ELSE ChannelMessages(ChannelOf(o))

(* The messages an operation or a reply names itself. *)
Messages(x) == IF Dummy(x) THEN {} ELSE NamedIn(x, "messages")

(* None without a reply, or when the reply does not name one. *)
ReplyChannels(o) ==
  {NamedBy(r.ptr \o <<"channel">>) :
     r \in {r \in IF HasReply(o) THEN {Field(o, "reply")} ELSE {} :
              ~Dummy(r) /\ Has(doc, r.ptr, "channel")}}

BoundReplyChannel(o) ==
  IF ReplyChannels(o) = {} THEN ChannelOf(o) ELSE CHOOSE c \in ReplyChannels(o) : TRUE

ReplyMessages(o) ==
  LET r == Field(o, "reply")
  IN IF Dummy(r) \/ Has(doc, r.ptr, "messages") THEN Messages(r)
     ELSE UNION {ChannelMessages(c) : c \in ReplyChannels(o)}

(* What the reply is bound to, or the operation when that is nothing.      *)
BoundReplyMessages(o) ==
  IF ReplyMessages(o) # {} THEN ReplyMessages(o) ELSE BoundMessages(o)

(* checkArtifacts prints a warning and lets the generation go on. *)
Warned(o) ==
  \/ ~(Messages(o) \subseteq ChannelMessages(ChannelOf(o)))
  \/ HasReply(o) /\ ~(Messages(Field(o, "reply")) \subseteq ChannelMessages(BoundReplyChannel(o)))

(* Only the servers that are selected count. *)
ChannelProtocols(c) ==
  {doc[s.ptr].info : s \in {s \in BoundServers(c) : s.sel = "yes"}}

OperationProtocols(o) ==
  ChannelProtocols(ChannelOf(o))
  \cup UNION {ChannelProtocols(c) : c \in {c \in ReplyChannels(o) : c.sel = "yes"}}

-----------------------------------------------------------------------------
(* Selection *)

OwnSelectable(x) ==
  /\ x.sel = "yes"
  /\ x.type = "Operation" => ChannelOf(x).sel = "yes" /\ HasCode(x)

(* A $ref with a flag of its own, or as its target says.                   *)
Selectable(a) ==
  IF a.form = "Ref" THEN a.sel = "yes" \/ (a.sel = "target" /\ OwnSelectable(end[a.ptr]))
  ELSE OwnSelectable(a)

Gathered == {end[a.ptr] : a \in {a \in All : Selectable(a)}}

(* The channels that carry a message, and the operations that do. *)
ChannelsOf(m)   == {c \in Active("channels", "Channel") : m \in ChannelMessages(c)}
OperationsOf(m) == {o \in Active("operations", "Operation") : m \in BoundMessages(o)}

(* Mutant: a message is only used by operations. *)
MessageProtocolsOfOperations(m) ==
  UNION {ChannelProtocols(ChannelOf(o)) : o \in {o \in OperationsOf(m) : OwnSelectable(o)}}

MessageProtocols(m) ==
  (UNION {ChannelProtocols(c) : c \in {c \in ChannelsOf(m) : c.sel = "yes"}})
  \cup (UNION {ChannelProtocols(ChannelOf(o)) : o \in {o \in OperationsOf(m) : OwnSelectable(o)}})

ActiveProtocols(x) ==
  CASE x.type = "Server"    -> {doc[x.ptr].info}
    [] x.type = "Channel"   -> ChannelProtocols(x)
    [] x.type = "Operation" -> OperationProtocols(x)
    [] x.type = "Message"   -> MessageProtocols(x)
    [] OTHER                -> {}

Kind(x) ==
  CASE x.type = "Object" /\ x.sel = "yes" -> "schema"
    [] x.type = "SecurityScheme"         -> "security"
    [] x.type = "Server"                 -> "server"
    [] x.type = "Channel"                -> "channel"
    [] x.type = "Operation"              -> "operation"
    [] x.type = "Message"                -> "message"
    [] x.type = "Parameter"              -> "parameter"
    [] OTHER                             -> ""

(* ActiveProtocols of an ignored operation or message follows a nil promise. *)
FilterPanics ==
  \E rule \in Options.layout, x \in Gathered :
    rule.protocols # {} /\ Dummy(x) /\ x.type \in {"Operation", "Message"}

SelectPanic ==
  /\ stage = "linked" /\ FilterPanics
  /\ stage' = "crashed"
  /\ UNCHANGED <<input, stack, frames, artifacts, promises, end, rendered>>

PassesFilters(x, rule) ==
  /\ rule.protocols # {} => rule.protocols \cap ActiveProtocols(x) # {}
  /\ rule.kinds # {} => Kind(x) \in rule.kinds

Selected(rule) == {x \in Gathered : (PassesFilters(x, rule) \/ rule.not) /\ ~rule.not}

Rules == Options.layout

SelectArtifacts == UNION {Selected(rule) : rule \in Rules}

Generate ==
  /\ stage = "linked" /\ ~FilterPanics
  /\ rendered' = {x \in SelectArtifacts : Visible(x) /\ Kind(x) # ""}
  /\ stage' = "generated"
  /\ UNCHANGED <<input, stack, frames, artifacts, promises, end>>

(* The protocols for which there is code that does not follow from the     *)
(* document: for those of the selected servers, and of all bindings.       *)
ActiveServersProtocols ==
  {doc[a.ptr].info : a \in {a \in All : a.type = "Server" /\ a.form = "Built" /\ a.sel = "yes"}}

(* Mutant: bindings do not count. *)
AllProtocolsOfServers == ActiveServersProtocols

AllProtocols ==
  ActiveServersProtocols
  \cup {doc[a.ptr].info : a \in {a \in All : a.type = "Bindings" /\ a.form = "Built"}}

Next ==
  \/ WalkNext /\ UNCHANGED <<end, rendered>>
  \/ LinkPanic \/ LinkFails \/ Link
  \/ SelectPanic \/ Generate

Spec == Init /\ [][Next]_vars

-----------------------------------------------------------------------------
(* The names in the generated code: Open<object><protocol> functions.      *)

Declares(x) ==
  IF x.type \in {"Channel", "Operation"} THEN {<<x, p>> : p \in ActiveProtocols(x)} ELSE {}

(* A server opens its channels and their operations; an operation its      *)
(* channel.                                                                *)
Calls(x) ==
  CASE x.type = "Server" ->
         LET bound == BoundChannels(x)
         IN {call \in (bound \cup UNION {BoundOperations(c) : c \in bound}) \X ActiveProtocols(x) :
               call[2] \in ActiveProtocols(call[1])}
    [] x.type = "Operation" -> {<<ChannelOf(x), p>> : p \in OperationProtocols(x)}
    [] OTHER -> {}

Declared == UNION {Declares(x) : x \in rendered}

(* The protocols whose utility package an object's code imports: its own   *)
(* and those of its bindings.                                              *)
UsesUtil(x) ==
  ActiveProtocols(x)
  \cup IF x.type \in {"Server", "Channel", "Operation", "Message"} /\ Has(doc, x.ptr, "bindings")
       THEN {doc[Field(x, "bindings").ptr].info} ELSE {}

-----------------------------------------------------------------------------
(* Properties *)

Generated == stage = "generated"

EveryKind == {"schema", "server", "channel", "operation", "message", "parameter", "security"}

(* The layout drops nothing. *)
DefaultLayout ==
  \A kind \in EveryKind :
    \E rule \in Options.layout : kind \in rule.kinds /\ rule.protocols = {} /\ ~rule.not

(* A $ref leads to an object of the kind of its place.  Linking asks for   *)
(* that only where an object has promised one, so not in the sections of   *)
(* the root and of components.                                             *)
ReferencesFit == \A a \in All : a.form = "Ref" => end[a.ptr].type = a.type

(* The README explains the two cases in which the code does not fit.       *)
ChannelsInPlace ==
  /\ \A c \in Active("channels", "Channel") : c.sel = "yes"
  /\ \A o \in {o \in rendered : o.type = "Operation"} :
       \A c \in {ChannelOf(o)} \cup ReplyChannels(o) : Dummy(c) \/ c.sel = "yes"

RepliesFit ==
  \A o \in Active("operations", "Operation") :
    OperationProtocols(o) \subseteq ChannelProtocols(ChannelOf(o))

(* What is selected, what is visible and which protocols are active is     *)
(* decided apart for every object, and the templates of one use the names  *)
(* of others.  They fit: an Open function of a channel or an operation is  *)
(* generated exactly when a server calls it, and an operation only opens   *)
(* its channel with protocols for which that function exists.              *)
ServersOpenWhatIsGenerated ==
  Generated /\ DefaultLayout /\ ReferencesFit /\ ChannelsInPlace /\ RepliesFit =>
    /\ UNION {Calls(s) : s \in {s \in rendered : s.type = "Server"}} = Declared
    /\ \A o \in {o \in rendered : o.type = "Operation"} : Calls(o) \subseteq Declared

(* A reply that has a channel but no messages is left those of the         *)
(* operation, which that channel does not carry.                           *)
ReplyHasMessages(o) == HasReply(o) /\ ReplyChannels(o) # {} => ReplyMessages(o) # {}

Fits(m, c) ==
  /\ m \in rendered
  /\ c \in ChannelsOf(m)
  /\ ChannelProtocols(c) \subseteq MessageProtocols(m)

(* The methods of an operation take messages that know its channel, and    *)
(* those of its reply messages that know the reply's: such a message has   *)
(* its code, with the methods of that channel, for every protocol of it.   *)
(* checkArtifacts has warned of every operation this is not true of.       *)
MessagesFitTheirChannels ==
  Generated /\ DefaultLayout /\ ChannelsInPlace =>
    \A o \in {o \in rendered : o.type = "Operation" /\ ~Warned(o) /\ ReplyHasMessages(o)} :
      /\ \A m \in {m \in BoundMessages(o) : Visible(m)} : Fits(m, ChannelOf(o))
      /\ HasReply(o) /\ Visible(BoundReplyChannel(o)) =>
           \A m \in {m \in BoundReplyMessages(o) : Visible(m)} : Fits(m, BoundReplyChannel(o))

ServersInPlace == \A s \in Active("servers", "Server") : s.sel = "yes"

(* The utility packages are generated before the objects, for protocols    *)
(* collected another way: none that an object imports is missing, or its   *)
(* template would fail and the generation with it.                         *)
UtilCodeIsThere ==
  Generated /\ ReferencesFit /\ ServersInPlace =>
    UNION {UsesUtil(x) : x \in rendered} \subseteq AllProtocols

(* docs: a $ref stands for "the object that should be used instead of the  *)
(* reference".  In a section of the root it makes the object generated,    *)
(* and a server's protocol active for the channels bound to it.            *)
RootReferencesTakeEffect ==
  Generated /\ DefaultLayout =>
    /\ \A x \in Active("servers", "Server") \cup Active("channels", "Channel")
                \cup Active("operations", "Operation") : x \in rendered
    /\ \A s \in Active("servers", "Server"), c \in Active("channels", "Channel") :
         s \in BoundServers(c) => ActiveProtocols(s) \subseteq ChannelProtocols(c)

=============================================================================
