------------------------------ MODULE RefGraph ------------------------------
(***************************************************************************)
(* What compilation hands to the linker: for every compiled document its   *)
(* artifacts, its promises and its list promises, and how a promise        *)
(* addresses the artifact it stands for.  The linker and the abstract      *)
(* specification of linking are both stated over such a graph.             *)
(*                                                                         *)
(* Objects    artifacts that are not promises (channels, messages, types)  *)
(* Refs       lang.Ref values: promises that are artifacts themselves      *)
(* Internals  promises that are no artifact (lang.Promise)                 *)
(* Lists      list promises, always addressed by a callback                *)
(*                                                                         *)
(* A graph g is a record:                                                  *)
(*   docs     the locations of the compiled documents                      *)
(*   home     the document that keeps an artifact or a promise             *)
(*   pos      the JSON pointer of an artifact inside its document          *)
(*   loc, ptr the two halves of a promise's $ref; loc is Here when the     *)
(*            $ref names no location ("#/components/...")                  *)
(*   byCb     the promises that have a find callback                       *)
(*   find     the artifacts such a callback accepts                        *)
(*   accepts  the objects whose Go type the promise can hold               *)
(*   section  the artifacts at the pointers a list callback looks at       *)
(*   picks    the objects of the kind (visible ones) a list callback wants *)
(***************************************************************************)
EXTENDS FiniteSets

CONSTANTS Locs, Here, Ptrs, Objects, Refs, Internals, Lists, None

ASSUME RefGraphAssumption ==
  /\ Here \notin Locs
  /\ Objects \cap Refs = {}
  /\ Internals \cap (Objects \cup Refs) = {}
  /\ None \notin Objects \cup Refs \cup Internals

Artifacts == Objects \cup Refs
Promises  == Refs \cup Internals

Graphs ==
  [docs    : SUBSET Locs,
   home    : [Artifacts \cup Promises -> Locs],
   pos     : [Artifacts -> Ptrs],
   loc     : [Promises -> Locs \cup {Here}],
   ptr     : [Promises -> Ptrs],
   byCb    : SUBSET Internals,
   find    : [Promises -> SUBSET Artifacts],
   accepts : [Promises -> SUBSET Objects],
   section : [Lists -> SUBSET Artifacts],
   picks   : [Lists -> SUBSET Objects]]

(* A lang.Ref holds any artifact; a promise with a callback has the empty  *)
(* $ref.                                                                   *)
WellFormed(g) ==
  /\ \A e \in Artifacts \cup Promises : g.home[e] \in g.docs
  /\ \A r \in Refs : g.accepts[r] = Objects
  /\ \A p \in g.byCb : g.loc[p] = Here

(* The key of the document a promise is searched in. *)
Target(g, p) == IF g.loc[p] = Here THEN g.home[p] ELSE g.loc[p]

(* The artifacts of that document that the promise selects. *)
Matches(g, p) ==
  {a \in Artifacts :
     /\ g.home[a] = Target(g, p)
     /\ IF p \in g.byCb THEN a \in g.find[p] ELSE g.pos[a] = g.ptr[p]}

-----------------------------------------------------------------------------
(* Reference definitions, independent of the order a linker works in.      *)

(* One hop of a reference chain; a missing document has no hop. *)
Hop(g, p) == IF Target(g, p) \in g.docs THEN Matches(g, p) ELSE {}

Closed(g, X) == \A r \in X \cap Refs : Hop(g, r) \subseteq X

(* Object o lies on the chain that starts at p: it belongs to every closed *)
(* set of artifacts that holds p's first hop.                              *)
Leads(g, p, o) ==
  \A X \in SUBSET Artifacts : Hop(g, p) \subseteq X /\ Closed(g, X) => o \in X

Resolvable(g, p) == \E o \in Objects : Leads(g, p, o)

(* A promise that addresses no artifact, or several, of a known document.  *)
Ambiguous(g, p) ==
  /\ Target(g, p) \in g.docs
  /\ ~ \E a \in Artifacts : Matches(g, p) = {a}

(* A promise whose chain ends in an object of another Go type. *)
IllTyped(g, p) == \E o \in Objects \ g.accepts[p] : Leads(g, p, o)

Defective(g) == \E p \in Promises : Ambiguous(g, p) \/ IllTyped(g, p)

Dangling(g) == \E p \in Promises : ~ Resolvable(g, p)

(* What linking the graph comes to. *)
Verdict(g) == IF Defective(g) THEN "crashed"
              ELSE IF Dangling(g) THEN "failed"
              ELSE "linked"
=============================================================================
