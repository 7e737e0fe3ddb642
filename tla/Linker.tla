------------------------------- MODULE Linker -------------------------------
(***************************************************************************)
(* The linking stage: internal/linker/linker.go driven by runLinking of    *)
(* cmd/go-asyncapi/code.go.                                                *)
(*                                                                         *)
(* ResolvePromises makes passes over the map of documents until a pass     *)
(* assigns nothing.  A pass takes the documents in an arbitrary order (the *)
(* iteration order of a Go map) and looks at each promise of a document;   *)
(* the order of a document's slice of promises is arbitrary input, so the  *)
(* model takes them in any order.  resolvePromise follows a chain of       *)
(* references one document lookup at a time; its recursion is the variable *)
(* chase, so that a runaway recursion would be a behaviour of the model.   *)
(***************************************************************************)
EXTENDS RefGraph

CONSTANT Inputs

ASSUME LinkerAssumption ==
  \A g \in Inputs : g \in Graphs /\ WellFormed(g)

VARIABLES
  src,       \* the compiled documents, never changed by the linker
  phase,     \* where runLinking is, or how it ended
  docsLeft,  \* documents the current pass has still to enter
  left,      \* promises of the entered document still to be looked at
  chase,     \* the resolvePromise call in progress
  progress,  \* has the current pass assigned a promise?
  bound,     \* target of every promise, None until Assign
  assigned,  \* the list promises that are assigned
  listed     \* targets of every list promise

vars == <<src, phase, docsLeft, left, chase, progress, bound, assigned, listed>>

Idle == [p |-> None, at |-> None]

Final == {"linked", "failed", "panic_count", "panic_type", "panic_nil"}

TypeOK ==
  /\ src \in Graphs /\ WellFormed(src)
  /\ phase \in {"refs", "check", "lists"} \cup Final
  /\ docsLeft \subseteq src.docs
  /\ left \subseteq Promises
  /\ chase = Idle \/ chase \in [p : Promises, at : Promises]
  /\ progress \in BOOLEAN
  /\ bound \in [Promises -> Objects \cup {None}]
  /\ assigned \subseteq Lists
  /\ listed \in [Lists -> SUBSET Artifacts]

Init ==
  /\ src \in Inputs
  /\ phase = "refs"
  /\ docsLeft = src.docs
  /\ left = {}
  /\ chase = Idle
  /\ progress = FALSE
  /\ bound = [p \in Promises |-> None]
  /\ assigned = {}
  /\ listed = [l \in Lists |-> {}]

-----------------------------------------------------------------------------
(* ResolvePromises *)

PromisesOf(d) == {p \in Promises : src.home[p] = d}

EnterDocument(d) ==
  /\ phase = "refs" /\ chase = Idle /\ left = {}
  /\ d \in docsLeft
  /\ docsLeft' = docsLeft \ {d}
  /\ left' = PromisesOf(d)
  /\ UNCHANGED <<src, phase, chase, progress, bound, assigned, listed>>

SkipAssigned(p) ==
  /\ phase = "refs" /\ chase = Idle
  /\ p \in left
  /\ bound[p] # None
  /\ left' = left \ {p}
  /\ UNCHANGED <<src, phase, docsLeft, chase, progress, bound, assigned, listed>>

StartResolve(p) ==
  /\ phase = "refs" /\ chase = Idle
  /\ p \in left
  /\ bound[p] = None
  /\ chase' = [p |-> p, at |-> p]
  /\ UNCHANGED <<src, phase, docsLeft, left, progress, bound, assigned, listed>>

(* Mutant: one pass only. *)
EndPassOnce ==
  /\ phase = "refs" /\ chase = Idle /\ left = {} /\ docsLeft = {}
  /\ phase' = "check"
  /\ UNCHANGED <<src, docsLeft, left, chase, progress, bound, assigned, listed>>

EndPass ==
  /\ phase = "refs" /\ chase = Idle /\ left = {} /\ docsLeft = {}
  /\ IF progress THEN docsLeft' = src.docs /\ UNCHANGED phase
                 ELSE phase' = "check" /\ UNCHANGED docsLeft
  /\ progress' = FALSE
  /\ UNCHANGED <<src, left, chase, bound, assigned, listed>>

-----------------------------------------------------------------------------
(* resolvePromise: one lookup for the promise chase.at, on behalf of the   *)
(* promise chase.p of the loop.                                            *)

Chasing == phase = "refs" /\ chase # Idle

(* resolvePromise returned false: the promise waits for the next pass. *)
Postpone ==
  /\ chase' = Idle
  /\ left' = left \ {chase.p}
  /\ UNCHANGED <<src, phase, docsLeft, progress, bound, assigned, listed>>

Panic(why) ==
  /\ phase' = why
  /\ UNCHANGED <<src, docsLeft, left, chase, progress, bound, assigned, listed>>

DocumentMissing ==
  /\ Chasing
  /\ Target(src, chase.at) \notin src.docs
  /\ Postpone

(* Mutant: a lookup that does not find exactly one artifact waits. *)
NotExactlyOneWaits ==
  /\ Chasing
  /\ Ambiguous(src, chase.at)
  /\ Postpone

NotExactlyOne ==
  /\ Chasing
  /\ Ambiguous(src, chase.at)
  /\ Panic("panic_count")

(* Mutant: the recursion does not ask whether the promise is assigned. *)
FoundUnassignedRecurses(r) ==
  /\ Chasing
  /\ Hop(src, chase.at) = {r}
  /\ bound[r] = None
  /\ chase' = [chase EXCEPT !.at = r]
  /\ UNCHANGED <<src, phase, docsLeft, left, progress, bound, assigned, listed>>

FoundUnassigned(r) ==
  /\ Chasing
  /\ Hop(src, chase.at) = {r}
  /\ bound[r] = None
  /\ Postpone

(* The recursive call of resolvePromise on the promise it found. *)
FoundAssigned(r) ==
  /\ Chasing
  /\ Hop(src, chase.at) = {r}
  /\ bound[r] # None
  /\ chase' = [chase EXCEPT !.at = r]
  /\ UNCHANGED <<src, phase, docsLeft, left, progress, bound, assigned, listed>>

(* Mutant: Assign without the type assertion. *)
FoundObjectUnchecked(o) ==
  /\ Chasing
  /\ Hop(src, chase.at) = {o}
  /\ bound' = [bound EXCEPT ![chase.p] = o]
  /\ progress' = TRUE
  /\ chase' = Idle
  /\ left' = left \ {chase.p}
  /\ UNCHANGED <<src, phase, docsLeft, assigned, listed>>

(* An object ends the chain: Assign binds it, or panics on its type. *)
FoundObject(o) ==
  /\ Chasing
  /\ Hop(src, chase.at) = {o}
  /\ IF o \in src.accepts[chase.p]
     THEN /\ bound' = [bound EXCEPT ![chase.p] = o]
          /\ progress' = TRUE
          /\ chase' = Idle
          /\ left' = left \ {chase.p}
          /\ UNCHANGED <<src, phase, docsLeft, assigned, listed>>
     ELSE Panic("panic_type")

-----------------------------------------------------------------------------
(* runLinking after ResolvePromises, and ResolveListPromises. *)

Unresolved == {p \in Promises : bound[p] = None}

(* Mutant: the linking goes on with dangling refs. *)
CheckRefsIgnored ==
  /\ phase = "check"
  /\ phase' = "lists"
  /\ UNCHANGED <<src, docsLeft, left, chase, progress, bound, assigned, listed>>

CheckRefs ==
  /\ phase = "check"
  /\ phase' = IF Unresolved # {} THEN "failed" ELSE "lists"
  /\ UNCHANGED <<src, docsLeft, left, chase, progress, bound, assigned, listed>>

(* Mutant: a Ref is looked at as it is. *)
DerefNot(a) == a

(* Kind() and Visible() of a Ref are those of its target. *)
Deref(a) == IF a \in Refs THEN bound[a] ELSE a

(* ListPromise.AssignList *)
AssignTo(l, found) ==
  /\ assigned' = assigned \cup {l}
  /\ listed' = [listed EXCEPT ![l] = found]

(* A callback asks every artifact it looks at for its kind: an unbound Ref *)
(* would be a nil dereference.                                             *)
AssignList(l) ==
  /\ phase = "lists"
  /\ l \notin assigned
  /\ IF \E a \in src.section[l] : Deref(a) = None
     THEN Panic("panic_nil")
     ELSE /\ AssignTo(l, {a \in src.section[l] : Deref(a) \in src.picks[l]})
          /\ UNCHANGED <<src, phase, docsLeft, left, chase, progress, bound>>

FinishLinking ==
  /\ phase = "lists"
  /\ assigned = Lists
  /\ phase' = "linked"
  /\ UNCHANGED <<src, docsLeft, left, chase, progress, bound, assigned, listed>>

-----------------------------------------------------------------------------
Next ==
  \/ \E d \in Locs : EnterDocument(d)
  \/ \E p \in Promises : SkipAssigned(p) \/ StartResolve(p)
  \/ EndPass
  \/ DocumentMissing
  \/ NotExactlyOne
  \/ \E r \in Refs : FoundUnassigned(r) \/ FoundAssigned(r)
  \/ \E o \in Objects : FoundObject(o)
  \/ CheckRefs
  \/ \E l \in Lists : AssignList(l)
  \/ FinishLinking

(* The linker is one goroutine that runs until it returns or panics. *)
Spec == Init /\ [][Next]_vars /\ WF_vars(Next)
-----------------------------------------------------------------------------
(* Properties *)

(* A bound promise never holds something else than the object its chain of *)
(* references ends in, of the Go type it can hold: ResolvePromises binds   *)
(* on the strength of other promises bound earlier, in whatever order.     *)
BoundToEndOfChain ==
  \A p \in Promises : bound[p] # None =>
    /\ bound[p] \in src.accepts[p]
    /\ Leads(src, p, bound[p])

(* When the passes stop, no promise is left that a further pass could have *)
(* bound: the last pass, which assigns nothing, really is a fixpoint.      *)
NothingResolvableIsLeft ==
  phase \in {"check", "lists", "linked", "failed"} =>
    \A p \in Promises : Resolvable(src, p) => bound[p] # None

(* How linking ends is a function of the documents: map iteration order    *)
(* never turns a success into an error or a panic, nor the reverse.        *)
Outcome == CASE phase \in {"refs", "check", "lists"} -> "busy"
             [] phase \in {"panic_count", "panic_type", "panic_nil"} -> "crashed"
             [] OTHER -> phase

OutcomeIsDetermined == Outcome # "busy" => Outcome = Verdict(src)

(* No list callback ever asks an unbound Ref for its Kind(): runLinking    *)
(* gives up before ResolveListPromises when a $ref dangles.                *)
NoNilDereference == phase # "panic_nil"

(* A list promise gets every wanted artifact of its section, directly or   *)
(* through a $ref however long the chain, and nothing else.                *)
ListsAreComplete ==
  \A l \in assigned : \A a \in src.section[l] :
    a \in listed[l] <=>
      \E o \in src.picks[l] : a = o \/ (a \in Refs /\ Leads(src, a, o))

(* The linker implements the order-free specification of linking.  That    *)
(* one is fair, so linking ends, also over cyclic references: neither the  *)
(* passes nor the recursion of resolvePromise runs forever.                *)
Abs == INSTANCE LinkerAbs WITH outcome <- Outcome
ImplementsAbs == Abs!Spec
=============================================================================
