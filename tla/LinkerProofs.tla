---------------------------- MODULE LinkerProofs ----------------------------
(***************************************************************************)
(* Proofs about the linking stage, for every set of documents and every    *)
(* order of iteration.                                                     *)
(***************************************************************************)
EXTENDS Linker, TLAPS

USE RefGraphAssumption, LinkerAssumption

-----------------------------------------------------------------------------
(* Facts about reference chains *)

(* The object a hop ends in is led to. *)
LEMMA HopLeads ==
  ASSUME NEW g, NEW p, NEW o, Hop(g, p) = {o}
  PROVE  Leads(g, p, o)
BY DEF Leads

(* A chain that goes through r leads where r leads. *)
LEMMA HopTransfers ==
  ASSUME NEW g, NEW p, NEW r \in Refs, Hop(g, p) = {r},
         NEW o, Leads(g, r, o)
  PROVE  Leads(g, p, o)
<1> SUFFICES ASSUME NEW X \in SUBSET Artifacts, Hop(g, p) \subseteq X, Closed(g, X)
             PROVE  o \in X
  BY DEF Leads
<1>1. Hop(g, r) \subseteq X
  BY DEF Closed
<1> QED
  BY <1>1 DEF Leads

-----------------------------------------------------------------------------
(* The inductive invariant *)

(* A bound promise agrees with the artifact its first hop finds. *)
Agrees(p, o) ==
  \E a \in Artifacts : Hop(src, p) = {a} /\ (a = o \/ (a \in Refs /\ bound[a] = o))

(* A promise that waits: its document is unknown, or it found a promise    *)
(* that waits as well.                                                     *)
Waits(p) ==
  \/ Target(src, p) \notin src.docs
  \/ \E r \in Refs : Hop(src, p) = {r} /\ bound[r] = None

BoundInv ==
  \A p \in Promises : bound[p] # None =>
    /\ bound[p] \in src.accepts[p]
    /\ Leads(src, p, bound[p])
    /\ Agrees(p, bound[p])

ChaseInv ==
  chase # Idle =>
    /\ chase.p \in left
    /\ bound[chase.p] = None
    /\ \A o \in Objects : Leads(src, chase.at, o) => Leads(src, chase.p, o)
    /\ chase.at # chase.p =>
         /\ bound[chase.at] # None
         /\ Agrees(chase.p, bound[chase.at])

LeftInv == \A p \in left : src.home[p] \notin docsLeft

Settled == {"check", "lists", "linked", "failed"}

PassInv ==
  \A p \in Promises : bound[p] = None =>
    /\ phase = "refs" /\ ~progress /\ p \notin left /\ src.home[p] \notin docsLeft
         => Waits(p)
    /\ phase \in Settled => Waits(p)

PhaseInv ==
  /\ phase # "refs" /\ chase # Idle => phase \in {"panic_count", "panic_type"}
  /\ phase = "panic_count" => \E p \in Promises : Ambiguous(src, p)
  /\ phase = "panic_type" => \E p \in Promises : IllTyped(src, p)
  /\ phase = "failed" => \E p \in Promises : bound[p] = None
  /\ phase \in {"lists", "linked"} => \A p \in Promises : bound[p] # None
  /\ phase # "panic_nil"

IInv == TypeOK /\ BoundInv /\ ChaseInv /\ LeftInv /\ PassInv /\ PhaseInv

-----------------------------------------------------------------------------
(* Type correctness *)

LEMMA NoneIsNoObject == None \notin Objects
OBVIOUS

LEMMA HopInArtifacts ==
  ASSUME NEW g, NEW p PROVE Hop(g, p) \subseteq Artifacts
BY DEF Hop, Matches

(* A step keeps the types. *)
LEMMA TypeStep == TypeOK /\ [Next]_vars => TypeOK'
<1> SUFFICES ASSUME TypeOK, [Next]_vars PROVE TypeOK'
  OBVIOUS
<1> USE DEF TypeOK, Final, Idle
<1>1. ASSUME NEW d \in Locs, EnterDocument(d) PROVE TypeOK'
  BY <1>1 DEF EnterDocument, PromisesOf
<1>2. ASSUME NEW p \in Promises, SkipAssigned(p) PROVE TypeOK'
  BY <1>2 DEF SkipAssigned
<1>3. ASSUME NEW p \in Promises, StartResolve(p) PROVE TypeOK'
  BY <1>3 DEF StartResolve
<1>4. CASE EndPass
  BY <1>4 DEF EndPass
<1>5. CASE DocumentMissing
  BY <1>5 DEF DocumentMissing, Postpone, Chasing
<1>6. CASE NotExactlyOne
  BY <1>6 DEF NotExactlyOne, Panic, Chasing
<1>7. ASSUME NEW r \in Refs, FoundUnassigned(r) PROVE TypeOK'
  BY <1>7 DEF FoundUnassigned, Postpone, Chasing
<1>8. ASSUME NEW r \in Refs, FoundAssigned(r) PROVE TypeOK'
  BY <1>8 DEF FoundAssigned, Chasing, Promises
<1>9. ASSUME NEW o \in Objects, FoundObject(o) PROVE TypeOK'
  <2>1. chase \in [p : Promises, at : Promises] /\ chase.p \in Promises
    BY <1>9 DEF FoundObject, Chasing
  <2>2. CASE o \in src.accepts[chase.p]
    <3>1. bound' \in [Promises -> Objects \cup {None}]
      BY <1>9, <2>1, <2>2 DEF FoundObject
    <3>2. QED
      BY <1>9, <2>1, <2>2, <3>1 DEF FoundObject
  <2>3. CASE o \notin src.accepts[chase.p]
    BY <1>9, <2>3 DEF FoundObject, Panic
  <2>4. QED
    BY <2>2, <2>3
<1>10. CASE CheckRefs
  BY <1>10 DEF CheckRefs
<1>11. ASSUME NEW l \in Lists, AssignList(l) PROVE TypeOK'
  <2>1. CASE \E a \in src.section[l] : Deref(a) = None
    BY <1>11, <2>1 DEF AssignList, AssignTo, Panic
  <2>2. CASE ~ \E a \in src.section[l] : Deref(a) = None
    <3>1. {a \in src.section[l] : Deref(a) \in src.picks[l]} \in SUBSET Artifacts
      BY DEF Graphs
    <3>2. QED
      BY <1>11, <2>2, <3>1 DEF AssignList, AssignTo
  <2>3. QED
    BY <2>1, <2>2
<1>12. CASE FinishLinking
  BY <1>12 DEF FinishLinking
<1>13. CASE UNCHANGED vars
  BY <1>13 DEF vars
<1>14. QED
  BY <1>1, <1>2, <1>3, <1>4, <1>5, <1>6, <1>7, <1>8, <1>9, <1>10, <1>11,
     <1>12, <1>13 DEF Next

(* The linker's variables keep their types: in particular a target is an   *)
(* object, never another promise, though promises are found on the way.    *)
THEOREM TypeCorrect == Spec => []TypeOK
<1>1. Init => TypeOK
  BY DEF Init, TypeOK
<1>2. QED
  BY <1>1, TypeStep, PTL DEF Spec

-----------------------------------------------------------------------------
(* The inductive invariant is inductive *)

LEMMA InitInv == Init => IInv
<1> SUFFICES ASSUME Init PROVE IInv
  OBVIOUS
<1>1. TypeOK
  BY DEF Init, TypeOK
<1>2. BoundInv /\ ChaseInv /\ LeftInv
  BY DEF Init, BoundInv, ChaseInv, LeftInv, Idle
<1>3. PassInv /\ PhaseInv
  <2>1. \A p \in Promises : src.home[p] \in docsLeft
    BY DEF Init, WellFormed
  <2>2. QED
    BY <2>1 DEF Init, PassInv, PhaseInv, Settled
<1>4. QED
  BY <1>1, <1>2, <1>3 DEF IInv

(* A step that neither binds a promise nor changes the documents. *)
LEMMA BoundKept ==
  ASSUME BoundInv, src' = src, bound' = bound PROVE BoundInv'
BY DEF BoundInv, Agrees

(* The pass invariant when an unbound promise p is dropped from left: what *)
(* is needed is that p waits.                                              *)
LEMMA PostponeInv ==
  ASSUME IInv, Chasing, Postpone, Waits(chase.p)
  PROVE  ChaseInv' /\ LeftInv' /\ PassInv' /\ PhaseInv'
<1>1. ChaseInv' /\ LeftInv'
  BY DEF IInv, Postpone, ChaseInv, LeftInv
<1>2. PassInv'
  <2> SUFFICES ASSUME NEW p \in Promises, bound[p] = None, ~progress,
                      p \notin left \ {chase.p}, src.home[p] \notin docsLeft
               PROVE  Waits(p)
    BY DEF Postpone, Chasing, PassInv, Waits, Settled
  <2>1. CASE p = chase.p
    BY <2>1
  <2>2. CASE p # chase.p
    BY <2>2 DEF IInv, PassInv, Chasing
  <2>3. QED
    BY <2>1, <2>2
<1>3. PhaseInv'
  BY DEF IInv, Postpone, Chasing, PhaseInv
<1>4. QED
  BY <1>1, <1>2, <1>3

(* While a chase is past its first hop, the promise it looks at is bound,  *)
(* so its own hop found something bound.                                   *)
LEMMA ChaseHop ==
  ASSUME IInv, Chasing, chase.at # chase.p
  PROVE  \E a \in Artifacts : /\ Hop(src, chase.at) = {a}
                             /\ \/ a = bound[chase.at]
                                \/ a \in Refs /\ bound[a] = bound[chase.at]
<1>1. chase \in [p : Promises, at : Promises]
  BY DEF IInv, TypeOK, Chasing
<1>2. bound[chase.at] # None
  BY DEF IInv, ChaseInv, Chasing
<1>3. QED
  BY <1>1, <1>2 DEF IInv, BoundInv, Agrees

LEMMA MissingStep ==
  ASSUME IInv, DocumentMissing PROVE ChaseInv' /\ LeftInv' /\ PassInv' /\ PhaseInv'
<1>1. Chasing /\ Postpone
  BY DEF DocumentMissing
<1>2. Hop(src, chase.at) = {}
  BY DEF DocumentMissing, Hop
<1>3. chase.at = chase.p
  BY <1>1, <1>2, ChaseHop
<1>4. Waits(chase.p)
  BY <1>3 DEF DocumentMissing, Waits
<1>5. QED
  BY <1>1, <1>4, PostponeInv

LEMMA UnassignedStep ==
  ASSUME IInv, NEW r \in Refs, FoundUnassigned(r)
  PROVE  ChaseInv' /\ LeftInv' /\ PassInv' /\ PhaseInv'
<1>1. Chasing /\ Postpone /\ Hop(src, chase.at) = {r} /\ bound[r] = None
  BY DEF FoundUnassigned
<1>2. chase.at = chase.p
  <2> SUFFICES ASSUME chase.at # chase.p PROVE FALSE
    OBVIOUS
  <2>1. bound[chase.at] # None /\ bound[chase.at] \in Objects
    <3>1. chase \in [p : Promises, at : Promises]
      BY <1>1 DEF IInv, TypeOK, Chasing
    <3>2. bound[chase.at] # None
      BY <1>1 DEF IInv, ChaseInv, Chasing
    <3>3. QED
      BY <3>1, <3>2 DEF IInv, TypeOK
  <2>2. QED
    BY <1>1, <2>1, ChaseHop
<1>3. Waits(chase.p)
  BY <1>1, <1>2 DEF Waits
<1>4. QED
  BY <1>1, <1>3, PostponeInv

LEMMA AssignedStep ==
  ASSUME IInv, NEW r \in Refs, FoundAssigned(r)
  PROVE  ChaseInv' /\ LeftInv' /\ PassInv' /\ PhaseInv'
<1>1. /\ Chasing /\ Hop(src, chase.at) = {r} /\ bound[r] # None
      /\ chase' = [chase EXCEPT !.at = r]
      /\ UNCHANGED <<src, phase, docsLeft, left, progress, bound>>
  BY DEF FoundAssigned
<1>2. /\ chase \in [p : Promises, at : Promises]
      /\ chase'.p = chase.p /\ chase'.at = r
  BY <1>1 DEF IInv, TypeOK, Chasing
<1>3. ChaseInv'
  <2>1. Agrees(chase.p, bound[r])
    <3>1. CASE chase.at = chase.p
      BY <1>1, <3>1 DEF Agrees, Artifacts
    <3>2. CASE chase.at # chase.p
      <4>1. bound[chase.at] \in Objects /\ Agrees(chase.p, bound[chase.at])
        BY <1>1, <1>2, <3>2 DEF IInv, TypeOK, ChaseInv, Chasing
      <4>2. bound[r] = bound[chase.at]
        BY <1>1, <3>2, <4>1, ChaseHop
      <4>3. QED
        BY <4>1, <4>2
    <3>3. QED
      BY <3>1, <3>2
  <2>2. \A o \in Objects : Leads(src, r, o) => Leads(src, chase.p, o)
    BY <1>1, HopTransfers DEF IInv, ChaseInv, Chasing
  <2>3. chase.p \in left /\ bound[chase.p] = None
    BY <1>1 DEF IInv, ChaseInv, Chasing
  <2>4. QED
    BY <1>1, <1>2, <2>1, <2>2, <2>3 DEF ChaseInv, Agrees
<1>4. LeftInv' /\ PassInv' /\ PhaseInv'
  BY <1>1 DEF IInv, Chasing, LeftInv, PassInv, PhaseInv, Waits, Settled
<1>5. QED
  BY <1>3, <1>4

(* Assign: the chase ends in an object and its promise is bound to it. *)
LEMMA ObjectStep ==
  ASSUME IInv, NEW o \in Objects, FoundObject(o)
  PROVE  BoundInv' /\ ChaseInv' /\ LeftInv' /\ PassInv' /\ PhaseInv'
<1>0. chase \in [p : Promises, at : Promises]
  BY DEF FoundObject, IInv, TypeOK, Chasing
<1> PICK p0 \in Promises : p0 = chase.p
  BY <1>0
<1>1. /\ Chasing /\ Hop(src, chase.at) = {o}
      /\ p0 \in left /\ bound[p0] = None
  BY DEF FoundObject, IInv, ChaseInv, Chasing
<1>2. Leads(src, p0, o)
  BY <1>1, HopLeads DEF IInv, ChaseInv, Chasing
<1>3. CASE o \in src.accepts[p0]
  <2>1. /\ bound' = [bound EXCEPT ![p0] = o]
        /\ progress' = TRUE /\ chase' = Idle /\ left' = left \ {p0}
        /\ UNCHANGED <<src, phase, docsLeft>>
    BY <1>3 DEF FoundObject
  <2>2. /\ bound'[p0] = o /\ o # None
        /\ \A q \in Promises \ {p0} : bound'[q] = bound[q]
    BY <1>1, <2>1 DEF IInv, TypeOK
  <2>3. Agrees(p0, o)'
    <3>1. CASE chase.at = p0
      BY <1>1, <2>1, <3>1 DEF Agrees, Artifacts
    <3>2. CASE chase.at # p0
      <4>1. bound[chase.at] = o
        BY <1>1, <3>2, ChaseHop
      <4>2. Agrees(p0, o)
        BY <1>1, <3>2, <4>1 DEF IInv, ChaseInv, Chasing
      <4>3. QED
        BY <1>1, <2>1, <2>2, <4>2 DEF Agrees, Promises
    <3>3. QED
      BY <3>1, <3>2
  <2>4. BoundInv'
    <3> SUFFICES ASSUME NEW q \in Promises, bound'[q] # None
                 PROVE  /\ bound'[q] \in src.accepts[q]
                        /\ Leads(src, q, bound'[q])
                        /\ Agrees(q, bound[q])'
      BY <2>1 DEF BoundInv
    <3>1. CASE q = p0
      BY <1>2, <1>3, <2>2, <2>3, <3>1 DEF Agrees
    <3>2. CASE q # p0
      <4>1. /\ bound'[q] = bound[q] /\ bound[q] # None
            /\ bound[q] \in src.accepts[q] /\ Leads(src, q, bound[q])
            /\ Agrees(q, bound[q])
        BY <2>2, <3>2 DEF IInv, BoundInv
      <4>2. Agrees(q, bound[q])'
        BY <1>1, <2>1, <2>2, <4>1 DEF Agrees, Promises
      <4>3. QED
        BY <4>1, <4>2
    <3>3. QED
      BY <3>1, <3>2
  <2>5. ChaseInv' /\ LeftInv'
    BY <2>1 DEF IInv, ChaseInv, LeftInv
  <2>6. PassInv' /\ PhaseInv'
    BY <1>1, <2>1 DEF Chasing, IInv, PassInv, PhaseInv, Settled
  <2>7. QED
    BY <2>4, <2>5, <2>6
<1>4. CASE o \notin src.accepts[p0]
  <2>1. /\ phase' = "panic_type"
        /\ UNCHANGED <<src, docsLeft, left, chase, progress, bound>>
    BY <1>4 DEF FoundObject, Panic
  <2>2. IllTyped(src, p0)
    BY <1>2, <1>4 DEF IllTyped
  <2>3. BoundInv' /\ ChaseInv' /\ LeftInv' /\ PassInv'
    BY <2>1 DEF IInv, BoundInv, Agrees, ChaseInv, LeftInv, PassInv, Settled
  <2>4. PhaseInv'
    BY <1>1, <2>1, <2>2 DEF PhaseInv
  <2>5. QED
    BY <2>3, <2>4
<1>5. QED
  BY <1>3, <1>4

(* The loop of passes, and the end of ResolvePromises. *)
LEMMA LoopStep ==
  ASSUME IInv,
         \/ \E d \in Locs : EnterDocument(d)
         \/ \E p \in Promises : SkipAssigned(p) \/ StartResolve(p)
         \/ EndPass
  PROVE  ChaseInv' /\ LeftInv' /\ PassInv' /\ PhaseInv'
<1>1. ASSUME NEW d \in Locs, EnterDocument(d)
      PROVE  ChaseInv' /\ LeftInv' /\ PassInv' /\ PhaseInv'
  <2>1. ChaseInv' /\ LeftInv' /\ PhaseInv'
    BY <1>1 DEF EnterDocument, IInv, ChaseInv, LeftInv, PhaseInv, PromisesOf
  <2>2. PassInv'
    BY <1>1 DEF EnterDocument, IInv, PassInv, Waits, PromisesOf, Settled
  <2>3. QED
    BY <2>1, <2>2
<1>2. ASSUME NEW p \in Promises, SkipAssigned(p)
      PROVE  ChaseInv' /\ LeftInv' /\ PassInv' /\ PhaseInv'
  BY <1>2 DEF SkipAssigned, IInv, ChaseInv, LeftInv, PassInv, PhaseInv, Waits,
              Settled
<1>3. ASSUME NEW p \in Promises, StartResolve(p)
      PROVE  ChaseInv' /\ LeftInv' /\ PassInv' /\ PhaseInv'
  BY <1>3 DEF StartResolve, IInv, ChaseInv, LeftInv, PassInv, PhaseInv, Waits,
              Settled
<1>4. CASE EndPass
  <2>1. ChaseInv' /\ LeftInv' /\ PhaseInv'
    BY <1>4 DEF EndPass, IInv, ChaseInv, LeftInv, PhaseInv
  <2>2. PassInv'
    <3>1. CASE progress
      <4>1. \A p \in Promises : src'.home[p] \in docsLeft'
        BY <1>4, <3>1 DEF EndPass, IInv, TypeOK, WellFormed
      <4>2. phase' = "refs"
        BY <1>4, <3>1 DEF EndPass
      <4>3. QED
        BY <4>1, <4>2 DEF PassInv, Settled
    <3>2. CASE ~progress
      BY <1>4, <3>2 DEF EndPass, IInv, PassInv, Waits, Settled
    <3>3. QED
      BY <3>1, <3>2
  <2>3. QED
    BY <2>1, <2>2
<1>5. QED
  BY <1>1, <1>2, <1>3, <1>4

(* The panic on a lookup, and the rest of runLinking. *)
LEMMA TailStep ==
  ASSUME IInv,
         \/ NotExactlyOne
         \/ CheckRefs
         \/ \E l \in Lists : AssignList(l)
         \/ FinishLinking
  PROVE  ChaseInv' /\ LeftInv' /\ PassInv' /\ PhaseInv'
<1>1. CASE NotExactlyOne
  <2>1. chase.at \in Promises
    BY <1>1 DEF NotExactlyOne, IInv, TypeOK, Chasing
  <2>2. /\ phase = "refs" /\ phase' = "panic_count" /\ Ambiguous(src, chase.at)
        /\ UNCHANGED <<src, docsLeft, left, chase, progress, bound>>
    BY <1>1 DEF NotExactlyOne, Panic, Chasing
  <2>3. ChaseInv' /\ LeftInv'
    BY <2>2 DEF IInv, ChaseInv, LeftInv, Agrees
  <2>4. PassInv'
    BY <2>2 DEF PassInv, Settled
  <2>5. PhaseInv'
    BY <2>1, <2>2 DEF PhaseInv
  <2>6. QED
    BY <2>3, <2>4, <2>5
<1>2. CASE CheckRefs
  BY <1>2 DEF CheckRefs, Unresolved, IInv, ChaseInv, LeftInv, PassInv, PhaseInv, Settled, Waits
<1>3. ASSUME NEW l \in Lists, AssignList(l)
      PROVE  ChaseInv' /\ LeftInv' /\ PassInv' /\ PhaseInv'
  <2>1. \A a \in src.section[l] : Deref(a) # None
    <3>1. src.section[l] \subseteq Artifacts
      BY DEF IInv, TypeOK, Graphs
    <3>2. \A r \in Refs : bound[r] # None
      BY <1>3 DEF AssignList, AssignTo, IInv, PhaseInv, Promises
    <3>3. QED
      BY <3>1, <3>2 DEF Deref, Artifacts
  <2>2. UNCHANGED <<src, phase, docsLeft, left, chase, progress, bound>>
    BY <1>3, <2>1 DEF AssignList, AssignTo
  <2>3. ChaseInv' /\ LeftInv'
    BY <2>2 DEF IInv, ChaseInv, LeftInv, Agrees
  <2>4. PassInv' /\ PhaseInv'
    BY <2>2 DEF IInv, PassInv, PhaseInv, Settled, Waits
  <2>5. QED
    BY <2>3, <2>4
<1>4. CASE FinishLinking
  BY <1>4 DEF FinishLinking, IInv, ChaseInv, LeftInv, PassInv, PhaseInv, Settled, Waits
<1>5. QED
  BY <1>1, <1>2, <1>3, <1>4

LEMMA NextInv == IInv /\ [Next]_vars => IInv'
<1> SUFFICES ASSUME IInv, [Next]_vars PROVE IInv'
  OBVIOUS
<1>1. TypeOK'
  BY TypeStep DEF IInv
<1>2. CASE UNCHANGED vars
  BY <1>1, <1>2 DEF vars, IInv, BoundInv, Agrees, ChaseInv, LeftInv, PassInv,
                    PhaseInv, Settled, Waits
<1>3. CASE /\ src' = src /\ bound' = bound
           /\ ChaseInv' /\ LeftInv' /\ PassInv' /\ PhaseInv'
  BY <1>1, <1>3, BoundKept DEF IInv
<1>4. ASSUME NEW o \in Objects, FoundObject(o) PROVE IInv'
  BY <1>1, <1>4, ObjectStep DEF IInv
<1>5. CASE \/ \E d \in Locs : EnterDocument(d)
           \/ \E p \in Promises : SkipAssigned(p) \/ StartResolve(p)
           \/ EndPass
  BY <1>3, <1>5, LoopStep DEF EnterDocument, SkipAssigned, StartResolve, EndPass
<1>6. CASE DocumentMissing
  BY <1>3, <1>6, MissingStep DEF DocumentMissing, Postpone
<1>7. ASSUME NEW r \in Refs, FoundUnassigned(r) PROVE IInv'
  BY <1>3, <1>7, UnassignedStep DEF FoundUnassigned, Postpone
<1>8. ASSUME NEW r \in Refs, FoundAssigned(r) PROVE IInv'
  BY <1>3, <1>8, AssignedStep DEF FoundAssigned
<1>9. CASE \/ NotExactlyOne
           \/ CheckRefs
           \/ \E l \in Lists : AssignList(l)
           \/ FinishLinking
  BY <1>3, <1>9, TailStep DEF NotExactlyOne, CheckRefs, AssignList, AssignTo, FinishLinking,
                              Panic
<1>10. QED
  BY <1>2, <1>4, <1>5, <1>6, <1>7, <1>8, <1>9 DEF Next

THEOREM InductiveInvariant == Spec => []IInv
BY InitInv, NextInv, PTL DEF Spec

-----------------------------------------------------------------------------
(* What the invariant says of reference chains *)

(* A chain that ends in an object ends in one only: that of the binding. *)
LEMMA EndIsUnique ==
  ASSUME IInv, NEW p \in Promises, bound[p] # None,
         NEW o \in Objects, Leads(src, p, o)
  PROVE  o = bound[p]
<1> DEFINE X == {a \in Artifacts : a = bound[p] \/ (a \in Refs /\ bound[a] = bound[p])}
<1>1. Hop(src, p) \subseteq X
  BY DEF IInv, BoundInv, Agrees
<1>2. ASSUME NEW r \in X \cap Refs PROVE Hop(src, r) \subseteq X
  <2>1. bound[p] \in Objects
    BY DEF IInv, TypeOK
  <2>2. bound[r] = bound[p] /\ r \in Promises
    BY <1>2, <2>1 DEF Promises
  <2>3. Agrees(r, bound[p])
    BY <2>2 DEF IInv, BoundInv
  <2>4. QED
    BY <2>3 DEF Agrees
<1>3. Closed(src, X)
  BY <1>2 DEF Closed
<1>4. o \in X
  BY <1>1, <1>3 DEF Leads
<1>5. QED
  BY <1>4

(* Once the passes are over, a promise that is not bound leads nowhere: it *)
(* waits for promises that wait, around a cycle or for a missing document. *)
LEMMA UnboundLeadsNowhere ==
  ASSUME IInv, phase \in Settled, NEW p \in Promises, bound[p] = None
  PROVE  ~ Resolvable(src, p)
<1> SUFFICES ASSUME NEW o \in Objects, Leads(src, p, o) PROVE FALSE
  BY DEF Resolvable
<1> DEFINE X == {r \in Refs : bound[r] = None}
<1>1. ASSUME NEW q \in Promises, bound[q] = None PROVE Hop(src, q) \subseteq X
  <2>1. Waits(q)
    BY <1>1 DEF IInv, PassInv
  <2>2. QED
    BY <2>1 DEF Waits, Hop
<1>2. Closed(src, X)
  BY <1>1 DEF Closed, Promises
<1>3. X \in SUBSET Artifacts
  BY DEF Artifacts
<1>4. o \in X
  BY <1>1, <1>2, <1>3 DEF Leads
<1>5. QED
  BY <1>4

-----------------------------------------------------------------------------
(* The properties of linking *)

(* A promise only ever gets the object its chain of references ends in,    *)
(* and one of the Go type it can hold (resolvePromise and Assign).         *)
THEOREM Soundness == Spec => []BoundToEndOfChain
<1>1. IInv => BoundToEndOfChain
  BY DEF IInv, BoundInv, BoundToEndOfChain
<1>2. QED
  BY <1>1, InductiveInvariant, PTL

LEMMA FixpointLemma == IInv => NothingResolvableIsLeft
BY UnboundLeadsNowhere DEF NothingResolvableIsLeft, Settled

(* The passes of ResolvePromises stop at a fixpoint: every promise whose   *)
(* chain ends in an object is bound, in whatever order they were visited.  *)
THEOREM Completeness == Spec => []NothingResolvableIsLeft
BY FixpointLemma, InductiveInvariant, PTL

(* List callbacks run only when every Ref has a target to ask. *)
THEOREM NilSafety == Spec => []NoNilDereference
<1>1. IInv => NoNilDereference
  BY DEF IInv, PhaseInv, NoNilDereference
<1>2. QED
  BY <1>1, InductiveInvariant, PTL

(* The verdict on a graph that linking went through without a panic. *)
LEMMA SettledVerdict ==
  ASSUME IInv, phase \in {"failed", "linked"} PROVE Verdict(src) = phase
<1>1. ASSUME NEW p \in Promises PROVE ~ Ambiguous(src, p)
  <2>1. CASE bound[p] = None
    <3>1. Waits(p)
      BY <2>1 DEF IInv, PassInv, Settled
    <3>2. QED
      BY <3>1 DEF Waits, Ambiguous, Hop, Artifacts
  <2>2. CASE bound[p] # None
    <3>1. PICK a \in Artifacts : Hop(src, p) = {a}
      BY <2>2 DEF IInv, BoundInv, Agrees
    <3>2. QED
      BY <3>1 DEF Ambiguous, Hop
  <2>3. QED
    BY <2>1, <2>2
<1>2. ASSUME NEW p \in Promises PROVE ~ IllTyped(src, p)
  <2> SUFFICES ASSUME NEW o \in Objects \ src.accepts[p], Leads(src, p, o)
               PROVE  FALSE
    BY DEF IllTyped
  <2>1. bound[p] # None
    BY UnboundLeadsNowhere DEF Resolvable, Settled
  <2>2. o = bound[p]
    BY <2>1, EndIsUnique
  <2>3. QED
    BY <2>1, <2>2 DEF IInv, BoundInv
<1>3. ~ Defective(src)
  BY <1>1, <1>2 DEF Defective
<1>4. CASE phase = "failed"
  <2>1. Dangling(src)
    BY <1>4, UnboundLeadsNowhere DEF IInv, PhaseInv, Dangling, Settled
  <2>2. QED
    BY <1>3, <1>4, <2>1 DEF Verdict
<1>5. CASE phase = "linked"
  <2>1. ASSUME NEW p \in Promises PROVE Resolvable(src, p)
    <3>1. bound[p] # None
      BY <1>5 DEF IInv, PhaseInv
    <3>2. bound[p] \in Objects /\ Leads(src, p, bound[p])
      BY <3>1 DEF IInv, TypeOK, BoundInv
    <3>3. QED
      BY <3>2 DEF Resolvable
  <2>2. ~ Dangling(src)
    BY <2>1 DEF Dangling
  <2>3. QED
    BY <1>3, <1>5, <2>2 DEF Verdict
<1>6. QED
  BY <1>4, <1>5

LEMMA OutcomeLemma == IInv => OutcomeIsDetermined
<1> SUFFICES ASSUME IInv, Outcome # "busy" PROVE Outcome = Verdict(src)
  BY DEF OutcomeIsDetermined
<1>1. phase \in {"refs", "check", "lists"} \cup Final
  BY DEF IInv, TypeOK
<1>2. CASE phase \in {"panic_count", "panic_type"}
  <2>1. Defective(src)
    BY <1>2 DEF IInv, PhaseInv, Defective
  <2>2. QED
    BY <1>2, <2>1 DEF Outcome, Verdict
<1>3. CASE phase \in {"failed", "linked"}
  <2>1. Outcome = phase
    BY <1>3 DEF Outcome
  <2>2. QED
    BY <1>3, <2>1, SettledVerdict
<1>4. phase # "panic_nil" /\ phase \notin {"refs", "check", "lists"}
  BY DEF IInv, PhaseInv, Outcome
<1>5. QED
  BY <1>1, <1>2, <1>3, <1>4 DEF Final

(* Map iteration order never changes how linking ends: the documents alone *)
(* decide between success, the dangling-refs error and a panic.            *)
THEOREM Confluence == Spec => []OutcomeIsDetermined
BY OutcomeLemma, InductiveInvariant, PTL

-----------------------------------------------------------------------------
(* List promises *)

ListInv ==
  /\ assigned # {} => phase \in {"lists", "linked"}
  /\ \A l \in assigned :
       listed[l] = {a \in src.section[l] : Deref(a) \in src.picks[l]}

LEMMA ListStep == IInv /\ ListInv /\ [Next]_vars => ListInv'
<1> SUFFICES ASSUME IInv, ListInv, [Next]_vars PROVE ListInv'
  OBVIOUS
<1>1. ASSUME NEW l \in Lists, AssignList(l) PROVE ListInv'
  <2>1. CASE \E a \in src.section[l] : Deref(a) = None
    <3>1. PICK a \in src.section[l] : Deref(a) = None
      BY <2>1
    <3>2. a \in Artifacts
      BY DEF IInv, TypeOK, Graphs
    <3>3. FALSE
      BY <1>1, <3>1, <3>2 DEF AssignList, AssignTo, Deref, Artifacts, Promises, IInv, PhaseInv
    <3>4. QED
      BY <3>3
  <2>2. CASE ~ \E a \in src.section[l] : Deref(a) = None
    <3>1. /\ UNCHANGED <<src, phase, bound>> /\ phase = "lists"
          /\ assigned' = assigned \cup {l}
          /\ listed' = [listed EXCEPT ![l] =
                          {a \in src.section[l] : Deref(a) \in src.picks[l]}]
      BY <1>1, <2>2 DEF AssignList, AssignTo
    <3>2. listed \in [Lists -> SUBSET Artifacts] /\ assigned \subseteq Lists
      BY DEF IInv, TypeOK
    <3>3. QED
      BY <3>1, <3>2 DEF ListInv, Deref
  <2>3. QED
    BY <2>1, <2>2
<1>2. CASE assigned = {} /\ UNCHANGED assigned
  BY <1>2 DEF ListInv
<1>3. CASE FinishLinking
  BY <1>3 DEF FinishLinking, ListInv, Deref
<1>4. CASE UNCHANGED vars
  BY <1>4 DEF vars, ListInv, Deref
<1>5. CASE phase \in {"refs", "check"}
  <2>1. assigned = {}
    BY <1>5 DEF ListInv
  <2>2. CASE \E l \in Lists : AssignList(l)
    BY <1>1, <2>2
  <2>3. CASE ~ \E l \in Lists : AssignList(l)
    BY <1>2, <1>3, <1>4, <2>1, <2>3 DEF Next, EnterDocument, SkipAssigned,
       StartResolve, EndPass, DocumentMissing, NotExactlyOne, FoundUnassigned,
       FoundAssigned, FoundObject, CheckRefs, Postpone, Panic
  <2>4. QED
    BY <2>2, <2>3
<1>6. CASE phase \notin {"refs", "check"}
  BY <1>1, <1>3, <1>4, <1>6 DEF Next, EnterDocument, SkipAssigned,
     StartResolve, EndPass, DocumentMissing, NotExactlyOne, FoundUnassigned,
     FoundAssigned, FoundObject, CheckRefs, Chasing
<1>7. QED
  BY <1>5, <1>6

LEMMA ListLemma == IInv /\ ListInv => ListsAreComplete
<1> SUFFICES ASSUME IInv, ListInv, NEW l \in assigned, NEW a \in src.section[l]
             PROVE  a \in listed[l] <=>
                      \E o \in src.picks[l] : a = o \/ (a \in Refs /\ Leads(src, a, o))
  BY DEF ListsAreComplete
<1>1. a \in listed[l] <=> Deref(a) \in src.picks[l]
  BY DEF ListInv
<1>2. a \in Artifacts /\ src.picks[l] \subseteq Objects
  BY DEF IInv, TypeOK, Graphs
<1>3. \A r \in Refs : bound[r] # None /\ r \in Promises
  BY DEF ListInv, IInv, PhaseInv, Promises
<1>4. CASE a \in Refs
  <2>1. bound[a] \in Objects /\ Leads(src, a, bound[a])
    BY <1>3, <1>4 DEF IInv, TypeOK, BoundInv
  <2>2. \A o \in src.picks[l] : Leads(src, a, o) => o = bound[a]
    BY <1>2, <1>3, <1>4, EndIsUnique
  <2>3. a \notin Objects
    BY <1>4
  <2>4. QED
    BY <1>1, <1>2, <1>4, <2>1, <2>2, <2>3 DEF Deref
<1>5. CASE a \notin Refs
  BY <1>1, <1>5 DEF Deref
<1>6. QED
  BY <1>4, <1>5

(* A list promise holds exactly the wanted artifacts of its section,       *)
(* following $refs of any length (ResolveListPromises and its callbacks).  *)
THEOREM ListCompleteness == Spec => []ListsAreComplete
<1>1. Init => ListInv
  BY DEF Init, ListInv
<1>2. QED
  BY <1>1, InitInv, NextInv, ListStep, ListLemma, PTL DEF Spec

-----------------------------------------------------------------------------
(* Refinement *)

LEMMA SameGraph ==
  /\ \A g, p, o : Abs!Leads(g, p, o) = Leads(g, p, o)
  /\ \A g, p : Abs!Resolvable(g, p) = Resolvable(g, p)
  /\ \A g : Abs!Verdict(g) = Verdict(g)
  /\ Abs!Promises = Promises
<1>1. \A g, p : Abs!Target(g, p) = Target(g, p)
  BY DEF Abs!Target, Target
<1>2. /\ \A g, p : Abs!Matches(g, p) = Matches(g, p)
      /\ Abs!Artifacts = Artifacts
      /\ Abs!Promises = Promises
  BY <1>1 DEF Abs!Matches, Matches, Abs!Artifacts, Artifacts, Abs!Promises, Promises
<1>3. \A g, p : Abs!Hop(g, p) = Hop(g, p)
  BY <1>1, <1>2 DEF Abs!Hop, Hop
<1>4. \A g, X : Abs!Closed(g, X) = Closed(g, X)
  BY <1>3 DEF Abs!Closed, Closed
<1>5. \A g, p, o : Abs!Leads(g, p, o) = Leads(g, p, o)
  BY <1>2, <1>3, <1>4 DEF Abs!Leads, Leads
<1>6. \A g, p : Abs!Resolvable(g, p) = Resolvable(g, p)
  BY <1>5 DEF Abs!Resolvable, Resolvable
<1>7. \A g, p : /\ Abs!Ambiguous(g, p) = Ambiguous(g, p)
                /\ Abs!IllTyped(g, p) = IllTyped(g, p)
  BY <1>1, <1>2, <1>5 DEF Abs!Ambiguous, Ambiguous, Abs!IllTyped, IllTyped
<1>8. \A g : Abs!Verdict(g) = Verdict(g)
  BY <1>2, <1>6, <1>7 DEF Abs!Verdict, Verdict, Abs!Defective, Defective,
                          Abs!Dangling, Dangling
<1>9. QED
  BY <1>2, <1>5, <1>6, <1>8

(* A step that ends linking is the abstract conclusion. *)
LEMMA ConcludeStep ==
  ASSUME IInv, IInv', Outcome = "busy", Outcome' # "busy",
         src' = src, bound' = bound
  PROVE  Abs!Conclude
<1>1. Outcome' = Verdict(src)
  <2>1. OutcomeIsDetermined'
    BY OutcomeLemma, PTL
  <2>2. QED
    BY <2>1 DEF OutcomeIsDetermined
<1>2. ASSUME Verdict(src) # "crashed", NEW p \in Promises, Resolvable(src, p)
      PROVE  bound[p] # None
  <2>1. phase' \in {"failed", "linked"}
    BY <1>1, <1>2 DEF IInv, TypeOK, Final, Outcome, Verdict
  <2>2. NothingResolvableIsLeft'
    BY FixpointLemma, PTL
  <2>3. QED
    BY <1>2, <2>1, <2>2 DEF NothingResolvableIsLeft
<1>3. QED
  BY <1>1, <1>2, SameGraph DEF Abs!Conclude

(* The linker, with its passes and its map order, implements the           *)
(* order-free specification: every step binds one promise to the end of    *)
(* its chain, concludes with the verdict of the graph, or stutters.        *)
THEOREM Refinement == Spec => Abs!SafeSpec
<1>1. Init => Abs!Init
  BY SameGraph DEF Init, Abs!Init, Outcome
<1>2. IInv /\ IInv' /\ [Next]_vars => [Abs!Next]_(Abs!absVars)
  <2> SUFFICES ASSUME IInv, IInv', [Next]_vars PROVE [Abs!Next]_(Abs!absVars)
    OBVIOUS
  <2>1. ASSUME NEW o \in Objects, FoundObject(o), o \in src.accepts[chase.p]
        PROVE  Abs!Next
    <3>1. /\ chase \in [p : Promises, at : Promises]
          /\ bound[chase.p] = None /\ Leads(src, chase.p, o)
      BY <2>1, HopLeads DEF IInv, TypeOK, ChaseInv, FoundObject, Chasing
    <3>2. Abs!Bind(chase.p, o)
      BY <2>1, <3>1, SameGraph DEF Abs!Bind, FoundObject, Chasing, Outcome
    <3>3. QED
      BY <3>1, <3>2, SameGraph DEF Abs!Next
  <2>2. CASE src' = src /\ bound' = bound /\ Outcome = "busy"
    <3>1. CASE Outcome' = "busy"
      BY <2>2, <3>1 DEF Abs!absVars
    <3>2. CASE Outcome' # "busy"
      BY <2>2, <3>2, ConcludeStep DEF Abs!Next
    <3>3. QED
      BY <3>1, <3>2
  <2>3. CASE UNCHANGED vars
    BY <2>3 DEF vars, Abs!absVars, Outcome
  <2>4. ASSUME NEW o \in Objects, FoundObject(o), o \notin src.accepts[chase.p]
        PROVE  src' = src /\ bound' = bound /\ Outcome = "busy"
    BY <2>4 DEF FoundObject, Panic, Chasing, Outcome
  <2>5. ASSUME NEW l \in Lists, AssignList(l)
        PROVE  src' = src /\ bound' = bound /\ Outcome = "busy"
    BY <2>5 DEF AssignList, AssignTo, Panic, Outcome
  <2>6. ASSUME Next, ~ \E o \in Objects : FoundObject(o),
               ~ \E l \in Lists : AssignList(l)
        PROVE  src' = src /\ bound' = bound /\ Outcome = "busy"
    BY <2>6 DEF Next, EnterDocument, SkipAssigned, StartResolve, EndPass,
       DocumentMissing, NotExactlyOne, FoundUnassigned, FoundAssigned, CheckRefs,
       FinishLinking, Postpone, Panic, Chasing, Outcome
  <2>7. QED
    BY <2>1, <2>2, <2>3, <2>4, <2>5, <2>6
<1>3. QED
  BY <1>1, <1>2, InductiveInvariant, PTL DEF Spec, Abs!SafeSpec
=============================================================================
