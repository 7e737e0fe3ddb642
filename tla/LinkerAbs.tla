----------------------------- MODULE LinkerAbs ------------------------------
(***************************************************************************)
(* What linking promises, whatever order the documents and the promises    *)
(* are visited in: promises are bound one by one, each to the object at    *)
(* the end of its chain of references, and the stage ends with the verdict *)
(* that the graph alone determines.                                        *)
(***************************************************************************)
EXTENDS RefGraph

CONSTANT Inputs

VARIABLES src, bound, outcome

absVars == <<src, bound, outcome>>

Init ==
  /\ src \in Inputs
  /\ bound = [p \in Promises |-> None]
  /\ outcome = "busy"

Bind(p, o) ==
  /\ outcome = "busy"
  /\ bound[p] = None
  /\ Leads(src, p, o)
  /\ bound' = [bound EXCEPT ![p] = o]
  /\ UNCHANGED <<src, outcome>>

(* Success and the "cannot resolve all refs" error come when everything    *)
(* that can be bound is bound.                                             *)
Conclude ==
  /\ outcome = "busy"
  /\ Verdict(src) # "crashed" =>
       \A p \in Promises : Resolvable(src, p) => bound[p] # None
  /\ outcome' = Verdict(src)
  /\ UNCHANGED <<src, bound>>

Next ==
  \/ \E p \in Promises, o \in Objects : Bind(p, o)
  \/ Conclude

SafeSpec == Init /\ [][Next]_absVars

Spec == SafeSpec /\ WF_absVars(Next)
=============================================================================
