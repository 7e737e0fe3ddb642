------------------------------ MODULE RingAbs -------------------------------
(***************************************************************************)
(* What run.Ring promises its users: the items of a ring take turns.       *)
(* turns[c] is the order in which the items present in ring c will be      *)
(* served if nothing is added or removed.                                  *)
(***************************************************************************)
EXTENDS Naturals, Sequences, SequencesExt

CONSTANTS Rings, Elements

VARIABLE turns

Init == turns = [c \in Rings |-> <<>>]

(* The item whose turn it is goes to the end. *)
Serve(c) == /\ turns[c] # <<>>
            /\ turns' = [turns EXCEPT ![c] = Append(Tail(@), Head(@))]

(* A new item never takes the next turn from an item that had it. *)
Join(c) ==
  \E e \in Elements \ ToSet(turns[c]) :
    \E i \in (IF turns[c] = <<>> THEN {1} ELSE 2 .. Len(turns[c]) + 1) :
      turns' = [turns EXCEPT ![c] = InsertAt(@, i, e)]

(* The others keep their order. *)
Leave(c) == \E i \in DOMAIN turns[c] : turns' = [turns EXCEPT ![c] = RemoveAt(@, i)]

Next == \E c \in Rings : Serve(c) \/ Join(c) \/ Leave(c)

Spec == Init /\ [][Next]_turns
=============================================================================
