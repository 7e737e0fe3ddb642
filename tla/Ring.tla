-------------------------------- MODULE Ring --------------------------------
(***************************************************************************)
(* run.Ring of run/ring.go: a list of elements and an iterator.  A mutex   *)
(* guards every method, so that each is one step of whoever calls it: the  *)
(* methods are operators from the ring before to the ring after.  Elements *)
(* are list.Element pointers, new for every Append.                        *)
(***************************************************************************)
EXTENDS Naturals, Sequences, SequencesExt

CONSTANT Nil

NewRing == [items |-> <<>>, iter |-> Nil]

FrontOf(items) == IF items = <<>> THEN Nil ELSE Head(items)

(* list.Element.Next, which is nil for the last element and a removed one. *)
After(items, e) ==
  IF \E i \in 1 .. Len(items) - 1 : items[i] = e
  THEN items[(CHOOSE i \in 1 .. Len(items) - 1 : items[i] = e) + 1]
  ELSE Nil

Without(items, e) ==
  IF e \in ToSet(items) THEN RemoveAt(items, CHOOSE i \in DOMAIN items : items[i] = e)
                        ELSE items

(* The ring after Next has returned r.iter. *)
Advanced(r) ==
  [r EXCEPT !.iter = IF r.iter = Nil THEN Nil
                     ELSE IF After(r.items, r.iter) # Nil THEN After(r.items, r.iter)
                     ELSE FrontOf(r.items)]

(* Mutant: the iterator goes to the new element. *)
AppendedFirst(r, e) == [items |-> Append(r.items, e), iter |-> e]

Appended(r, e) ==
  [items |-> Append(r.items, e), iter |-> IF r.iter = Nil THEN e ELSE r.iter]

Removed(r, e) ==
  LET moved == IF r.iter = e THEN After(r.items, e) ELSE r.iter
      rest  == Without(r.items, e)
  IN IF r.items = <<>> THEN r
     ELSE [items |-> rest, iter |-> IF moved = Nil THEN FrontOf(rest) ELSE moved]

(* The list holds elements once, and the iterator stands on one of them    *)
(* unless there are none: Next would panic on a stale element or report an *)
(* empty ring that is not.                                                 *)
RingOK(r) ==
  /\ IsInjective(r.items)
  /\ r.iter = Nil <=> r.items = <<>>
  /\ r.iter # Nil => r.iter \in ToSet(r.items)

(* The elements from the iterator to the end, then those before it.        *)
Turns(r) ==
  IF r.iter = Nil THEN <<>>
  ELSE LET i == CHOOSE k \in DOMAIN r.items : r.items[k] = r.iter
       IN SubSeq(r.items, i, Len(r.items)) \o SubSeq(r.items, 1, i - 1)
=============================================================================
