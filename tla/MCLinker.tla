------------------------------ MODULE MCLinker ------------------------------
(***************************************************************************)
(* Small sets of documents for the linker.  Each family fixes where the    *)
(* artifacts are and varies every reference.                               *)
(***************************************************************************)
EXTENDS Linker, TLC

CONSTANTS d1, d2, nowhere,   \* two documents, and a location of none
          x, y, z, w,        \* JSON pointers
          o1, o2, r1, r2, r3, i1, l1

HomeOf(homes) == [a \in Artifacts \cup Promises |->
                    CHOOSE d \in DOMAIN homes : a \in homes[d]]

(* Two documents with an object at x and a $ref at y in each, and a        *)
(* promise of d1 such as a channel's server.  These go to x, y or z of any *)
(* document; z is a pointer nothing is at, nowhere an unknown file.  A     *)
(* third $ref, at w, goes to the object of its document.  Only r1 spells   *)
(* the location of its own document.                                       *)
CrossHomes == (d1 :> {o1, r1, r3, i1}) @@ (d2 :> {o2, r2})

CrossInputs ==
  {[docs    |-> {d1, d2},
    home    |-> HomeOf(CrossHomes),
    pos     |-> (o1 :> x) @@ (o2 :> x) @@ (r1 :> y) @@ (r2 :> y) @@ (r3 :> w),
    loc     |-> (r3 :> Here) @@ where,
    ptr     |-> (r3 :> x) @@ what,
    byCb    |-> {},
    find    |-> [p \in Promises |-> {}],
    accepts |-> [p \in Promises |-> IF p = i1 THEN ok ELSE Objects],
    section |-> (l1 :> {o1, r1, r2}),
    picks   |-> (l1 :> {o1})] :
     where \in {f \in [{r1, r2, i1} -> Locs \cup {Here}] :
                  f[r2] # d2 /\ f[i1] \in {Here, d2}},
     what  \in [{r1, r2, i1} -> {x, y, z}],
     ok    \in {{o1}, Objects}}

(* Three $refs of one document and a promise with a find callback, looking *)
(* for the document's root object.  Chains of length three and cycles of   *)
(* one, two or three; r3 may sit at the pointer of r2, which makes that    *)
(* pointer ambiguous.                                                      *)
ChainHomes == (d1 :> {o1, r1, r2, r3, i1}) @@ (d2 :> {o2})

ChainInputs ==
  {[docs    |-> {d1, d2},
    home    |-> HomeOf(ChainHomes),
    pos     |-> (o1 :> x) @@ (o2 :> x) @@ (r1 :> y) @@ (r2 :> z) @@ (r3 :> at),
    loc     |-> [p \in Promises |-> IF p = r3 THEN far ELSE Here],
    ptr     |-> [p \in Promises |-> IF p = i1 THEN x ELSE what[p]],
    byCb    |-> {i1},
    find    |-> [p \in Promises |-> IF p = i1 THEN {o1, o2} ELSE {}],
    accepts |-> [p \in Promises |-> Objects],
    section |-> (l1 :> {r1, r2, r3}),
    picks   |-> (l1 :> {o2})] :
     at \in {z, w}, far \in {Here, d2},
     what \in [Refs -> Ptrs]}

MCInputs == CrossInputs \cup ChainInputs
=============================================================================
