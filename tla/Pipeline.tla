------------------------------ MODULE Pipeline ------------------------------
(***************************************************************************)
(* Compilation and linking together: runCompilationAndLinking of           *)
(* cmd/go-asyncapi/code.go.  The compiler keys its documents by the        *)
(* locations ResolveURL returned; a promise keeps the $ref as the document *)
(* spells it, and the linker looks that up among the keys.                 *)
(*                                                                         *)
(* Linking is one step here.  Module Linker has its steps, and LinkerProofs*)
(* proves that they end as Verdict says, and bind what Leads says, in      *)
(* whatever order they are taken.                                          *)
(*                                                                         *)
(* Element 0 of a document is an object, element i its i-th $ref, which    *)
(* addresses element i - 1 of its target: first $refs lead to objects,     *)
(* later ones go through another $ref.                                     *)
(***************************************************************************)
EXTENDS Compilation

VARIABLES
  outcome,  \* "pending", or how linking ended
  bound     \* pairs of a $ref and the object it got

pvars == <<vars, outcome, bound>>

(* The location of a $ref that names none. *)
Here == FSPath(FALSE, <<>>)

Elements(d) == {<<d, i>> : i \in 1 .. Len(RefsOf(d))}
RefsIn(ds)  == UNION {Elements(d) : d \in ds}
Spelled(e)  == RefsOf(e[1])[e[2]]

(* The references of documents ds as the linker sees them.  key[d] names a *)
(* document; the $ref e goes to the document goesTo[e] names.              *)
GraphOf(ds, key, goesTo) ==
  LET element(e) == <<key[e[1]], e[2]>>
      objects == {<<key[d], 0>> : d \in ds}
      refs    == {element(e) : e \in RefsIn(ds)}
      spelled(r) == CHOOSE t \in {goesTo[e] : e \in {x \in RefsIn(ds) : element(x) = r}} : TRUE
  IN [docs    |-> {key[d] : d \in ds},
      home    |-> [a \in objects \cup refs |-> a[1]],
      pos     |-> [a \in objects \cup refs |-> a[2]],
      loc     |-> [r \in refs |-> spelled(r)],
      ptr     |-> [r \in refs |-> r[2] - 1],
      byCb    |-> {},
      find    |-> [r \in refs |-> {}],
      accepts |-> [r \in refs |-> objects],
      section |-> <<>>,
      picks   |-> <<>>]

ObjectsOf(g) == {a \in DOMAIN g.pos : g.pos[a] = 0}

Links(g) == INSTANCE RefGraph WITH
  Locs <- g.docs \cup {g.loc[r] : r \in DOMAIN g.loc}, Ptrs <- Nat, None <- "none",
  Objects <- ObjectsOf(g), Refs <- DOMAIN g.loc, Internals <- {}, Lists <- {}

(* Mutant: documents are keyed by absolute paths, $refs are not. *)
CompiledGraphAbsolute ==
  GraphOf(docs, [d \in docs |-> File(d)], [e \in RefsIn(docs) |-> Spelled(e)])

CompiledGraph ==
  GraphOf(docs, [d \in docs |-> d], [e \in RefsIn(docs) |-> Spelled(e)])

BoundIn(g) == {b \in (DOMAIN g.loc) \X ObjectsOf(g) : Links(g)!Leads(g, b[1], b[2])}

PInit == Init /\ outcome = "pending" /\ bound = {}

Link ==
  /\ status = "compiled" /\ outcome = "pending"
  /\ \E g \in {CompiledGraph} :
       /\ outcome' = Links(g)!Verdict(g)
       /\ bound' = BoundIn(g)
  /\ UNCHANGED vars

PNext == (Next /\ UNCHANGED <<outcome, bound>>) \/ Link

PSpec == PInit /\ [][PNext]_pvars /\ WF_pvars(PNext)

-----------------------------------------------------------------------------
(* What the documentation says a $ref means: a file, not a name.           *)

MeantFile(d, r) ==
  CASE IsRemote(r) \/ r.abs -> File(r)
    [] world.rootDir # NoRoot /\ ~IsRemote(r) /\ ~r.abs ->
         [host |-> NoHost, path |-> Walk(File(world.rootDir).path, r.segs)]
    [] OTHER ->
         [host |-> d.host, path |-> Walk(DirOf(File(d).path), r.segs)]

MeantGraph ==
  GraphOf(docs, [d \in docs |-> File(d)],
          [e \in RefsIn(docs) |-> MeantFile(e[1], Spelled(e))])

AsMeant ==
  \E g \in {MeantGraph} :
    /\ outcome = Links(g)!Verdict(g)
    /\ outcome = "linked" =>
         \A b \in bound : Links(g)!Leads(g, <<File(b[1][1]), b[1][2]>>, <<File(b[2][1]), 0>>)

(* No directory is named anywhere: all documents lie in the working        *)
(* directory, the user names the first one from there, and not by an       *)
(* absolute path, which the locations of all the others would be then.     *)
Flat ==
  /\ world.rootDir = NoRoot
  /\ \A d \in docs :
       /\ ~IsRemote(d) /\ ~d.abs /\ Dir(d.abs, d.segs) = <<>>
       /\ \A i \in DOMAIN RefsOf(d) :
            LET r == RefsOf(d)[i] IN ~IsRemote(r) /\ ~r.abs /\ Len(r.segs) = 1

(* In a flat project every $ref gets the object of the file it means, over *)
(* chains and cycles of documents, also when the user writes "./a" for the *)
(* first document and its file is compiled under two names.                *)
FlatProjectLinks == outcome # "pending" /\ Flat => AsMeant

(* What the documentation says of every project.                           *)
LinksAsDocumented == outcome # "pending" => AsMeant
=============================================================================
