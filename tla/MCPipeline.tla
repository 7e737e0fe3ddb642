----------------------------- MODULE MCPipeline -----------------------------
(***************************************************************************)
(* Projects of up to four files: a and b in the working directory, b in a  *)
(* subdirectory s, and b on a server; and one document anywhere around the *)
(* working directory with one $ref to anywhere.                            *)
(***************************************************************************)
EXTENDS Pipeline, TLC

MCCwd == <<"home", "user">>

Local(segs) == FSPath(FALSE, segs)
A == Local(<<"a">>)
B == Local(<<"b">>)
SubB == Local(<<"s", "b">>)
Remote == URI("h", <<"b">>)
DotA == Local(<<".", "a">>)
UpA == Local(<<"..", "a">>)
AbsA == FSPath(TRUE, <<"home", "user", "a">>)

World(root, top, allow, files) ==
  [root |-> root, rootDir |-> top, allowRemote |-> allow, files |-> files]

(* All $refs of the two files of a flat project, chains, cycles, $refs to  *)
(* the file itself and to a file that is not there; also with an absolute  *)
(* path on the command line.                                               *)
FlatLists == {<<>>, <<A>>, <<B>>, <<A, B>>, <<B, A>>, <<B, B>>, <<A, A>>}

FlatWorlds ==
  {World(root, NoRoot, FALSE,
         IF haveB THEN (File(A) :> ra) @@ (File(B) :> rb) ELSE File(A) :> ra) :
     root \in {A, DotA, AbsA}, haveB \in BOOLEAN, ra \in FlatLists, rb \in FlatLists}

(* Directories, a root directory, remote files and the option that allows  *)
(* them.                                                                   *)
MixedLists == {<<>>, <<B>>, <<SubB>>, <<Remote>>, <<UpA>>, <<B, SubB>>, <<A, Remote>>,
               <<SubB, B>>}

MixedWorlds ==
  {World(root, top, allow,
         (File(A) :> ra) @@ (File(SubB) :> rs) @@ (File(Remote) :> rb)
           @@ (IF haveB THEN File(B) :> rb ELSE File(A) :> ra)) :
     root \in {A, DotA}, top \in {NoRoot, Local(<<"s">>)}, allow \in BOOLEAN,
     haveB \in BOOLEAN, ra \in MixedLists,
     rs \in {<<>>, <<B>>, <<Local(<<"..", "b">>)>>, <<Remote, B>>},
     rb \in {<<>>, <<A>>, <<SubB, B>>}}

(* Documents up to two directories away from the working directory, an     *)
(* absolute one and one on a server, with every $ref of such a form.       *)
Segments == {"a", "b", "..", "."}
Directories == {<<>>} \cup {<<x>> : x \in Segments} \cup (Segments \X Segments)
Places(absolute) == {FSPath(absolute, Append(dir, "f")) : dir \in Directories}

(* A document that refers to itself from above the root of the filesystem  *)
(* gets a longer location on every turn: such projects are left out.       *)
Climbs(base, target, top) ==
  LET joined == ResolveURL(top, base, target) IN File(joined) = File(base) /\ joined # base

PlaceWorlds ==
  {World(x[1], x[3], TRUE, File(x[1]) :> <<x[2]>>) :
     x \in {y \in (Places(FALSE) \cup {FSPath(TRUE, <<"a", "b", "f">>), URI("h", <<"a", "b", "f">>)})
                 \X (Places(FALSE) \cup Places(TRUE) \cup {URI("g", <<"a", "f">>)})
                 \X {NoRoot, Local(<<"a">>), Local(<<"..", "b">>), FSPath(TRUE, <<"a", "b">>)} :
               ~Climbs(y[1], y[2], y[3])}}

MCWorlds == FlatWorlds \cup MixedWorlds \cup PlaceWorlds
=============================================================================
