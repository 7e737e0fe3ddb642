------------------------------ MODULE Locator -------------------------------
(***************************************************************************)
(* The location half of a jsonpointer.JSONPointer and the built-in         *)
(* locator's ResolveURL (internal/locator/default.go, joinBase).           *)
(*                                                                         *)
(* A location is a record: host is NoHost for a filesystem path and the    *)
(* authority of a URL otherwise; abs says whether a path starts with "/";  *)
(* segs are the path's segments, "." and ".." among them.  Two locations   *)
(* are the same string exactly when the records are equal.                 *)
(***************************************************************************)
EXTENDS Naturals, SequencesExt

NoHost == "none"

FSPath(absolute, segs)   == [host |-> NoHost, abs |-> absolute, segs |-> segs]
URI(host, segs) == [host |-> host, abs |-> TRUE, segs |-> segs]
IsRemote(u)     == u.host # NoHost

(* path.Clean on segments: "." goes, ".." takes back the segment before    *)
(* it, is dropped at the root and is kept at the head of a relative path.  *)
CleanStep(absolute, done, s) ==
  CASE s = "."  -> done
    [] s = ".." /\ done # <<>> /\ done[Len(done)] # ".." -> Front(done)
    [] s = ".." /\ (done = <<>> \/ done[Len(done)] = "..") ->
         IF absolute THEN done ELSE Append(done, s)
    [] OTHER    -> Append(done, s)

CleanFrom(absolute, done, segs) ==
  LET After[n \in 0 .. Len(segs)] ==
        IF n = 0 THEN done ELSE CleanStep(absolute, After[n - 1], segs[n])
  IN After[Len(segs)]

Clean(absolute, segs) == CleanFrom(absolute, <<>>, segs)

(* path.Dir *)
Dir(absolute, segs) == Clean(absolute, IF segs = <<>> THEN segs ELSE Front(segs))

(* URL.ResolveReference, for a reference that is a path. *)
ResolveReference(base, ref) ==
  URI(base.host,
      Clean(TRUE, IF ref.abs \/ base.segs = <<>> THEN ref.segs
                  ELSE Front(base.segs) \o ref.segs))

(* The root directory option is a path, or the empty string when unset. *)
NoRoot == FSPath(FALSE, <<>>)

(* Mutant: the target is not confined before it is put under the root. *)
UnderRootUncleaned(rootDir, ref) == rootDir.segs \o ref.segs

(* path.Join(rootDir, path.Clean(path.Join("/", target))) before cleaning. *)
UnderRoot(rootDir, ref) == rootDir.segs \o Clean(TRUE, ref.segs)

(* Mutant: the reference is joined to the base document itself. *)
JoinPathsToFile(rootDir, base, ref) ==
  IF rootDir = NoRoot
  THEN FSPath(base.abs, Clean(base.abs, base.segs \o ref.segs))
  ELSE FSPath(rootDir.abs, Clean(rootDir.abs, UnderRoot(rootDir, ref)))

JoinPaths(rootDir, base, ref) ==
  IF rootDir = NoRoot
  THEN FSPath(base.abs, Clean(base.abs, Dir(base.abs, base.segs) \o ref.segs))
  ELSE FSPath(rootDir.abs, Clean(rootDir.abs, UnderRoot(rootDir, ref)))

ResolveURL(rootDir, base, ref) ==
  CASE IsRemote(base) /\ IsRemote(ref)  -> URI(ref.host, Clean(TRUE, ref.segs))
    [] IsRemote(base) /\ ~IsRemote(ref) -> ResolveReference(base, ref)
    [] ~IsRemote(base) /\ (IsRemote(ref) \/ ref.abs) -> ref
    [] OTHER -> JoinPaths(rootDir, base, ref)

(* The file a location opens in a process whose working directory is cwd.  *)
FileOf(cwd, u) ==
  [host |-> u.host,
   path |-> Clean(TRUE, IF u.abs THEN u.segs ELSE cwd \o u.segs)]

-----------------------------------------------------------------------------
(* Walking a path from a directory, one segment at a time: the reference   *)
(* for what a relative path means.  Here[n] is the directory after n steps *)
(* and the root's parent is the root.                                      *)
Walk(from, segs) ==
  LET Here[n \in 0 .. Len(segs)] ==
        IF n = 0 THEN from
        ELSE CASE segs[n] = "."  -> Here[n - 1]
               [] segs[n] = ".." -> SubSeq(Here[n - 1], 1, Len(Here[n - 1]) - 1)
               [] OTHER -> Append(Here[n - 1], segs[n])
  IN Here[Len(segs)]

DirOf(path) == SubSeq(path, 1, Len(path) - 1)
=============================================================================
