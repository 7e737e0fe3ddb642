---------------------------- MODULE Compilation -----------------------------
(***************************************************************************)
(* The compilation stage: runCompilation of cmd/go-asyncapi/code.go.  It   *)
(* works through a queue of document locations, starting from the document *)
(* on the command line; compiling a document appends the locations of its  *)
(* external $refs, joined to the document's own location.                  *)
(*                                                                         *)
(* A world is what a run of the tool finds around it:                      *)
(*   root        the document on the command line, as the user wrote it    *)
(*   rootDir     the locator's root directory, NoRoot when unset           *)
(*   allowRemote the --allow-remote-refs option                            *)
(*   files       the $refs, in order, of every file that can be read       *)
(*               and decoded, by the identity of the file                  *)
(* A $ref is a location; "#/..." refs add nothing to the queue and are     *)
(* left out.                                                               *)
(***************************************************************************)
EXTENDS Locator, FiniteSets, SequencesExt

CONSTANTS Cwd, Worlds

Locations == [host : STRING \cup {NoHost}, abs : BOOLEAN, segs : Seq(STRING)]

(* The locations of a world that ResolveURL takes as they are. *)
Given(w) == {w.root} \cup {u \in UNION {ToSet(w.files[f]) : f \in DOMAIN w.files} : u.abs}

(* The last segment of a path to a file is its name.                       *)
NamesFile(u) == u.segs # <<>> /\ u.segs[Len(u.segs)] \notin {".", ".."}

(* Directories cannot be read as documents: neither those the working      *)
(* directory lies in, nor what a path that ends in "." or ".." leads to.   *)
NoDirectoryIsFile(w) ==
  /\ \A f \in DOMAIN w.files : f.host = NoHost => ~IsPrefix(f.path, Cwd)
  /\ \A u \in Given(w) : ~IsRemote(u) /\ FileOf(Cwd, u) \in DOMAIN w.files => NamesFile(u)

ASSUME CompilationAssumption ==
  /\ Cwd \in Seq(STRING) /\ ToSet(Cwd) \cap {".", ".."} = {}
  /\ \A w \in Worlds :
       /\ w.root \in Locations /\ w.rootDir \in Locations /\ ~IsRemote(w.rootDir)
       /\ \A f \in DOMAIN w.files : w.files[f] \in Seq(Locations)
       /\ NoDirectoryIsFile(w)

VARIABLES
  world,    \* the world of this run
  queue,    \* compileQueue
  docs,     \* keys of documents: the locations taken up
  fetched,  \* locations given to the locator, in order
  status    \* "running", or how the stage ended

vars == <<world, queue, docs, fetched, status>>

File(u)     == FileOf(Cwd, u)
Readable(u) == File(u) \in DOMAIN world.files
RefsOf(u)   == world.files[File(u)]

(* ExternalURLs of the document at u, joined to u. *)
JoinedRefs(u) ==
  [i \in 1 .. Len(RefsOf(u)) |-> ResolveURL(world.rootDir, u, RefsOf(u)[i])]

Allowed(u) == world.allowRemote \/ ~IsRemote(u)

Init ==
  /\ world \in Worlds
  /\ queue = <<world.root>>
  /\ docs = {}
  /\ fetched = <<>>
  /\ status = "running"

Popping == status = "running" /\ queue # <<>>

(* Mutant: the item of a compiled document is read and never popped. *)
SkipCompiledKeepsItem ==
  /\ Popping
  /\ Head(queue) \in docs
  /\ UNCHANGED vars

SkipCompiled ==
  /\ Popping
  /\ Head(queue) \in docs
  /\ queue' = Tail(queue)
  /\ UNCHANGED <<world, docs, fetched, status>>

(* Mutant: a document met a second time is compiled anew. *)
CompileAgain ==
  /\ Popping
  /\ LET u == Head(queue) IN
       /\ Allowed(u) /\ Readable(u)
       /\ docs' = docs \cup {u}
       /\ fetched' = Append(fetched, u)
       /\ queue' = Tail(queue) \o JoinedRefs(u)
  /\ UNCHANGED <<world, status>>

Compile ==
  /\ Popping
  /\ LET u == Head(queue) IN
       /\ u \notin docs /\ Allowed(u) /\ Readable(u)
       /\ docs' = docs \cup {u}
       /\ fetched' = Append(fetched, u)
       /\ queue' = Tail(queue) \o JoinedRefs(u)
  /\ UNCHANGED <<world, status>>

(* Mutant: the document is loaded before the option is looked at. *)
ForbiddenAfterLoad ==
  /\ Popping
  /\ LET u == Head(queue) IN
       /\ u \notin docs /\ ~Allowed(u)
       /\ docs' = docs \cup {u}
       /\ fetched' = Append(fetched, u)
  /\ queue' = Tail(queue)
  /\ status' = "forbidden"
  /\ UNCHANGED world

Forbidden ==
  /\ Popping
  /\ LET u == Head(queue) IN
       /\ u \notin docs /\ ~Allowed(u)
       /\ docs' = docs \cup {u}
  /\ queue' = Tail(queue)
  /\ status' = "forbidden"
  /\ UNCHANGED <<world, fetched>>

(* Mutant: a document that cannot be loaded is left out. *)
LoadFailsSilently ==
  /\ Popping
  /\ LET u == Head(queue) IN
       /\ u \notin docs /\ Allowed(u) /\ ~Readable(u)
       /\ docs' = docs \cup {u}
       /\ fetched' = Append(fetched, u)
  /\ queue' = Tail(queue)
  /\ UNCHANGED <<world, status>>

LoadFails ==
  /\ Popping
  /\ LET u == Head(queue) IN
       /\ u \notin docs /\ Allowed(u) /\ ~Readable(u)
       /\ docs' = docs \cup {u}
       /\ fetched' = Append(fetched, u)
  /\ queue' = Tail(queue)
  /\ status' = "unreadable"
  /\ UNCHANGED world

Finish ==
  /\ status = "running" /\ queue = <<>>
  /\ status' = "compiled"
  /\ UNCHANGED <<world, queue, docs, fetched>>

Next == SkipCompiled \/ Compile \/ Forbidden \/ LoadFails \/ Finish

(* One goroutine works until the queue is empty or a document fails. *)
Spec == Init /\ [][Next]_vars /\ WF_vars(Next)

-----------------------------------------------------------------------------
(* Properties *)

TypeOK ==
  /\ world.allowRemote \in BOOLEAN
  /\ \A i \in DOMAIN queue : queue[i].abs \in BOOLEAN
  /\ IsFiniteSet(docs)
  /\ ToSet(fetched) \subseteq docs
  /\ status \in {"running", "compiled", "forbidden", "unreadable"}

(* The locations that belong to every set that holds the root and, with a  *)
(* readable document, the targets of its $refs.  All of them are among the *)
(* locations this run has met, once it is over.                            *)
Met == docs \cup ToSet(queue)
ClosedUnderRefs(S) == \A u \in S : Allowed(u) /\ Readable(u) => ToSet(JoinedRefs(u)) \subseteq S
Reachable == {u \in Met : \A S \in SUBSET Met :
                world.root \in S /\ ClosedUnderRefs(S) => u \in S}

Bad(u) == ~Allowed(u) \/ ~Readable(u)

(* Success means that precisely the documents reachable over $refs are     *)
(* compiled and every one of them could be; failure means that one of the  *)
(* reachable documents is unreadable or forbidden.                         *)
ClosureCompiled ==
  /\ status = "compiled" =>
       /\ docs = Reachable
       /\ ClosedUnderRefs(docs)
       /\ ToSet(fetched) = docs
       /\ ~ \E u \in docs : Bad(u)
  /\ status \in {"forbidden", "unreadable"} => \E u \in Reachable : Bad(u)

(* No location is loaded twice, though documents refer to each other in    *)
(* cycles and several times.                                               *)
LoadedOnce == \A i, j \in DOMAIN fetched : fetched[i] = fetched[j] => i = j

(* Without --allow-remote-refs nothing remote is ever asked for, also when *)
(* the $ref stands in a document reached over other documents.             *)
NoRemoteLoad == ~world.allowRemote => \A i \in DOMAIN fetched : ~IsRemote(fetched[i])

(* A relative $ref of a local document opens the file that lies there seen *)
(* from the document's directory: ResolveURL joins and cleans strings and  *)
(* never looks at the working directory, yet the open file is the right    *)
(* one.                                                                    *)
RelativeRefs(u) == {i \in DOMAIN RefsOf(u) : ~IsRemote(RefsOf(u)[i]) /\ ~RefsOf(u)[i].abs}
LocalDocs == {u \in docs : Readable(u) /\ ~IsRemote(u)}

RelativeToDocument ==
  world.rootDir = NoRoot =>
    \A u \in LocalDocs : \A i \in RelativeRefs(u) :
      File(JoinedRefs(u)[i]).path = Walk(DirOf(File(u).path), RefsOf(u)[i].segs)

(* With a root directory every relative $ref of a local document stays     *)
(* under it, however many ".." it starts with.                             *)
StaysUnderRoot ==
  world.rootDir # NoRoot =>
    \A u \in LocalDocs : \A i \in RelativeRefs(u) :
      IsPrefix(File(world.rootDir).path, File(JoinedRefs(u)[i]).path)

(* The queue drains, whatever cycles the documents form. *)
Termination == <>(status # "running")

=============================================================================
