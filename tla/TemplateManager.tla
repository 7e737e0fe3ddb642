--------------------------- MODULE TemplateManager --------------------------
(***************************************************************************)
(* TemplateRenderManager of internal/tmpl/manager/manager.go and the       *)
(* template functions of internal/tmpl/functions.go that change its state. *)
(* A file is a record [dir, name].  A template is the sequence of the      *)
(* calls it makes, records [do, of]; each is one step here:                *)
(*   pin a           pin, goDef                                            *)
(*   use a           goPkg, goUsage of an artifact that is pinnable        *)
(*   util p, impl p  goPkgUtil, goPkgImpl of a protocol                    *)
(*   ext path        goPkgExt, goPkgRun                                    *)
(*   once x          the next call is made by the first to ask only        *)
(*   unlessImpl p    the next call is made if protocol p has no            *)
(*                   implementation code ({{if not (impl p)}})             *)
(***************************************************************************)
EXTENDS Imports, Sequences

CONSTANTS
  DirName,    \* GetPackageName of each directory
  LastPart,   \* the last part of each external import path
  Root,       \* the directory ".", path.Dir of no file name
  None

VARIABLES
  files,      \* stateCommitted
  committed,  \* namespaceCommitted: [pins, once]
  current,    \* the uncommitted state: [file, package, protocol, impl, imports,
              \*   namespace, buffer]; file is None after a commit
  shared      \* the file whose committed imports and the current ones are one
              \* ImportsManager, or None

manager == <<files, committed, current, shared>>

(* The text of one template: the packages it names, [call, path, name], and  *)
(* what it pins and has been the first to ask for.                         *)
NoText == [refs |-> {}, pins |-> {}, once |-> {}]

InitManager ==
  /\ files = [f \in {} |-> None]
  /\ committed = [pins |-> [a \in {} |-> None], once |-> {}]
  /\ current = [file |-> None, package |-> None, protocol |-> None, impl |-> FALSE,
                imports |-> NoImports, namespace |-> committed, buffer |-> NoText]
  /\ shared = None

(* The state of a file; its package stays that of the first attempt.       *)
StateOf(file, package) ==
  IF file \in DOMAIN files THEN files[file]
  ELSE [package |-> IF package # None THEN package ELSE DirName[file.dir],
        protocol |-> None, impl |-> FALSE, imports |-> NoImports, text |-> <<>>]

WithFile(file, state) ==
  [f \in DOMAIN files \cup {file} |-> IF f = file THEN state ELSE files[f]]

(* Mutant: what the last attempt left in the namespace is kept. *)
LoadedDirty(file, package) ==
  LET s == StateOf(file, package)
  IN  [file |-> file, package |-> s.package, protocol |-> s.protocol, impl |-> s.impl,
       imports |-> s.imports, namespace |-> current.namespace, buffer |-> NoText]

Loaded(file, package) ==
  LET s == StateOf(file, package)
  IN  [file |-> file, package |-> s.package, protocol |-> s.protocol, impl |-> s.impl,
       imports |-> s.imports, namespace |-> committed, buffer |-> NoText]

(* BeginFile for an object, and for a template of extra code, which marks  *)
(* the file with its protocol and as implementation code.                  *)
BeginFile(file, package) ==
  /\ files' = WithFile(file, StateOf(file, package))
  /\ current' = Loaded(file, package)
  /\ shared' = None
  /\ UNCHANGED committed

BeginExtraFile(file, package, protocol, impl) ==
  /\ files' = WithFile(file, StateOf(file, package))
  /\ current' = [Loaded(file, package) EXCEPT !.protocol = protocol, !.impl = @ \/ impl]
  /\ shared' = None
  /\ UNCHANGED committed

Commit(of) ==
  /\ committed' = current.namespace
  /\ LET text == Append(files[current.file].text, [of |-> of, buffer |-> current.buffer]) IN
       files' = [files EXCEPT ![current.file] =
                   [@ EXCEPT !.protocol = current.protocol, !.impl = current.impl,
                             !.imports = current.imports, !.text = text]]
  /\ current' = [current EXCEPT !.file = None]
  /\ shared' = current.file

-----------------------------------------------------------------------------
(* Template functions *)

CurrentDir == IF current.file = None THEN Root ELSE current.file.dir

(* DeclareArtifact: an artifact stays in the file it was pinned to first. *)
Pin(a) ==
  /\ current' = [current EXCEPT
       !.namespace.pins =
         [x \in DOMAIN @ \cup {a} |->
            IF x \in DOMAIN @ THEN @[x] ELSE [file |-> current.file, package |-> current.package]],
       !.buffer.pins = @ \cup {a}]
  /\ UNCHANGED <<files, committed, shared>>

(* A package of another directory is imported, into the committed imports  *)
(* as well when no file has been begun since.                              *)
Import(op, path, name) ==
  /\ current' = [current EXCEPT
       !.imports = AddImport(@, path, name),
       !.buffer.refs =
         @ \cup {[call |-> op, path |-> path, name |-> Imported(current.imports, path, name)]}]
  /\ files' = IF shared = None THEN files
              ELSE [files EXCEPT ![shared].imports = AddImport(current.imports, path, name)]
  /\ UNCHANGED <<committed, shared>>

ImportDir(op, dir, name) ==
  IF dir = CurrentDir THEN UNCHANGED manager ELSE Import(op, dir, name)

IsPinned(a) == a \in DOMAIN current.namespace.pins

Use(op) ==
  LET d == current.namespace.pins[op.of] IN ImportDir(op, d.file.dir, d.package)

(* The committed files with extra code of a protocol.  The code takes the  *)
(* first by name, "assuming" that all of them lie together.                *)
ExtraFiles(protocol, impl) ==
  {f \in DOMAIN files : files[f].protocol = protocol /\ files[f].impl = impl}

UseExtra(op, impl) ==
  \E f \in ExtraFiles(op.of, impl) : ImportDir(op, f.dir, files[f].package)

(* A package is called like the last part of its path. *)
ImportName(path) == LastPart[path]

UseExternal(op) == Import(op, op.of, ImportName(op.of))

(* templateOnce *)
IsFirst(x) == x \notin current.namespace.once

Once(x) ==
  /\ current' = [current EXCEPT !.namespace.once = @ \cup {x},
                                !.buffer.once = IF IsFirst(x) THEN @ \cup {x} ELSE @]
  /\ UNCHANGED <<files, committed, shared>>

(* A call that fails with ErrNotPinned. *)
Fails(op) ==
  \/ op.do = "use" /\ ~IsPinned(op.of)
  \/ op.do = "util" /\ ExtraFiles(op.of, FALSE) = {}
  \/ op.do = "impl" /\ ExtraFiles(op.of, TRUE) = {}

(* The calls that are left after the first one of a template. *)
Rest(ops) ==
  LET skip == \/ Head(ops).do = "once" /\ ~IsFirst(Head(ops).of)
              \/ Head(ops).do = "unlessImpl" /\ ExtraFiles(Head(ops).of, TRUE) # {}
  IN  IF skip /\ Len(ops) > 1 THEN Tail(Tail(ops)) ELSE Tail(ops)

Call(op) ==
  /\ ~Fails(op)
  /\ \/ op.do = "pin" /\ Pin(op.of)
     \/ op.do = "use" /\ Use(op)
     \/ op.do = "util" /\ UseExtra(op, FALSE)
     \/ op.do = "impl" /\ UseExtra(op, TRUE)
     \/ op.do = "ext" /\ UseExternal(op)
     \/ op.do = "once" /\ Once(op.of)
     \/ op.do = "unlessImpl" /\ UNCHANGED manager
=============================================================================
