------------------------------ MODULE Rendering -----------------------------
(***************************************************************************)
(* The rendering stages of cliCode, cmd/go-asyncapi/code.go: util code,    *)
(* implementation code, the objects and the client application, each a     *)
(* series of transactions of the TemplateRenderManager.  One object after  *)
(* the other is rendered (RenderArtifacts, internal/renderer/code.go); one *)
(* whose template needs what is not pinned to a file yet is rolled back    *)
(* and postponed to the next pass.  In the other stages that is an error.  *)
(*                                                                         *)
(* A world is the input of these stages:                                   *)
(*   util, impl   the protocols that need extra code, in order             *)
(*   config       see ExtraCode                                            *)
(*   queue        an item per layout rule and object it selects: [of,      *)
(*                file, package, name, script], with the calls that its    *)
(*                file name expression and its template make               *)
(*   client       the templates of --client-app, [file, script], in order: *)
(*                the source file and go.mod; none without it              *)
(*   blank        what is rendered to a text without any letter, named as  *)
(*                the field of of items and templates names it             *)
(***************************************************************************)
EXTENDS ExtraCode, SequencesExt

CONSTANTS Worlds

(* File name expressions neither pin nor ask for something once, and extra *)
(* code has no objects to pin or to refer to.  A guard is not guarded      *)
(* itself.  Packages that are imported from outside are known, and none of *)
(* them is generated too.                                                  *)
IsScript(script) ==
  /\ script \in Seq(ToSet(script))
  /\ \A call \in ToSet(script) :
       /\ call.do = "ext" => call.of \in DOMAIN LastPart
       /\ call.do \in {"util", "impl", "unlessImpl"} => call.of # None
IsTask(task) == task.file.dir \notin DOMAIN LastPart /\ IsScript(task.script)
AreTasks(tasks) == tasks \in Seq(ToSet(tasks)) /\ \A t \in ToSet(tasks) : IsTask(t)

IsGuard(call) == call.do \in {"once", "unlessImpl"}
IsFlat(script) ==
  \A k \in DOMAIN script : k > 1 /\ IsGuard(script[k]) => ~IsGuard(script[k - 1])
UsesNoObject(task) == \A call \in ToSet(task.script) : call.do \notin {"pin", "use"}

ASSUME RenderingAssumption ==
  \A w \in Worlds :
    /\ AreTasks(w.queue)
    /\ \A i \in ToSet(w.queue) :
         /\ IsScript(i.name) /\ IsFlat(i.name) /\ IsFlat(i.script)
         /\ \A call \in ToSet(i.name) : call.do \notin {"pin", "once"}
         /\ i.of \notin [protocol : ToSet(w.util) \cup ToSet(w.impl) \cup {None}, impl : BOOLEAN]
    /\ w.util \in Seq(ToSet(w.util)) /\ w.impl \in Seq(ToSet(w.impl))
    /\ \A p \in ToSet(w.util) :
         AreTasks(UtilTasks(w.config, p)) /\ \A t \in ToSet(UtilTasks(w.config, p)) : UsesNoObject(t)
    /\ ~w.config.off => \A p \in ToSet(w.impl) :
         AreTasks(ImplTasks(w.config, p)) /\ \A t \in ToSet(ImplTasks(w.config, p)) : UsesNoObject(t)
    /\ AreTasks(ClientTasks(w.client))

VARIABLES
  world,
  stage,      \* "util", "impl", "objects", "client"; "finished", "failed", "not pinned"
  protocols,  \* the protocols left in this stage
  queue,      \* what is left to render of the protocol or pass
  size,       \* length of the queue this pass began with
  postponed,
  mode,       \* "next"; "name" and "body" while a template is executed
  left,       \* the calls it has left to make
  output      \* the names of the files FinishFiles returns

work == <<protocols, queue, size, postponed, mode, left>>
vars == <<world, stage, work, manager, output>>

Init ==
  /\ world \in Worlds
  /\ stage = "util"
  /\ protocols = world.util
  /\ queue = <<>>
  /\ size = 0
  /\ postponed = <<>>
  /\ mode = "next"
  /\ left = <<>>
  /\ output = {}
  /\ InitManager

Items == ToSet(world.queue)

Idle == mode = "next" /\ queue = <<>>

-----------------------------------------------------------------------------
(* Extra code and the client application *)

NextProtocol ==
  /\ stage \in {"util", "impl"} /\ Idle
  /\ protocols # <<>>
  /\ queue' = IF stage = "util" THEN UtilTasks(world.config, Head(protocols))
              ELSE ImplTasks(world.config, Head(protocols))
  /\ protocols' = Tail(protocols)
  /\ UNCHANGED <<world, stage, size, postponed, mode, left, manager, output>>

BeginTemplate ==
  /\ mode = "next" /\ queue # <<>>
  /\ LET t == Head(queue) IN
       /\ \/ /\ stage \in {"util", "impl"}
             /\ BeginExtraFile(t.file, t.package, t.of.protocol, t.of.impl)
          \/ /\ stage = "client"
             /\ BeginFile(t.file, t.package)
       /\ left' = t.script
  /\ mode' = "body"
  /\ UNCHANGED <<world, stage, protocols, queue, size, postponed, output>>

Fail ==
  /\ stage \in {"util", "impl", "client"}
  /\ mode = "body" /\ left # <<>> /\ Fails(Head(left))
  /\ stage' = "failed"
  /\ UNCHANGED <<world, work, manager, output>>

-----------------------------------------------------------------------------
(* Templates *)

(* The file name expression, renderObjectInlineTemplate.  No BeginFile     *)
(* comes before it: it finds what an object that failed has pinned, and    *)
(* its imports go to the file committed last.                              *)
BeginName ==
  /\ stage = "objects"
  /\ mode = "next" /\ queue # <<>>
  /\ mode' = "name"
  /\ left' = Head(queue).name
  /\ UNCHANGED <<world, stage, protocols, queue, size, postponed, manager, output>>

BeginBody ==
  /\ mode = "name" /\ left = <<>>
  /\ BeginFile(Head(queue).file, Head(queue).package)
  /\ mode' = "body"
  /\ left' = Head(queue).script
  /\ UNCHANGED <<world, stage, protocols, queue, size, postponed, output>>

Execute ==
  /\ stage \in {"util", "impl", "objects", "client"}
  /\ mode # "next" /\ left # <<>>
  /\ Call(Head(left))
  /\ left' = Rest(left)
  /\ UNCHANGED <<world, stage, protocols, queue, size, postponed, mode, output>>

CommitFile ==
  /\ mode = "body" /\ left = <<>>
  /\ Commit(Head(queue).of)
  /\ mode' = "next"
  /\ queue' = Tail(queue)
  /\ UNCHANGED <<world, stage, protocols, size, postponed, left, output>>

(* Mutant: an object that cannot be rendered yet is given up. *)
PostponeLost ==
  /\ stage = "objects"
  /\ mode # "next" /\ left # <<>> /\ Fails(Head(left))
  /\ queue' = Tail(queue)
  /\ mode' = "next" /\ left' = <<>>
  /\ UNCHANGED <<world, stage, protocols, size, postponed, manager, output>>

Postpone ==
  /\ stage = "objects"
  /\ mode # "next" /\ left # <<>> /\ Fails(Head(left))
  /\ postponed' = Append(postponed, Head(queue))
  /\ queue' = Tail(queue)
  /\ mode' = "next" /\ left' = <<>>
  /\ UNCHANGED <<world, stage, protocols, size, manager, output>>

-----------------------------------------------------------------------------
(* Passes and stages *)

(* Mutant: the pass is repeated as long as something is postponed. *)
NextPassAlways ==
  /\ stage = "objects" /\ Idle
  /\ postponed # <<>>
  /\ queue' = postponed
  /\ size' = Len(postponed)
  /\ postponed' = <<>>
  /\ UNCHANGED <<world, stage, protocols, mode, left, manager, output>>

NextPass ==
  /\ stage = "objects" /\ Idle
  /\ postponed # <<>> /\ Len(postponed) < size
  /\ queue' = postponed
  /\ size' = Len(postponed)
  /\ postponed' = <<>>
  /\ UNCHANGED <<world, stage, protocols, mode, left, manager, output>>

NotPinned ==
  /\ stage = "objects" /\ Idle
  /\ postponed # <<>> /\ Len(postponed) = size
  /\ stage' = "not pinned"
  /\ UNCHANGED <<world, work, manager, output>>

StartImplementations ==
  /\ stage = "util" /\ Idle /\ protocols = <<>>
  /\ stage' = "impl"
  /\ protocols' = IF world.config.off THEN <<>> ELSE world.impl
  /\ UNCHANGED <<world, queue, size, postponed, mode, left, manager, output>>

StartObjects ==
  /\ stage = "impl" /\ Idle /\ protocols = <<>>
  /\ stage' = "objects"
  /\ queue' = world.queue
  /\ size' = Len(world.queue)
  /\ UNCHANGED <<world, protocols, postponed, mode, left, manager, output>>

StartClient ==
  /\ stage = "objects" /\ Idle /\ postponed = <<>>
  /\ stage' = "client"
  /\ queue' = ClientTasks(world.client)
  /\ UNCHANGED <<world, protocols, size, postponed, mode, left, manager, output>>

(* FinishFiles leaves out the files in whose text there is no letter.      *)
HasLetters(f) == \E t \in ToSet(files[f].text) : t.of \notin world.blank

Finish ==
  /\ stage = "client" /\ Idle
  /\ stage' = "finished"
  /\ output' = {f \in DOMAIN files : HasLetters(f)}
  /\ UNCHANGED <<world, work, manager>>

Next ==
  \/ NextProtocol \/ BeginTemplate \/ Fail
  \/ BeginName \/ BeginBody \/ Execute \/ CommitFile \/ Postpone
  \/ NextPass \/ NotPinned
  \/ StartImplementations \/ StartObjects \/ StartClient \/ Finish

(* One goroutine. *)
Spec == Init /\ [][Next]_vars /\ WF_vars(Next)

-----------------------------------------------------------------------------
(* Properties *)

TextsOf(f) == ToSet(files[f].text)
Texts == UNION {TextsOf(f) : f \in DOMAIN files}
Refs(f) == UNION {t.buffer.refs : t \in TextsOf(f)}

(* A failed attempt leaves no trace.  An artifact is pinned to a file in   *)
(* the committed namespace exactly when text that pins it is in the file;  *)
(* what "once" guards is in the text once, if it was asked for; and, as    *)
(* long as file names import nothing, a file imports what its text names.  *)
PinsMatchText ==
  /\ DOMAIN committed.pins = UNION {t.buffer.pins : t \in Texts}
  /\ \A a \in DOMAIN committed.pins :
       \E t \in TextsOf(committed.pins[a].file) : a \in t.buffer.pins

OnceMatchesText ==
  \A x \in committed.once \cup UNION {t.buffer.once : t \in Texts} :
    \E f \in DOMAIN files : \E k \in DOMAIN files[f].text :
      /\ x \in files[f].text[k].buffer.once
      /\ \A g \in DOMAIN files : \A l \in DOMAIN files[g].text :
           x \in files[g].text[l].buffer.once => <<g, l>> = <<f, k>>

ImportsMatchText ==
  \A f \in DOMAIN files : DOMAIN files[f].imports = {r.path : r \in Refs(f)}

FilesAreConsistent ==
  /\ PinsMatchText
  /\ OnceMatchesText
  /\ (\A i \in Items : i.name = <<>>) => ImportsMatchText

(* A qualified name in the text of a file means the same package at the    *)
(* end as when it was written: one import declares it, that of a directory *)
(* where what it refers to has been rendered, and its alias or else the    *)
(* name of the package there is the name in the text.                      *)
PackagesOf(dir) == {files[f].package : f \in {g \in DOMAIN files : g.dir = dir}}

Target(r) ==
  CASE r.call.do = "use" -> r.path = committed.pins[r.call.of].file.dir
    [] r.call.do = "ext" -> r.path = r.call.of
    [] OTHER -> \E f \in DOMAIN files : \E t \in TextsOf(f) :
         f.dir = r.path /\ t.of = [protocol |-> r.call.of, impl |-> r.call.do = "impl"]

NamesResolve ==
  \A f \in DOMAIN files :
    LET imports == files[f].imports IN
    /\ NamesDistinct(imports)
    /\ \A r \in Refs(f) :
         /\ r.path \in DOMAIN imports
         /\ Target(r)
         /\ (r.call.do # "ext" => Cardinality(PackagesOf(r.path)) = 1) =>
              /\ imports[r.path].name = r.name
              /\ r.call.do # "ext" => imports[r.path].package \in PackagesOf(r.path)

-----------------------------------------------------------------------------
Calls(script) == ToSet(script)

(* The extra code files of a configuration: none is written for two        *)
(* protocols, or with util and with implementation code.                   *)
ExtraCode(impl) == (IF impl THEN ToSet(world.impl) ELSE ToSet(world.util)) \X {impl}
AllCode == ExtraCode(FALSE) \cup ExtraCode(TRUE)
ExtraTasks(c) ==
  IF ~c[2] THEN UtilTasks(world.config, c[1])
  ELSE IF world.config.off THEN <<>> ELSE ImplTasks(world.config, c[1])
TaskFiles(c) == {t.file : t \in ToSet(ExtraTasks(c))}
Apart == \A c, d \in AllCode : c # d => TaskFiles(c) \cap TaskFiles(d) = {}

Provides(p, impl) == <<p, impl>> \in AllCode /\ ExtraTasks(<<p, impl>>) # <<>>

(* What "once" guards is the same wherever it is asked for.                *)
Guarded(script, k) == {script[j] : j \in {k + 1} \cap DOMAIN script}
AllScripts ==
  {i.script : i \in Items} \cup {t.script : t \in UNION {ToSet(ExtraTasks(c)) : c \in AllCode}}
OnceAgrees ==
  \A s, t \in AllScripts : \A k \in DOMAIN s, l \in DOMAIN t :
    s[k].do = "once" /\ t[l].do = "once" /\ s[k].of = t[l].of => Guarded(s, k) = Guarded(t, l)

(* The call is left out because there is implementation code.              *)
Skipped(script, k) ==
  k > 1 /\ script[k - 1].do = "unlessImpl" /\ Provides(script[k - 1].of, TRUE)

PinsBefore(script, k) ==
  {script[j].of : j \in {j \in 1 .. k - 1 : script[j].do = "pin" /\ ~Skipped(script, j)}}
Pins(script) == PinsBefore(script, Len(script) + 1)
PinnedBy(S)  == UNION {Pins(i.script) : i \in S}

(* A call finds what it needs once these artifacts are pinned.             *)
Met(call, pinned) ==
  /\ call.do = "use" => call.of \in pinned
  /\ call.do = "util" => Provides(call.of, FALSE)
  /\ call.do = "impl" => Provides(call.of, TRUE)

Runs(script, pinned) ==
  \A k \in DOMAIN script : Skipped(script, k) \/ Met(script[k], pinned \cup PinsBefore(script, k))

(* An item that can be rendered once the items in S are.  Without names,   *)
(* its file name expression is not looked at.                              *)
Ready(item, S, names) ==
  /\ names => Runs(item.name, PinnedBy(S))
  /\ Runs(item.script, PinnedBy(S))

(* More rendered items never make another one fail, so some order of the   *)
(* queue renders all of them when no set of items is a dead end.           *)
DeadEnd(S, names) == S # Items /\ \A i \in Items \ S : ~Ready(i, S, names)
Renderable(names) == ~ \E S \in SUBSET Items : DeadEnd(S, names)

(* Extra code that is like the built-in one: util code needs nothing,      *)
(* implementation code the util code, and the client application what the  *)
(* objects are.                                                            *)
ExtraCodeIsClosed ==
  /\ \A t \in UNION {ToSet(ExtraTasks(c)) : c \in ExtraCode(FALSE)} :
       \A call \in Calls(t.script) : call.do \in {"ext", "once"}
  /\ \A t \in UNION {ToSet(ExtraTasks(c)) : c \in ExtraCode(TRUE)} :
       \A call \in Calls(t.script) : call.do \in {"ext", "once", "util"} /\ Met(call, {})
  /\ \A t \in ToSet(world.client) : \A call \in Calls(t.script) : Met(call, PinnedBy(Items))

(* Rendering succeeds when some order of the queue does, though it tries   *)
(* one order only and gives up after a pass without progress, and every    *)
(* object with a text is then in its file, as often as the queue has it    *)
(* there.  It succeeds only when some order does, except that a file name may be      *)
(* rendered with the pin of an object that was rolled back.  Extra code    *)
(* that needs no other does not fail.                                      *)
Written(f, o) == {k \in DOMAIN files[f].text : files[f].text[k].of = o}
Asked(f, o)   == {k \in DOMAIN world.queue : world.queue[k].file = f /\ world.queue[k].of = o}

SucceedsWhenPossible ==
  Apart /\ OnceAgrees =>
    /\ stage = "failed" => ~ExtraCodeIsClosed
    /\ stage = "not pinned" => ~Renderable(TRUE)
    /\ stage = "finished" =>
         /\ Renderable(FALSE)
         /\ \A i \in Items : i.of \notin world.blank => i.file \in output
         /\ \A f \in output, i \in Items :
              Cardinality(Written(f, i.of)) = Cardinality(Asked(f, i.of))

(* The passes and stages come to an end. *)
Termination == <>(stage \in {"finished", "failed", "not pinned"})

=============================================================================
