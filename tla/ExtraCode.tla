------------------------------ MODULE ExtraCode -----------------------------
(***************************************************************************)
(* The choice of extra code templates in internal/renderer/extra.go: util  *)
(* code for every protocol in the document, implementation code for those  *)
(* of the active servers.  A template is [name, script]; a configuration   *)
(* (code.util and code.implementation of the tool's configuration file):   *)
(*   utilDir, implDir         the directory expression, per protocol       *)
(*   ownUtil, ownImpl         protocols with a templateDirectory, to the   *)
(*                            templates in it                              *)
(*   off, offFor              implementation code disabled, for all or for *)
(*                            a set of protocols                           *)
(*   implName, implPackage    per protocol, None if not given              *)
(***************************************************************************)
EXTENDS TemplateManager

CONSTANTS
  BuiltInUtil,  \* protocols with a util directory, to their templates
  UnknownUtil,  \* templates of the fallback directory
  Manifests,    \* manifests.yaml: a sequence of [protocol, name, templates]
  Main          \* the name "main"

(* getUtilSourceDir *)
UtilSource(protocol) ==
  IF protocol \in DOMAIN BuiltInUtil THEN BuiltInUtil[protocol] ELSE UnknownUtil

UtilTemplates(config, protocol) ==
  IF protocol \in DOMAIN config.ownUtil THEN config.ownUtil[protocol] ELSE UtilSource(protocol)

Matching(config, protocol) ==
  {i \in DOMAIN Manifests :
     /\ Manifests[i].protocol = protocol
     /\ config.implName[protocol] \in {None, Manifests[i].name}}

ImplTemplates(config, protocol) ==
  IF protocol \in config.offFor THEN <<>>
  ELSE IF protocol \in DOMAIN config.ownImpl THEN config.ownImpl[protocol]
  ELSE IF Matching(config, protocol) = {} THEN <<>>
  ELSE Manifests[CHOOSE i \in Matching(config, protocol) :
                   \A j \in Matching(config, protocol) : i <= j].templates

(* renderCodeExtraTemplates: a file per template. *)
Tasks(templates, protocol, dir, package, impl) ==
  [i \in DOMAIN templates |->
     [of |-> [protocol |-> protocol, impl |-> impl], package |-> package,
      file |-> [dir |-> dir, name |-> templates[i].name], script |-> templates[i].script]]

(* GetPackageName of the directory, when no package is configured. *)
PackageFor(dir, package) == IF package # None THEN package ELSE DirName[dir]

UtilTasks(config, protocol) ==
  Tasks(UtilTemplates(config, protocol), protocol, config.utilDir[protocol],
        PackageFor(config.utilDir[protocol], None), FALSE)

ImplTasks(config, protocol) ==
  Tasks(ImplTemplates(config, protocol), protocol, config.implDir[protocol],
        PackageFor(config.implDir[protocol], config.implPackage[protocol]), TRUE)

(* RenderClientApp: the source file and go.mod, both of package main. *)
ClientTasks(app) ==
  [i \in DOMAIN app |->
     [of |-> [protocol |-> None, impl |-> FALSE], package |-> Main, file |-> app[i].file,
      script |-> app[i].script]]
=============================================================================
