---------------------------- MODULE MCRendering -----------------------------
(***************************************************************************)
(* Three families of worlds.  Ordering: up to three objects in two         *)
(* packages; each pins itself first, as the built-in templates do, or      *)
(* after something else, and imports any of the others; one may be         *)
(* selected by two layout rules, and a file name may depend on a pin.      *)
(* Naming: packages that are called alike, or like an alias, imported by   *)
(* several objects of one file.  Extra code: two protocols, in one         *)
(* directory or in several, built in or not, switched off or not.          *)
(***************************************************************************)
EXTENDS Rendering, TLC

CONSTANTS a, b, c, p, q, ws, ws1, ws2, main, net, yaml, k, u, x

(* A name is [word, number], number 0 for none; ToGolangName of "yaml.v3"  *)
(* and of "yamlV" is the same word.                                        *)
Name(w, n) == [word |-> w, number |-> n]
MCNumbered(name, i) ==
  Name(IF name.word = "yaml.v" THEN "yamlV" ELSE name.word, 10 * name.number + i)
MCDirName == (p :> Name("p", 0)) @@ (q :> Name("q", 0)) @@ (ws1 :> Name("ws", 0))
             @@ (ws2 :> Name("ws", 2)) @@ (main :> Name("main", 0))
             @@ (k :> Name("kafka", 0)) @@ (u :> Name("u", 0)) @@ (ws :> Name("ws", 0))
MCLastPart == (net :> Name("ws", 0)) @@ (yaml :> Name("yaml.v", 3))
MCIdentifiers == {MCDirName[d] : d \in DOMAIN MCDirName}

Do(f, o) == [do |-> f, of |-> o]
Pin1(o) == Do("pin", o)
Use1(o) == Do("use", o)
File(d, n) == [dir |-> d, name |-> n]
Item(o, f, name, script) == [of |-> o, file |-> f, package |-> None, name |-> name, script |-> script]

NoConfig == [utilDir |-> <<>>, implDir |-> <<>>, ownUtil |-> <<>>, ownImpl |-> <<>>, off |-> TRUE,
             offFor |-> {}, implName |-> <<>>, implPackage |-> <<>>]
Objects(items) == [util |-> <<>>, impl |-> <<>>, config |-> NoConfig, queue |-> items, client |-> <<>>, blank |-> {}]

-----------------------------------------------------------------------------
Fa == File(p, "fa")
Fb == File(q, "fb")
Fc == File(q, "fc")
Queues == {<<<<a, Fa>>, <<b, Fb>>, <<c, Fc>>>>, <<<<c, Fc>>, <<a, Fa>>, <<b, Fc>>>>,
           <<<<a, Fa>>, <<b, Fb>>, <<a, Fc>>>>, <<<<b, Fb>>, <<c, Fa>>>>,
           <<<<a, Fa>>, <<b, Fb>>, <<a, Fa>>>>}

(* Scripts of o, where y and z are the others. *)
Scripts(o, y, z) ==
  {<<Pin1(o)>>, <<Pin1(o), Use1(y)>>, <<Pin1(o), Use1(z)>>, <<Pin1(o), Use1(y), Use1(z)>>,
   <<Use1(y), Pin1(o), Use1(o)>>, <<Do("once", x), Pin1(z), Pin1(o)>>,
   <<Do("once", x), Pin1(u), Pin1(o), Use1(y)>>, <<Use1(u), Pin1(o)>>}

Ordering ==
  {Objects([i \in DOMAIN r |-> Item(r[i][1], r[i][2], n[r[i][1]], s[r[i][1]])]) :
     r \in Queues,
     n \in {(a :> m[1]) @@ (b :> m[2]) @@ (c :> <<>>) :
              m \in {<<<<>>, <<>>>>, <<<<Use1(b)>>, <<>>>>, <<<<Use1(b)>>, <<Use1(a)>>>>,
                     <<<<>>, <<Use1(c), Use1(a)>>>>}},
     s \in {(a :> sa) @@ (b :> sb) @@ (c :> sc) :
              sa \in Scripts(a, b, c), sb \in Scripts(b, c, a), sc \in Scripts(c, a, b)}}

-----------------------------------------------------------------------------
Imports3 == {<<Use1(a)>>, <<Use1(b), Do("ext", net)>>, <<Do("ext", net), Use1(a)>>,
             <<Do("ext", yaml), Use1(a), Use1(b)>>, <<Use1(a), Do("ext", yaml), Do("ext", net)>>}

Naming ==
  {Objects(<<Item(c, Fc, <<>>, <<Pin1(c)>> \o i), Item(a, File(ws, "a"), n, <<Pin1(a)>>),
             Item(b, File(d, "b"), <<>>, <<Pin1(b)>>),
             [Item(u, Fc, <<>>, j) EXCEPT !.package = pk]>>) :
     i \in Imports3, j \in Imports3, d \in {ws1, ws2}, n \in {<<>>, <<Use1(b)>>},
     pk \in {None, Name("other", 0)}}

-----------------------------------------------------------------------------
T(n, s) == [name |-> n, script |-> s]
MCBuiltInUtil == k :> <<T("interfaces", <<Do("ext", net)>>), T("types", <<>>)>>
MCUnknownUtil == <<T("interfaces", <<>>)>>
MCMain == Name("main", 0)
MCManifests == <<[protocol |-> k, name |-> "one", 
                  templates |-> <<T("client", <<Do("util", k), Do("ext", net)>>), T("server", <<Do("impl", k)>>)>>],
                 [protocol |-> k, name |-> "two", templates |-> <<T("types", <<Do("util", k)>>)>>]>>

Both(v, w) == (k :> v) @@ (ws :> w)
Config(utilDir, implDir, own, off, offFor, name, package) ==
  [utilDir |-> utilDir, implDir |-> implDir, ownUtil |-> own, ownImpl |-> <<>>, off |-> off,
   offFor |-> offFor, implName |-> Both(name, None), implPackage |-> Both(package, None)]

Configs ==
  {Config(d[1], d[2], own, o[1], o[2], name, None) :
     d \in {<<Both(k, ws), Both(k, ws)>>, <<Both(u, u), Both(k, ws)>>, <<Both(k, ws1), Both(u, u)>>},
     own \in {<<>>, k :> <<>>, ws :> <<T("interfaces", <<Do("util", ws)>>)>>},
     o \in {<<FALSE, {}>>, <<FALSE, {k}>>, <<TRUE, {}>>}, name \in {None, "two", "three"}}
  \cup {[Config(Both(k, ws), Both(k, ws), <<>>, FALSE, {}, None, Name("own", 0))
           EXCEPT !.ownImpl = ws :> <<T("client", <<Do("util", ws), Do("impl", k)>>)>>]}

Uses == {<<Pin1(a), Do("unlessImpl", k), Do("util", k), Do("util", ws)>>,
         <<Do("ext", net), Do("impl", k), Pin1(a)>>}

App(call) ==
  <<[file |-> File(main, "client"),
     script |-> <<Use1(a), Do("unlessImpl", ws), Do("util", ws), Do("ext", net), call>>],
    [file |-> File(main, "go.mod"), script |-> <<>>]>>

ExtraWorlds ==
  {[util |-> <<k, ws>>, impl |-> i, config |-> g,
    queue |-> <<Item(a, Fa, <<>>, s), Item(b, File(k, "b"), <<>>, <<Pin1(b), Use1(a), Do("util", k)>>)>>,
    client |-> m, blank |-> IF m = <<>> THEN {b} ELSE {}] :
     i \in {<<k>>, <<ws, k>>}, g \in Configs, s \in Uses, m \in {<<>>, App(Use1(b)), App(Do("impl", k))}}

MCWorlds == Ordering \cup Naming \cup ExtraWorlds
=============================================================================
