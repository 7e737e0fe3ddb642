------------------------------- MODULE Imports ------------------------------
(***************************************************************************)
(* ImportsManager of internal/tmpl/manager/import.go: the imports of one   *)
(* generated file, a function from import paths to items [package, name,   *)
(* aliased], where name is what the import declares: its alias or else the *)
(* name of the package.  Names are values the model does not look into,    *)
(* except that some are Go identifiers and that a name can be made of      *)
(* another one and a number.                                               *)
(***************************************************************************)
EXTENDS Naturals, FiniteSets

CONSTANTS
  Identifiers,    \* the names that are Go identifiers (token.IsIdentifier)
  Numbered(_, _)  \* ToGolangName of a name, followed by a number

NoImports == [p \in {} |-> {}]

SameName(imports, name) == {p \in DOMAIN imports : imports[p].package = name}

(* Mutant: the package name is used as it is. *)
NewItemNotNumbered(imports, name) == [package |-> name, name |-> name, aliased |-> FALSE]

(* An import whose package name is taken, or is no identifier, gets an     *)
(* alias numbered by the imports that have the same package name.          *)
NewItem(imports, name) ==
  LET aliased == SameName(imports, name) # {} \/ name \notin Identifiers
  IN  [package |-> name,
       name |-> IF aliased THEN Numbered(name, Cardinality(SameName(imports, name)) + 1) ELSE name,
       aliased |-> aliased]

(* A path that is imported keeps its item. *)
AddImport(imports, path, name) ==
  [p \in DOMAIN imports \cup {path} |->
     IF p \in DOMAIN imports THEN imports[p] ELSE NewItem(imports, name)]

(* What AddImport returns: the alias, or else the name it was given. *)
Imported(imports, path, name) ==
  LET item == AddImport(imports, path, name)[path] IN IF item.aliased THEN item.name ELSE name

-----------------------------------------------------------------------------
Packages(imports) == {imports[p].package : p \in DOMAIN imports}

(* No name in the set looks like an alias of one, nor do the aliases of    *)
(* two names look alike: "template2" and "template", "a-b" and "a.b".      *)
Plain(names, last) ==
  \A n, m \in names, i, j \in 1 .. last :
    /\ Numbered(n, i) \notin names
    /\ Numbered(n, i) = Numbered(m, j) => n = m /\ i = j

(* No two imports of a file declare one name, unless their packages are    *)
(* called like aliases.                                                    *)
NamesDistinct(imports) ==
  Plain(Packages(imports), Cardinality(DOMAIN imports)) =>
    \A p, q \in DOMAIN imports : imports[p].name = imports[q].name => p = q
=============================================================================
