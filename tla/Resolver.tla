------------------------------ MODULE Resolver ------------------------------
(***************************************************************************)
(* kclvm/sema: how Resolver::check walks a loaded program.  check(pkg)     *)
(* first checks the packages that pkg imports (init_import_list, depth     *)
(* first), then builds the schema types of pkg in a fixed number of scans  *)
(* (init_global_types), then checks its statements.  One dependency graph  *)
(* of packages and schemas is kept to report circular references.          *)
(*                                                                         *)
(* A schema type is a copy of what was known when it was built.  Here it   *)
(* is the set of schemas whose own attributes can be found through it:     *)
(* attrs[s] for those in its attribute map (its own and its mixins') and   *)
(* view[s] for all that get_obj_of_attr finds through the bases.           *)
(***************************************************************************)
EXTENDS Integers, Sequences, FiniteSets

CONSTANTS Pkgs,        \* packages that are imported somewhere, and MAIN_PKG
          MAIN_PKG,
          Loaded,      \* the packages in program.pkgs
          Modules,     \* system and plugin modules
          Schemas,
          Mixins,      \* the schemas declared as mixins
          Decls,       \* the schemas of every package in the order of declaration
          NoSchema,
          Programs     \* the choices of imports, parents and mixins

ASSUME PkgAssumption ==
    MAIN_PKG \in Loaded /\ Loaded \subseteq Pkgs /\ Modules \cap Pkgs = {}
ASSUME SchemaAssumption ==
    NoSchema \notin Schemas /\ Schemas \cap Pkgs = {} /\ Mixins \subseteq Schemas
ASSUME DeclAssumption == Decls \in [Pkgs -> Seq(Schemas)]
ASSUME ProgramAssumption ==
    Programs \subseteq [imports : [Pkgs -> Seq(Pkgs \cup Modules)],
                        parent : [Schemas -> Schemas \cup {NoSchema}],
                        mixins : [Schemas -> SUBSET Schemas]]

MAX_SCOPE_SCAN_COUNT == 3

VARIABLES
    program,
    scope_map,     \* packages that have a scope
    stack,         \* the calls of check, innermost last
    declared,      \* schemas with a symbol in their package's scope
    attrs, view,   \* the schema types
    dep_graph,     \* edges between packages and between schemas
    circular,      \* the edges for which a circular reference was reported
    illegal,       \* schemas whose parent or mixin was not found
    checked        \* how often the statements of each package were checked

vars == <<program, scope_map, stack, declared, attrs, view, dep_graph, circular,
          illegal, checked>>

Frame(p) == [pkg |-> p, phase |-> "import", i |-> 1, scan |-> 1]

Init ==
    /\ program \in Programs
    /\ scope_map = {MAIN_PKG}
    /\ stack = <<Frame(MAIN_PKG)>>
    /\ declared = {}
    /\ attrs = [s \in Schemas |-> {}]
    /\ view = [s \in Schemas |-> {}]
    /\ dep_graph = {}
    /\ circular = {}
    /\ illegal = {}
    /\ checked = [p \in Pkgs |-> 0]

Top == stack[Len(stack)]
At(phase) == stack # <<>> /\ Top.phase = phase
\* The innermost call moved on, and the step that only does that.
Advance(phase, i, scan) ==
    [stack EXCEPT ![Len(stack)] = [pkg |-> Top.pkg, phase |-> phase, i |-> i, scan |-> scan]]
Goto(phase, i, scan) == stack' = Advance(phase, i, scan)

\* is_cyclic: some nodes each have a successor among them.
IsCyclic(edges) ==
    LET nodes == {e[1] : e \in edges} IN
    \E S \in SUBSET nodes : S # {} /\ \A n \in S : \E m \in S : <<n, m>> \in edges

AddDependencyChecksBefore(from, to) ==
    /\ dep_graph' = dep_graph \cup {<<from, to>>}
    /\ circular' = IF IsCyclic(dep_graph) THEN circular \cup {<<from, to>>} ELSE circular
\* add_dependencies, then the report if there is a cycle anywhere.
AddDependency(from, to) ==
    /\ dep_graph' = dep_graph \cup {<<from, to>>}
    /\ circular' = IF IsCyclic(dep_graph') THEN circular \cup {<<from, to>>} ELSE circular

----------------------------------------------------------------------------
(* init_import_list. *)

\* A package that was not loaded has no files and so no imports.
Imports(p) == IF p \in Loaded THEN program.imports[p] ELSE <<>>

ImportModule ==
    /\ At("import")
    /\ Top.i <= Len(Imports(Top.pkg))
    /\ Imports(Top.pkg)[Top.i] \in Modules
    /\ Goto("import", Top.i + 1, 1)
    /\ UNCHANGED <<program, scope_map, declared, attrs, view, dep_graph, circular,
                   illegal, checked>>

ImportUserUnlessChecked ==
    /\ At("import")
    /\ Top.i <= Len(Imports(Top.pkg))
    /\ LET q == Imports(Top.pkg)[Top.i] IN
       /\ q \in Pkgs
       /\ AddDependency(Top.pkg, q)
       /\ scope_map' = scope_map \cup {q}
       /\ IF checked[q] > 0 THEN Goto("import", Top.i + 1, 1)
          ELSE /\ Len(stack) < 5
               /\ stack' = Append(Advance("import", Top.i + 1, 1), Frame(q))
    /\ UNCHANGED <<program, declared, attrs, view, illegal, checked>>
\* The imported package is checked now unless it already has a scope.
ImportUser ==
    /\ At("import")
    /\ Top.i <= Len(Imports(Top.pkg))
    /\ LET q == Imports(Top.pkg)[Top.i] IN
       /\ q \in Pkgs
       /\ AddDependency(Top.pkg, q)
       /\ scope_map' = scope_map \cup {q}
       /\ IF q \in scope_map THEN Goto("import", Top.i + 1, 1)
          ELSE stack' = Append(Advance("import", Top.i + 1, 1), Frame(q))
    /\ UNCHANGED <<program, declared, attrs, view, illegal, checked>>

----------------------------------------------------------------------------
(* init_global_types. *)

DeclsOf(p) == IF p \in Loaded THEN Decls[p] ELSE <<>>
Declares(p) == {DeclsOf(p)[i] : i \in 1..Len(DeclsOf(p))}

ScanSymbolsEarly ==
    /\ At("import")
    /\ declared' = declared \cup Declares(Top.pkg)
    /\ Goto("build", 1, 1)
    /\ UNCHANGED <<program, scope_map, attrs, view, dep_graph, circular, illegal, checked>>
\* Step 1: a symbol with an empty type for every schema of the package.
ScanSymbols ==
    /\ At("import")
    /\ Top.i > Len(Imports(Top.pkg))
    /\ declared' = declared \cup Declares(Top.pkg)
    /\ Goto("build", 1, 1)
    /\ UNCHANGED <<program, scope_map, attrs, view, dep_graph, circular, illegal, checked>>

\* walk_identifier finds a schema of the same package, or of an imported one,
\* once it has a symbol.
Visible(p, s) ==
    /\ s \in declared
    /\ \/ s \in Declares(p)
       \/ \E i \in 1..Len(Imports(p)) :
             Imports(p)[i] \in Pkgs /\ s \in Declares(Imports(p)[i])

\* build_schema_parent_type: a parent that is found and is not a mixin.
ParentType(p, s) == {u \in {program.parent[s]} \ Mixins : Visible(p, u)}
\* build_schema_type: the mixins that are found and are mixins.
MixinTypes(p, s) == {u \in program.mixins[s] \cap Mixins : Visible(p, u)}

\* On the last scan the inheritance goes into the dependency graph.
AddInheritance(s, base) ==
    IF Top.scan = MAX_SCOPE_SCAN_COUNT /\ base # {}
    THEN AddDependency(s, program.parent[s])
    ELSE UNCHANGED <<dep_graph, circular>>

\* The type of one declaration, from those its parent and mixins have now.
BuildSchema ==
    /\ At("build")
    /\ Top.scan <= MAX_SCOPE_SCAN_COUNT
    /\ Top.i <= Len(DeclsOf(Top.pkg))
    /\ LET s == DeclsOf(Top.pkg)[Top.i]
           base == ParentType(Top.pkg, s)
           mixin == MixinTypes(Top.pkg, s)
           own == {s} \cup UNION {attrs[u] : u \in mixin}
           missing == (program.parent[s] # NoSchema /\ base = {}) \/ mixin # program.mixins[s]
       IN  /\ attrs' = [attrs EXCEPT ![s] = own]
           /\ view' = [view EXCEPT ![s] = own \cup UNION {view[u] : u \in base}]
           /\ illegal' = IF missing THEN illegal \cup {s} ELSE illegal
           /\ AddInheritance(s, base)
    /\ Goto("build", Top.i + 1, Top.scan)
    /\ UNCHANGED <<program, scope_map, declared, checked>>

NextScanSkipsOne ==
    /\ At("build")
    /\ Top.scan <= MAX_SCOPE_SCAN_COUNT
    /\ Top.i > Len(DeclsOf(Top.pkg))
    /\ Goto("build", 1, Top.scan + 2)
    /\ UNCHANGED <<program, scope_map, declared, attrs, view, dep_graph, circular,
                   illegal, checked>>
\* Every declaration once more, up to the last scan.
NextScan ==
    /\ At("build")
    /\ Top.scan <= MAX_SCOPE_SCAN_COUNT
    /\ Top.i > Len(DeclsOf(Top.pkg))
    /\ Goto("build", 1, Top.scan + 1)
    /\ UNCHANGED <<program, scope_map, declared, attrs, view, dep_graph, circular,
                   illegal, checked>>

\* The statements of the package, and back to the caller's import list.
CheckStatements ==
    /\ At("build")
    /\ Top.scan > MAX_SCOPE_SCAN_COUNT
    /\ checked' = [checked EXCEPT ![Top.pkg] = @ + 1]
    /\ stack' = SubSeq(stack, 1, Len(stack) - 1)
    /\ UNCHANGED <<program, scope_map, declared, attrs, view, dep_graph, circular, illegal>>

Next == ImportModule \/ ImportUser \/ ScanSymbols \/ BuildSchema \/ NextScan \/ CheckStatements

Spec == Init /\ [][Next]_vars
\* resolve_program is one sequential call: it keeps going.
FairSpec == Spec /\ WF_vars(Next)

----------------------------------------------------------------------------
(* Properties. *)

Done == stack = <<>>

Imported(p) == {Imports(p)[i] : i \in 1..Len(Imports(p))} \cap Pkgs

\* The packages reachable from the main package.
Reached ==
    {p \in Pkgs : \A S \in SUBSET Pkgs :
        MAIN_PKG \in S /\ (\A q \in S : Imported(q) \subseteq S) => p \in S}

ImportEdges == {e \in Reached \X Pkgs : e[2] \in Imported(e[1])}
InheritEdges ==
    {e \in Schemas \X Schemas :
        e[2] = program.parent[e[1]] /\ \E p \in Reached \cap Loaded : e[1] \in Declares(p)}

\* However packages import each other, each reachable one is checked exactly once.
ChecksEachOnce ==
    /\ \A p \in Pkgs : checked[p] <= 1
    /\ Done => \A p \in Pkgs : checked[p] = (IF p \in Reached THEN 1 ELSE 0)

\* A package's schemas are built after those of everything it imports, unless
\* the imports are circular.
ImportsFirst ==
    ~IsCyclic(ImportEdges) =>
       \A n \in 1..Len(stack) : stack[n].phase = "build" =>
          \A q \in Imported(stack[n].pkg) : checked[q] = 1

\* Packages are checked once each, in an order that has imports before users.
PackagesInOrder == ChecksEachOnce /\ ImportsFirst

\* A circular reference is reported if and only if there is one, among imports
\* or among parents.
ReportsCycles ==
    Done /\ (IsCyclic(ImportEdges) \/ illegal = {}) =>
       (circular # {} <=> IsCyclic(ImportEdges) \/ IsCyclic(InheritEdges))

\* The schemas whose attributes s has: itself, its mixins, and those of its parents.
Closed(S) ==
    \A s \in S : /\ program.parent[s] # NoSchema => program.parent[s] \in S
                 /\ program.mixins[s] \subseteq S
Ancestry(s) == {t \in Schemas : \A S \in SUBSET Schemas : s \in S /\ Closed(S) => t \in S}

\* "Because the schema allows backward references, we scan multiple times": in
\* the end every schema type gives access to all that the schema inherits.
SeesAllAncestors ==
    Done /\ circular = {} /\ illegal = {} =>
       \A p \in Reached \cap Loaded : \A s \in Declares(p) : view[s] = Ancestry(s)

\* Which programs the scans complete: the parent and mixins of a schema in its
\* own package, r the scan after which each type is complete.
Parts(s) == ({program.parent[s]} \cup program.mixins[s]) \ {NoSchema}
CompleteAfter(r) ==
    \A p \in Reached \cap Loaded : \A i, j \in 1..Len(Decls[p]) :
       LET s == Decls[p][i]
           u == Decls[p][j]
       IN  u \in Parts(s) => r[u] < r[s] \/ (r[u] = r[s] /\ j < i)

\* No chain of parents and mixins runs against the order of the declarations
\* more often than there are further scans.
Scannable == \E r \in [Schemas -> 1..MAX_SCOPE_SCAN_COUNT] : CompleteAfter(r)

\* A schema copies the attribute map of a mixin, which has nothing of a base.
PlainMixins == \A s \in Mixins : program.parent[s] = NoSchema

\* Every schema has one declaration.
DeclaredOnce ==
    \A p, q \in Loaded : \A i \in 1..Len(Decls[p]), j \in 1..Len(Decls[q]) :
       Decls[p][i] = Decls[q][j] => p = q /\ i = j

\* The number of scans is enough for the scannable programs, and without mixins
\* for no others.
ScansDecide ==
    LET complete == \A p \in Reached \cap Loaded : \A s \in Declares(p) : view[s] = Ancestry(s)
    IN  Done /\ circular = {} /\ illegal = {} =>
           /\ Scannable /\ PlainMixins => complete
           /\ complete /\ (\A s \in Schemas : program.mixins[s] = {}) => Scannable

\* check returns whatever the imports look like.
Terminates == <>Done
=============================================================================
