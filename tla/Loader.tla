------------------------------- MODULE Loader -------------------------------
(***************************************************************************)
(* kclvm/parser: Loader::_load_main and the mutual recursion of            *)
(* load_import_package and load_package, which follows the imports of the  *)
(* main package depth first and fills the map `pkgs`.  The recursion is an *)
(* explicit stack with a frame per call of load_import_package.            *)
(*                                                                         *)
(* A package path a.b.c is the sequence <<"a", "b", "c">>.  Every module   *)
(* (the program itself, MAIN_PKG, and each external package) is named, and *)
(* its name stands for its root directory.  A directory is a pair of a     *)
(* module and the path below its root.  The imports of a package are those *)
(* of all its files, in order, after fix_import_path.                      *)
(***************************************************************************)
EXTENDS Integers, Sequences, FiniteSets

CONSTANTS MAIN_PKG,
          Names,         \* the names that paths are made of
          Dirs,          \* directories with .k files
          EmptyDirs,     \* directories without
          PackageMaps,   \* external modules in opts.package_maps, with a kcl.mod
          Vendored,      \* external modules in a vendor directory, with a kcl.mod
          Unreadable,    \* directories with a file that cannot be read
          Builtins,      \* paths of system modules
          Plugins,       \* paths of plugin modules
          LoadPackages, LoadPlugins,   \* opts.load_packages, opts.load_plugins
          Programs       \* the programs: the list of imports of every directory

ASSUME ModuleAssumption ==
    /\ MAIN_PKG \notin PackageMaps \cup Vendored
    /\ MAIN_PKG \in Names /\ PackageMaps \cup Vendored \subseteq Names
    /\ \A d \in Dirs \cup EmptyDirs :
          d \in ({MAIN_PKG} \cup PackageMaps \cup Vendored) \X Seq(Names)
    /\ Dirs \cap EmptyDirs = {}
    /\ <<MAIN_PKG, <<>>>> \in Dirs
    \* __main__ is the compiler's own name: no directory of the program has it.
    /\ <<MAIN_PKG, <<MAIN_PKG>>>> \notin Dirs
    /\ Unreadable \subseteq Dirs \ {<<MAIN_PKG, <<>>>>}
ASSUME ProgramAssumption ==
    \A f \in Programs :
       DOMAIN f = Dirs /\ \A d \in Dirs : f[d] \in Seq(Seq(Names) \ {<<>>})
ASSUME OptionAssumption == LoadPackages \in BOOLEAN /\ LoadPlugins \in BOOLEAN

\* The key of a directory in `pkgs`, as it should be.
Key(d) ==
    IF d = <<MAIN_PKG, <<>>>> THEN <<MAIN_PKG>>
    ELSE IF d[1] = MAIN_PKG THEN d[2] ELSE <<d[1]>> \o d[2]

Keys == {Key(d) : d \in Dirs}

VARIABLES
    imports,      \* the program: the import list of every directory
    pkgs,         \* key -> "empty" (being loaded) or "full"
    missing_pkgs,
    stack,        \* the calls of load_import_package, innermost last
    bound,        \* bound[key][i]: the path left in the i-th import statement
    parses,       \* how often each package's files were parsed
    errors,       \* the imports for which a diagnostic was added
    result        \* "loading", "ok" or "err"

vars == <<imports, pkgs, missing_pkgs, stack, bound, parses, errors, result>>

Frame(d) == [dir |-> d, name |-> d[1], key |-> Key(d), i |-> 1]

\* _load_main has parsed the main files and inserted the empty list.
Init ==
    /\ imports \in Programs
    /\ pkgs = [k \in {<<MAIN_PKG>>} |-> "empty"]
    /\ missing_pkgs = {}
    /\ stack = <<Frame(<<MAIN_PKG, <<>>>>)>>
    /\ bound = [k \in Keys |-> <<>>]
    /\ parses = [k \in Keys |-> IF k = <<MAIN_PKG>> THEN 1 ELSE 0]
    /\ errors = {}
    /\ result = "loading"

Top == stack[Len(stack)]
Importing == result = "loading" /\ stack # <<>> /\ Top.i <= Len(imports[Top.dir])
Path == imports[Top.dir][Top.i]

----------------------------------------------------------------------------
(* find_packages. *)

Exists(d) == d \in Dirs \cup EmptyDirs

\* is_internal_pkg: below the importing module's own root.
Internal(name, path) == IF Exists(<<name, path>>) THEN {<<name, path>>} ELSE {}

\* is_external_pkg: below the root of the module named by the first component.
\* A module of package_maps is found whether or not the rest of the path exists.
External(path) ==
    IF \/ path[1] \in PackageMaps
       \/ path[1] \in Vendored /\ Exists(<<path[1], Tail(path)>>)
    THEN {<<path[1], Tail(path)>>} ELSE {}

\* Exactly one of the two, or an error and no package.
Found(name, path) ==
    IF Internal(name, path) = {} THEN External(path)
    ELSE IF External(path) = {} THEN Internal(name, path) ELSE {}

\* The early returns of load_package, before find_packages.
Known(path) ==
    \/ ~LoadPackages
    \/ path = <<>>
    \/ path \in DOMAIN pkgs
    \/ path \in missing_pkgs
    \/ path \in Builtins \cup Plugins

----------------------------------------------------------------------------
(* One import statement of the package on top of the stack. *)

\* Advance the loop of load_import_package, leaving `path` in the statement.
Bind(path) ==
    /\ bound' = [bound EXCEPT ![Top.key] = Append(@, path)]
    /\ stack' = [stack EXCEPT ![Len(stack)].i = @ + 1]

\* load_package returns Ok(None) early; a plugin is an error unless enabled.
SkipImport ==
    /\ Importing
    /\ Known(Path)
    /\ Bind(Path)
    /\ errors' = IF /\ LoadPackages /\ Path \notin DOMAIN pkgs \cup missing_pkgs
                    /\ Path \in Plugins /\ ~LoadPlugins
                 THEN errors \cup {<<Top.key, Top.i>>} ELSE errors
    /\ UNCHANGED <<imports, pkgs, missing_pkgs, parses, result>>

NotFoundSilently ==
    /\ Importing
    /\ ~Known(Path)
    /\ Found(Top.name, Path) = {}
    /\ Bind(Path)
    /\ UNCHANGED <<imports, pkgs, missing_pkgs, parses, errors, result>>
\* find_packages found nothing, or the package both inside and outside.
NotFound ==
    /\ Importing
    /\ ~Known(Path)
    /\ Found(Top.name, Path) = {}
    /\ Bind(Path)
    /\ errors' = errors \cup {<<Top.key, Top.i>>}
    /\ UNCHANGED <<imports, pkgs, missing_pkgs, parses, result>>

AlreadyLoadedUnprefixed(d) ==
    /\ Key(d) \in DOMAIN pkgs
    /\ Bind(Path)
    /\ UNCHANGED <<imports, pkgs, missing_pkgs, parses, errors, result>>
\* The package is in `pkgs` under its full path: loaded, or a circular import.
AlreadyLoaded(d) ==
    /\ Key(d) \in DOMAIN pkgs
    /\ Bind(Key(d))
    /\ UNCHANGED <<imports, pkgs, missing_pkgs, parses, errors, result>>

NoFiles(d) ==
    /\ Key(d) \notin DOMAIN pkgs
    /\ d \notin Dirs
    /\ Bind(Path)
    /\ missing_pkgs' = missing_pkgs \cup {Path}
    /\ UNCHANGED <<imports, pkgs, parses, errors, result>>

EnterPackageUnmarked(d) ==
    /\ Key(d) \notin DOMAIN pkgs
    /\ d \in Dirs \ Unreadable
    /\ parses' = [parses EXCEPT ![Key(d)] = @ + 1]
    /\ stack' = Append(stack, Frame(d))
    /\ Len(stack) < 6
    /\ UNCHANGED <<imports, pkgs, missing_pkgs, bound, errors, result>>
\* Parse the files, insert the empty list, call load_import_package.
EnterPackage(d) ==
    /\ Key(d) \notin DOMAIN pkgs
    /\ d \in Dirs \ Unreadable
    /\ parses' = [parses EXCEPT ![Key(d)] = @ + 1]
    /\ pkgs' = [k \in DOMAIN pkgs \cup {Key(d)} |-> IF k = Key(d) THEN "empty" ELSE pkgs[k]]
    /\ stack' = Append(stack, Frame(d))
    /\ UNCHANGED <<imports, missing_pkgs, bound, errors, result>>

\* parse_file_with_session fails, and `?` takes the error out of every call.
ReadFails(d) ==
    /\ Key(d) \notin DOMAIN pkgs
    /\ d \in Unreadable
    /\ result' = "err"
    /\ UNCHANGED <<imports, pkgs, missing_pkgs, stack, bound, parses, errors>>

LoadPackage ==
    /\ Importing
    /\ ~Known(Path)
    /\ \E d \in Found(Top.name, Path) :
          AlreadyLoaded(d) \/ NoFiles(d) \/ EnterPackage(d) \/ ReadFails(d)

Filled == [k \in DOMAIN pkgs |-> IF k = Top.key THEN "full" ELSE pkgs[k]]

\* The loop is over: the complete list replaces the empty one and the caller
\* puts the package's path into its import statement.
LeavePackage ==
    /\ result = "loading"
    /\ Len(stack) > 1
    /\ Top.i > Len(imports[Top.dir])
    /\ pkgs' = Filled
    /\ LET caller == stack[Len(stack) - 1] IN
       /\ bound' = [bound EXCEPT ![caller.key] = Append(@, Top.key)]
       /\ stack' = [SubSeq(stack, 1, Len(stack) - 1) EXCEPT ![Len(stack) - 1].i = @ + 1]
    /\ UNCHANGED <<imports, missing_pkgs, parses, errors, result>>

LeaveMain ==
    /\ result = "loading"
    /\ Len(stack) = 1
    /\ Top.i > Len(imports[Top.dir])
    /\ pkgs' = Filled
    /\ stack' = <<>>
    /\ result' = "ok"
    /\ UNCHANGED <<imports, missing_pkgs, bound, parses, errors>>

Next == SkipImport \/ NotFound \/ LoadPackage \/ LeavePackage \/ LeaveMain

Spec == Init /\ [][Next]_vars
\* load_program is one sequential call: it keeps going.
FairSpec == Spec /\ WF_vars(Next)
----------------------------------------------------------------------------
(* Properties. *)

\* Circular and repeated imports never make load_package parse a package twice.
ParsedOnce == \A k \in Keys : parses[k] <= 1 /\ (parses[k] = 1 <=> k \in DOMAIN pkgs)

\* What an import in directory d means, whatever happens to be loaded already.
Denotes(d, path) ==
    IF path \in Builtins \cup Plugins \cup {<<>>} THEN {} ELSE Found(d[1], path)

Imported(d) == UNION {Denotes(d, imports[d][i]) \cap Dirs : i \in 1..Len(imports[d])}

\* The directories reachable from the main package through imports.
Reached ==
    {d \in Dirs : \A S \in SUBSET Dirs :
        <<MAIN_PKG, <<>>>> \in S /\ (\A e \in S : Imported(e) \subseteq S) => d \in S}

\* The directories that the imports of program f mean, and the main one.
Denoted(f) ==
    {<<MAIN_PKG, <<>>>>} \cup
    {e \in Dirs : \E d \in Dirs : \E i \in 1..Len(f[d]) : e \in Denotes(d, f[d][i])}

\* Those whose package is in `pkgs`.
Loaded == {d \in Denoted(imports) : Key(d) \in DOMAIN pkgs}

\* The path of an import in directory d is taken for another module's: `pkgs` and
\* missing_pkgs are looked up by the path as it is written, before the importing
\* module is considered.  The path is the key of a package loaded from another
\* module, or a directory without files in another module that imports it.
Shadowed(d, path) ==
    \/ \E e \in Loaded : e[1] # d[1] /\ Key(e) = path
    \/ /\ path \in missing_pkgs
       /\ \E e \in Loaded : /\ e[1] # d[1]
                            /\ \E j \in 1..Len(imports[e]) : imports[e][j] = path
                            /\ Denotes(e, path) # {} /\ Denotes(e, path) \cap Dirs = {}

\* The program holds the main package and everything that its packages import,
\* but for shadowed imports, all complete and readable, and nothing that is not
\* reachable; loading fails only on a reachable file that it cannot read.
LoadsReachable ==
    /\ result = "ok" =>
          /\ <<MAIN_PKG, <<>>>> \in Loaded
          /\ Loaded \subseteq Reached \ Unreadable
          /\ DOMAIN pkgs = {Key(d) : d \in Loaded}
          /\ \A k \in DOMAIN pkgs : pkgs[k] = "full"
          /\ \A d \in Loaded : \A i \in 1..Len(imports[d]) :
                Shadowed(d, imports[d][i]) \/ Denotes(d, imports[d][i]) \cap Dirs \subseteq Loaded
    /\ result = "err" => Reached \cap Unreadable # {}

\* Every import statement that means a package is left with the path of that
\* package in `pkgs` ("will add the external package name as prefix"), or it is
\* shadowed, across modules only, and left as it was written.
BindsMeaning ==
    result = "ok" =>
       \A d \in Loaded : \A i \in 1..Len(imports[d]) :
          LET path == imports[d][i] IN
          \A e \in Denotes(d, path) \cap Dirs :
             \/ bound[Key(d)][i] = Key(e) /\ e \in Loaded
             \/ bound[Key(d)][i] = path /\ Shadowed(d, path)

\* No import is dropped in silence: it is left with the path of a package of the
\* program or of a system or plugin module, it has a diagnostic, or the path
\* is known to have no files.
EveryImportAccounted ==
    result = "ok" =>
       \A d \in Loaded : \A i \in 1..Len(imports[d]) :
          LET p == bound[Key(d)][i] IN
          \/ p \in DOMAIN pkgs \cup Builtins \cup missing_pkgs
          \/ p \in Plugins /\ LoadPlugins
          \/ <<Key(d), i>> \in errors

\* The loaded program is the import graph: each package of it parsed once,
\* nothing else, and no import statement left without a package or a report.
LoadsExactly == ParsedOnce /\ LoadsReachable /\ EveryImportAccounted

\* What the load has achieved: the packages entered (0), the imports of each that
\* have been dealt with, and the end (-1); and what the program's text allows of it.
Ended == <<<<MAIN_PKG>>, -1>>
Achieved ==
    (UNION {{k} \X (0..Len(bound[k])) : k \in DOMAIN pkgs})
       \cup (IF result = "loading" THEN {} ELSE {Ended})
Achievable == (UNION {{Key(d)} \X (0..Len(imports[d])) : d \in Dirs}) \cup {Ended}

\* However the imports are circular, every step of the recursion achieves
\* something new, none undoes anything, and no package gets more than its own
\* imports: the number of steps is bounded by the program's text.
Advances ==
    [][Achieved \subseteq Achieved' /\ Achieved # Achieved' /\ Achieved' \subseteq Achievable]_vars

\* The recursion ends, whatever cycles the imports form.
Terminates == <>(result # "loading")
=============================================================================
