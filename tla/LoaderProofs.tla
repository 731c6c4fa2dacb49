---------------------------- MODULE LoaderProofs ----------------------------
(* Theorems about Loader, for every set of directories and every program,   *)
(* those in which one path has several meanings included.                   *)
EXTENDS Loader, SequenceTheorems, TLAPS

Main == <<MAIN_PKG, <<>>>>

FrameSet == [dir : Dirs, name : {d[1] : d \in Dirs}, key : Keys, i : Nat]

FrameOK(fr) ==
    /\ fr.dir \in Loaded /\ fr.name = fr.dir[1] /\ fr.key = Key(fr.dir)
    /\ fr.i >= 1 /\ fr.i <= Len(imports[fr.dir]) + 1

\* The calls under way: each but the innermost waits for the package that its
\* present import means, and no package is loaded by two of them.
Calls ==
    /\ stack \in Seq(FrameSet)
    /\ \A n \in 1..Len(stack) : FrameOK(stack[n])
    /\ \A m, n \in 1..Len(stack) : m # n => stack[m].key # stack[n].key
    /\ \A n \in 1..Len(stack) : n < Len(stack) =>
          /\ stack[n].i <= Len(imports[stack[n].dir])
          /\ Denotes(stack[n].dir, imports[stack[n].dir][stack[n].i]) = {stack[n + 1].dir}
    /\ Len(stack) >= 1 => stack[1].dir = Main
    /\ result \in {"loading", "ok", "err"}
    /\ result = "ok" => stack = <<>>
    /\ result = "err" => Reached \cap Unreadable # {}

\* `pkgs` has packages that are reachable and readable, each parsed once, and a
\* package that is not complete is being loaded.
Marks ==
    /\ imports \in Programs
    /\ pkgs = [k \in DOMAIN pkgs |-> pkgs[k]]
    /\ DOMAIN pkgs = {Key(d) : d \in Loaded}
    /\ Main \in Loaded /\ Loaded \subseteq Reached /\ Loaded \cap Unreadable = {}
    /\ \A k \in DOMAIN pkgs : pkgs[k] = "full" \/ \E n \in 1..Len(stack) : stack[n].key = k
    /\ parses = [k \in Keys |-> IF k \in DOMAIN pkgs THEN 1 ELSE 0]

Paths == Keys \cup UNION {{imports[d][i] : i \in 1..Len(imports[d])} : d \in Dirs}

\* Import i of package d has been dealt with.
Handled(d, i) ==
    /\ \A e \in Denotes(d, imports[d][i]) \cap Dirs :
          \/ e \in Loaded /\ bound[Key(d)][i] = Key(e)
          \/ Shadowed(d, imports[d][i]) /\ bound[Key(d)][i] = imports[d][i]
    /\ \/ bound[Key(d)][i] \in DOMAIN pkgs \cup Builtins \cup missing_pkgs
       \/ bound[Key(d)][i] \in Plugins /\ LoadPlugins
       \/ <<Key(d), i>> \in errors

NoFilesFor(p) ==
    \E e \in Loaded : /\ \E j \in 1..Len(imports[e]) : imports[e][j] = p
                     /\ Denotes(e, p) # {} /\ Denotes(e, p) \cap Dirs = {}

\* Of a package under way the imports before the present one are dealt with, of
\* a package that was left all; a path known to be missing is a directory
\* without files for some package that imports it.
Bounds ==
    /\ bound \in [Keys -> Seq(Paths)]
    /\ \A k \in Keys : k \notin DOMAIN pkgs => bound[k] = <<>>
    /\ \A n \in 1..Len(stack) : Len(bound[stack[n].key]) = stack[n].i - 1
    /\ \A d \in Loaded : \/ \E n \in 1..Len(stack) : stack[n].key = Key(d)
                       \/ Len(bound[Key(d)]) = Len(imports[d])
    /\ \A d \in Loaded : \A i \in 1..Len(bound[Key(d)]) : Handled(d, i)
    /\ \A p \in missing_pkgs : NoFilesFor(p)

IInv == Calls /\ Marks /\ Bounds

----------------------------------------------------------------------------
(* What paths mean. *)

\* find_packages never finds two packages.
LEMMA FoundOne ==
  ASSUME NEW name, NEW path, NEW d \in Found(name, path), NEW e \in Found(name, path)
  PROVE  d = e
  <1>1. \A x, y \in Internal(name, path) : x = y
    BY DEF Internal
  <1>2. \A x, y \in External(path) : x = y
    BY DEF External
  <1>3. Found(name, path) \in {{}, Internal(name, path), External(path)}
    BY DEF Found
  <1> QED
    BY <1>1, <1>2, <1>3

\* For a path that load_package does not return on at once, the meaning is what
\* find_packages finds.
LEMMA DenotesFound ==
  ASSUME NEW d, NEW path, path \notin Builtins \cup Plugins, path # <<>>
  PROVE  Denotes(d, path) = Found(d[1], path)
  BY DEF Denotes

\* Directories are pairs of a module and a path.
LEMMA Pairs ==
  /\ \A d \in Dirs \cup EmptyDirs : d = <<d[1], d[2]>> /\ d[2] \in Seq(Names) /\ d[1] \in Names
  /\ \A d \in Dirs \cup EmptyDirs : d[1] # MAIN_PKG => d[1] \in PackageMaps \cup Vendored
  BY ModuleAssumption DEF ModuleAssumption

\* A path with a module in front begins with that module.
LEMMA Prefixed ==
  ASSUME NEW m \in Names, NEW q \in Seq(Names)
  PROVE  (<<m>> \o q)[1] = m /\ Tail(<<m>> \o q) = q /\ <<m>> \o q # <<>> /\ <<m>> \o q \in Seq(Names)
  <1>1. <<m>> \in Seq(Names) /\ Len(<<m>>) = 1 /\ <<m>>[1] = m
    OBVIOUS
  <1>a. <<m>> \o q \in Seq(Names)
    BY <1>1, ConcatProperties
  <1>2. PICK p \in Seq(Names) : p = <<m>> \o q
    BY <1>a
  <1>3. Len(p) = Len(q) + 1 /\ p[1] = m /\ \A i \in 1..Len(q) : p[i + 1] = q[i]
    BY <1>1, <1>2
  <1>4. p # <<>> /\ Len(p) >= 1 /\ Len(q) \in Nat
    BY <1>3
  <1>5. Tail(p) \in Seq(Names) /\ Len(Tail(p)) = Len(q) /\ \A i \in 1..Len(q) : Tail(p)[i] = q[i]
    BY <1>3, <1>4
  <1>6. Tail(p) = q
    BY <1>5, SeqEqual
  <1> QED
    BY <1>2, <1>3, <1>4, <1>6

\* A path is its first name and the rest.
LEMMA Parts ==
  ASSUME NEW p \in Seq(Names), p # <<>>
  PROVE  p[1] \in Names /\ Tail(p) \in Seq(Names) /\ <<p[1]>> \o Tail(p) = p
  <1>1. Len(p) \in Nat /\ Len(p) >= 1 /\ 1 \in 1..Len(p)
    BY EmptySeq
  <1>2. p[1] \in Names /\ Tail(p) \in Seq(Names) /\ Len(Tail(p)) = Len(p) - 1
        /\ \A i \in 1..(Len(p) - 1) : Tail(p)[i] = p[i + 1]
    <2>1. p[1] \in Names
      BY <1>1
    <2>2. Tail(p) \in Seq(Names) /\ Len(Tail(p)) = Len(p) - 1
      BY <1>1, HeadTailProperties
    <2>3. \A i \in 1..Len(Tail(p)) : Tail(p)[i] = p[i + 1]
      BY <1>1, HeadTailProperties
    <2> QED
      BY <2>1, <2>2, <2>3
  <1>3. PICK m \in Names, q \in Seq(Names) : m = p[1] /\ q = Tail(p)
    BY <1>2
  <1>4. <<m>> \o q \in Seq(Names) /\ Len(<<m>> \o q) = Len(p)
        /\ \A i \in 1..Len(p) : (<<m>> \o q)[i] = p[i]
    BY <1>1, <1>2, <1>3
  <1> QED
    BY <1>2, <1>3, <1>4, SeqEqual

\* A package that find_packages finds has the path as its key, except for one
\* below the root of the external module that imports it; and when it is found
\* below the importing module's root, the path is no external package.
LEMMA FoundKey ==
  ASSUME NEW name \in Names, NEW path \in Seq(Names), path # <<>>,
         NEW e \in Found(name, path), e \in Dirs
  PROVE  \/ e = <<name, path>> /\ External(path) = {} /\ (name = MAIN_PKG => Key(e) = path)
         \/ e[1] # MAIN_PKG /\ Key(e) = path
  <1>1. CASE e \in Internal(name, path) /\ External(path) = {}
    <2>1. e = <<name, path>>
      BY <1>1 DEF Internal
    <2>2. name = MAIN_PKG => Key(e) = path
      BY <2>1 DEF Key
    <2> QED
      BY <1>1, <2>1, <2>2
  <1>2. CASE e \in External(path)
    <2>1. e = <<path[1], Tail(path)>> /\ path[1] \in PackageMaps \cup Vendored
      BY <1>2 DEF External
    <2>2. e[1] = path[1] /\ e[2] = Tail(path) /\ e[1] # MAIN_PKG
      BY <2>1, ModuleAssumption DEF ModuleAssumption
    <2>3. Key(e) = <<e[1]>> \o e[2]
      BY <2>2 DEF Key
    <2>4. <<path[1]>> \o Tail(path) = path
      BY Parts
    <2> QED
      BY <2>2, <2>3, <2>4
  <1> QED
    BY <1>1, <1>2 DEF Found

\* A directory of a module that the path names is found as an external package.
LEMMA OutsideFound ==
  ASSUME NEW e \in Dirs, e[1] # MAIN_PKG
  PROVE  Key(e) = <<e[1]>> \o e[2] /\ External(Key(e)) # {} /\ Key(e) # <<MAIN_PKG>>
  <1>1. e = <<e[1], e[2]>> /\ e[2] \in Seq(Names) /\ e[1] \in Names /\ e[1] \in PackageMaps \cup Vendored
    BY Pairs
  <1>2. Key(e) = <<e[1]>> \o e[2]
    BY <1>1 DEF Key
  <1>3. PICK k : k = <<e[1]>> \o e[2]
    OBVIOUS
  <1>4. k[1] = e[1] /\ Tail(k) = e[2]
    BY <1>1, <1>3, Prefixed
  <1>5. External(k) # {}
    BY <1>1, <1>4 DEF External, Exists
  <1>6. k # <<MAIN_PKG>>
    BY <1>4
  <1> QED
    BY <1>2, <1>3, <1>5, <1>6

\* A directory of the program itself that an import means is no external package.
LEMMA InsideFound ==
  ASSUME NEW f \in Programs, NEW d \in Denoted(f), d[1] = MAIN_PKG, d # Main
  PROVE  d \in Dirs /\ Key(d) = d[2] /\ External(d[2]) = {} /\ Key(d) # <<MAIN_PKG>>
  <1>x. PICK x \in Dirs : \E i \in 1..Len(f[x]) : d \in Denotes(x, f[x][i]) /\ d \in Dirs
    BY DEF Denoted, Main
  <1>1. PICK i \in 1..Len(f[x]) : d \in Denotes(x, f[x][i]) /\ d \in Dirs
    BY <1>x
  <1>2. PICK path \in Seq(Names) : path = f[x][i] /\ path # <<>>
    BY ProgramAssumption DEF ProgramAssumption
  <1>3. d \in Found(x[1], path) /\ x[1] \in Names
    BY <1>1, <1>2, Pairs DEF Denotes
  <1>4. d = <<x[1], path>> /\ External(path) = {}
    BY <1>1, <1>2, <1>3, FoundKey
  <1>5. d[2] = path /\ d = <<MAIN_PKG, path>>
    BY <1>4
  <1>6. Key(d) = d[2]
    BY <1>5 DEF Key, Main
  <1>7. d[2] # <<MAIN_PKG>>
    BY <1>1, <1>5, ModuleAssumption DEF ModuleAssumption
  <1> QED
    BY <1>1, <1>4, <1>5, <1>6, <1>7

\* Whatever the program, different packages that its imports mean have different
\* keys: find_packages refuses a path that is both inside and outside.
LEMMA OneKey ==
  ASSUME NEW f \in Programs, NEW d \in Denoted(f), NEW e \in Denoted(f), Key(d) = Key(e)
  PROVE  d = e
  <1>0. d \in Dirs /\ e \in Dirs /\ Key(Main) = <<MAIN_PKG>>
    BY ModuleAssumption DEF ModuleAssumption, Denoted, Key, Main
  <1>a. /\ d = <<d[1], d[2]>> /\ d[2] \in Seq(Names) /\ d[1] \in Names
        /\ e = <<e[1], e[2]>> /\ e[2] \in Seq(Names) /\ e[1] \in Names
    BY <1>0, Pairs
  <1>1. CASE d = Main \/ e = Main
    <2>1. ASSUME NEW x \in Denoted(f), x # Main PROVE Key(x) # <<MAIN_PKG>>
      <3>1. x \in Dirs
        BY ModuleAssumption DEF ModuleAssumption, Denoted
      <3> QED
        BY <2>1, <3>1, InsideFound, OutsideFound
    <2> QED
      BY <1>0, <1>1, <2>1
  <1>2. CASE d # Main /\ e # Main /\ d[1] = MAIN_PKG /\ e[1] = MAIN_PKG
    <2>1. d[2] = e[2]
      BY <1>2, InsideFound
    <2> QED
      BY <1>2, <1>a, <2>1
  <1>3. CASE d # Main /\ e # Main /\ d[1] = MAIN_PKG /\ e[1] # MAIN_PKG
    BY <1>0, <1>3, InsideFound, OutsideFound
  <1>4. CASE d # Main /\ e # Main /\ d[1] # MAIN_PKG /\ e[1] = MAIN_PKG
    BY <1>0, <1>4, InsideFound, OutsideFound
  <1>5. CASE d[1] # MAIN_PKG /\ e[1] # MAIN_PKG
    <2>1. <<d[1]>> \o d[2] = <<e[1]>> \o e[2]
      BY <1>0, <1>5, OutsideFound
    <2>a. PICK k : k = <<d[1]>> \o d[2]
      OBVIOUS
    <2>b. k[1] = d[1] /\ Tail(k) = d[2]
      BY <1>a, <2>a, Prefixed
    <2>c. k[1] = e[1] /\ Tail(k) = e[2]
      BY <1>a, <2>1, <2>a, Prefixed
    <2>2. d[1] = e[1] /\ d[2] = e[2]
      BY <2>b, <2>c
    <2> QED
      BY <1>a, <2>2
  <1> QED
    BY <1>1, <1>2, <1>3, <1>4, <1>5

\* A path that means one package and is the key of another was loaded from
\* another module than the one that imports it.
LEMMA Elsewhere ==
  ASSUME NEW f \in Programs, NEW d \in Dirs, NEW path \in Seq(Names), path # <<>>,
         NEW e \in Found(d[1], path), e \in Denoted(f), e \in Dirs,
         NEW x \in Denoted(f), Key(x) = path, e # x
  PROVE  x[1] # d[1]
  <1>1. d[1] \in Names /\ Key(e) # path
    BY OneKey, Pairs
  <1>2. External(path) = {} /\ d[1] # MAIN_PKG
    BY <1>1, FoundKey
  <1>3. x \in Dirs
    BY ModuleAssumption DEF ModuleAssumption, Denoted
  <1> QED
    BY <1>2, <1>3, OutsideFound

\* Reached is the least set with the main package and all that its members import.
LEMMA ReachedLeast ==
  /\ Main \in Reached /\ Reached \subseteq Dirs
  /\ \A d \in Reached : Imported(d) \subseteq Reached
  /\ \A S \in SUBSET Dirs :
        Main \in S /\ (\A e \in S : Imported(e) \subseteq S) => Reached \subseteq S
  <1>1. Main \in Dirs
    BY ModuleAssumption DEF ModuleAssumption, Main
  <1>2. Main \in Reached /\ Reached \subseteq Dirs
    BY <1>1 DEF Reached, Main
  <1>3. ASSUME NEW d \in Reached, NEW e \in Imported(d) PROVE e \in Reached
    <2>1. e \in Dirs
      BY DEF Imported
    <2>2. ASSUME NEW S \in SUBSET Dirs, Main \in S, \A x \in S : Imported(x) \subseteq S PROVE e \in S
      <3>1. d \in S
        BY <2>2 DEF Reached, Main
      <3> QED
        BY <2>2, <3>1
    <2> QED
      BY <2>1, <2>2 DEF Reached, Main
  <1>4. ASSUME NEW S \in SUBSET Dirs, Main \in S, \A x \in S : Imported(x) \subseteq S
        PROVE  Reached \subseteq S
    BY <1>4 DEF Reached, Main
  <1> QED
    BY <1>2, <1>3, <1>4

\* What an import of a directory means is among the directories it imports, and
\* among those the program denotes.
LEMMA DenotedIn ==
  ASSUME NEW d \in Dirs, NEW i \in 1..Len(imports[d]), NEW e \in Denotes(d, imports[d][i]), e \in Dirs
  PROVE  e \in Imported(d) /\ e \in Denoted(imports)
  <1>1. e \in Denotes(d, imports[d][i]) \cap Dirs
    OBVIOUS
  <1>2. e \in Imported(d)
    BY <1>1 DEF Imported
  <1> QED
    BY <1>1, <1>2 DEF Denoted

\* Everything reachable is denoted.
LEMMA ReachedDenoted == Reached \subseteq Denoted(imports)
  <1>1. Denoted(imports) \subseteq Dirs /\ Main \in Denoted(imports)
    BY ModuleAssumption DEF ModuleAssumption, Denoted, Main
  <1>2. ASSUME NEW e \in Denoted(imports), NEW x \in Imported(e) PROVE x \in Denoted(imports)
    <2>1. PICK i \in 1..Len(imports[e]) : x \in Denotes(e, imports[e][i]) \cap Dirs
      BY DEF Imported
    <2> QED
      BY <1>1, <2>1, DenotedIn
  <1> QED
    BY <1>1, <1>2, ReachedLeast

\* The program does not change, and so neither does what is reachable.
LEMMA ReachedSame ==
  ASSUME UNCHANGED imports
  PROVE  /\ Reached' = Reached
         /\ \A d : Imported(d)' = Imported(d)
         /\ DOMAIN pkgs' = DOMAIN pkgs => Loaded' = Loaded
         /\ Paths' = Paths
  <1>1. \A d : Imported(d)' = Imported(d)
    BY DEF Imported
  <1>2. Reached' = Reached
    BY <1>1 DEF Reached
  <1>3. DOMAIN pkgs' = DOMAIN pkgs => Loaded' = Loaded
    BY DEF Loaded
  <1>4. Paths' = Paths
    BY DEF Paths
  <1> QED
    BY <1>1, <1>2, <1>3, <1>4

----------------------------------------------------------------------------
(* The steps. *)

\* Packages in `pkgs` are told apart by their keys.
LEMMA KeyOnce ==
  ASSUME IInv, NEW d \in Loaded, NEW e \in Denoted(imports), Key(d) = Key(e)
  PROVE  d = e
  BY OneKey DEF IInv, Marks, Loaded

\* What is shadowed stays so while packages are added.
LEMMA ShadowKept ==
  ASSUME UNCHANGED imports, DOMAIN pkgs \subseteq DOMAIN pkgs', missing_pkgs \subseteq missing_pkgs'
  PROVE  /\ Loaded \subseteq Loaded'
         /\ \A d, p : Shadowed(d, p) => Shadowed(d, p)'
         /\ \A p : NoFilesFor(p) => NoFilesFor(p)'
  <1>1. Loaded \subseteq Loaded'
    BY DEF Loaded
  <1>2. ASSUME NEW d, NEW p, Shadowed(d, p) PROVE Shadowed(d, p)'
    BY <1>1, <1>2 DEF Shadowed
  <1>3. ASSUME NEW p, NoFilesFor(p) PROVE NoFilesFor(p)'
    BY <1>1, <1>3 DEF NoFilesFor
  <1> QED
    BY <1>1, <1>2, <1>3

\* Facts about the frames of the stack.
LEMMA FrameFacts ==
  ASSUME IInv
  PROVE  /\ Len(stack) \in Nat
         /\ \A n \in 1..Len(stack) :
               /\ stack[n] \in FrameSet /\ FrameOK(stack[n])
               /\ stack[n].dir \in Dirs /\ stack[n].dir \in Loaded /\ stack[n].key \in Keys
               /\ stack[n].key = Key(stack[n].dir) /\ stack[n].i \in Nat
               /\ stack[n].key \in DOMAIN pkgs
         /\ \A d \in Dirs : Len(imports[d]) \in Nat
         /\ \A d \in Loaded : d \in Dirs /\ Key(d) \in Keys /\ Key(d) \in DOMAIN pkgs
         /\ DOMAIN pkgs \subseteq Keys
  <1>1. stack \in Seq(FrameSet) /\ Len(stack) \in Nat
    BY DEF IInv, Calls
  <1>2. \A n \in 1..Len(stack) : stack[n] \in FrameSet /\ FrameOK(stack[n])
    BY <1>1 DEF IInv, Calls
  <1>3. \A x \in FrameSet : x.dir \in Dirs /\ x.key \in Keys /\ x.i \in Nat
    BY DEF FrameSet
  <1>4. \A d \in Dirs : Len(imports[d]) \in Nat
    BY ProgramAssumption DEF ProgramAssumption, IInv, Marks
  <1>5. \A d \in Loaded : d \in Dirs /\ Key(d) \in Keys /\ Key(d) \in DOMAIN pkgs
    BY ModuleAssumption DEF ModuleAssumption, Loaded, Denoted, Keys
  <1>6. DOMAIN pkgs \subseteq Keys
    BY <1>5 DEF IInv, Marks
  <1> QED
    BY <1>1, <1>2, <1>3, <1>4, <1>5, <1>6 DEF FrameOK

\* The call in frame n comes to the end of an import, which it leaves as `path`;
\* the calls inside it, if any, have come to their end.
LEMMA Returned ==
  ASSUME LoadPackages, IInv, result = "loading", NEW n \in 1..Len(stack), NEW path \in Paths,
         UNCHANGED <<imports, parses, result>>,
         stack[n].i <= Len(imports[stack[n].dir]),
         \A m \in 1..Len(stack) : m > n => stack[m].i = Len(imports[stack[m].dir]) + 1,
         DOMAIN pkgs' = DOMAIN pkgs, pkgs' = [k \in DOMAIN pkgs' |-> pkgs'[k]],
         \A k \in DOMAIN pkgs : pkgs'[k] = "full" \/ \E m \in 1..n : stack[m].key = k,
         Len(stack') = n, \A m \in 1..n : m < n => stack'[m] = stack[m],
         stack' \in Seq(FrameSet),
         stack'[n] = [dir |-> stack[n].dir, name |-> stack[n].name, key |-> stack[n].key,
                      i |-> stack[n].i + 1],
         bound' = [bound EXCEPT ![stack[n].key] = Append(@, path)],
         missing_pkgs \subseteq missing_pkgs', errors \subseteq errors',
         \A p \in missing_pkgs' : NoFilesFor(p),
         \A e \in Denotes(stack[n].dir, imports[stack[n].dir][stack[n].i]) \cap Dirs :
            \/ e \in Loaded /\ path = Key(e)
            \/ /\ Shadowed(stack[n].dir, imports[stack[n].dir][stack[n].i])
               /\ path = imports[stack[n].dir][stack[n].i],
         \/ path \in DOMAIN pkgs \cup Builtins \cup missing_pkgs'
         \/ path \in Plugins /\ LoadPlugins
         \/ <<stack[n].key, stack[n].i>> \in errors'
  PROVE  IInv'
  <1>f. Loaded' = Loaded /\ Reached' = Reached /\ Paths' = Paths
    BY ReachedSame
  <1>k. /\ \A d, p : Shadowed(d, p) => Shadowed(d, p)'
        /\ \A p : NoFilesFor(p) => NoFilesFor(p)'
    BY ShadowKept
  <1>s. Len(stack) \in Nat /\ n \in Nat /\ n >= 1 /\ n <= Len(stack)
    BY FrameFacts
  <1>1. stack'[n].dir = stack[n].dir /\ stack'[n].name = stack[n].name
        /\ stack'[n].key = stack[n].key /\ stack'[n].i = stack[n].i + 1
    OBVIOUS
  <1>2. \A m \in 1..n : m \in 1..Len(stack) /\ stack'[m].dir = stack[m].dir
           /\ stack'[m].name = stack[m].name /\ stack'[m].key = stack[m].key
           /\ (m # n => stack'[m] = stack[m])
    <2>1. \A m \in 1..n : m \in 1..Len(stack) /\ (m # n => m < n)
      BY <1>s
    <2> QED
      BY <1>1, <2>1
  <1>3. ASSUME NEW m \in 1..n PROVE FrameOK(stack[m])'
    <2>1. FrameOK(stack[m]) /\ stack[n].i \in Nat /\ Len(imports[stack[n].dir]) \in Nat
      BY <1>2, FrameFacts
    <2>2. stack'[m].i >= 1 /\ stack'[m].i <= Len(imports[stack[m].dir]) + 1
      BY <1>1, <1>2, <2>1 DEF FrameOK
    <2> QED
      BY <1>f, <1>2, <2>1, <2>2 DEF FrameOK
  <1>4. Calls'
    <2>1. \A l, m \in 1..Len(stack') : l # m => stack'[l].key # stack'[m].key
      BY <1>2 DEF IInv, Calls
    <2>2. ASSUME NEW m \in 1..Len(stack'), m < Len(stack')
          PROVE  /\ stack'[m].i <= Len(imports[stack'[m].dir])
                 /\ Denotes(stack'[m].dir, imports[stack'[m].dir][stack'[m].i]) = {stack'[m + 1].dir}
      <3>1. m + 1 \in 1..n /\ m # n /\ m < Len(stack) /\ m \in 1..Len(stack)
        BY <1>s, <2>2
      <3>2. stack'[m] = stack[m] /\ stack'[m + 1].dir = stack[m + 1].dir
        BY <1>2, <2>2, <3>1
      <3> QED
        BY <3>1, <3>2 DEF IInv, Calls
    <2>3. stack'[1].dir = Main
      <3>1. 1 \in 1..n /\ Len(stack) >= 1
        BY <1>s
      <3> QED
        BY <1>2, <3>1 DEF IInv, Calls
    <2> QED
      BY <1>f, <1>3, <2>1, <2>2, <2>3 DEF IInv, Calls
  <1>5. Marks'
    <2>1. \A k \in DOMAIN pkgs' : pkgs'[k] = "full" \/ \E m \in 1..Len(stack') : stack'[m].key = k
      BY <1>2
    <2>2. DOMAIN pkgs' = {Key(d) : d \in Loaded'}
      BY <1>f DEF IInv, Marks
    <2> QED
      BY <1>f, <2>1, <2>2 DEF IInv, Marks
  <1>6. Bounds'
    <2>k. stack[n].key \in Keys /\ stack[n].key = Key(stack[n].dir) /\ stack[n].dir \in Loaded
          /\ stack[n].i \in Nat /\ stack[n].key \in DOMAIN pkgs
      BY FrameFacts
    <2>b. bound \in [Keys -> Seq(Paths)] /\ bound[stack[n].key] \in Seq(Paths)
          /\ Len(bound[stack[n].key]) = stack[n].i - 1
      BY <2>k DEF IInv, Bounds
    <2>p. Append(bound[stack[n].key], path) \in Seq(Paths)
      BY <2>b
    <2>a. PICK b \in Seq(Paths) : b = Append(bound[stack[n].key], path)
      BY <2>p
    <2>c. Len(b) = stack[n].i /\ b[stack[n].i] = path
          /\ \A i \in 1..Len(bound[stack[n].key]) : b[i] = bound[stack[n].key][i]
      BY <2>a, <2>b, <2>k
    <2>d. bound' = [bound EXCEPT ![stack[n].key] = b]
      BY <2>a
    <2>e. bound'[stack[n].key] = b /\ \A k \in Keys : k # stack[n].key => bound'[k] = bound[k]
      BY <2>b, <2>d, <2>k
    <2>1. bound' \in [Keys -> Seq(Paths')]
      BY <1>f, <2>b, <2>d
    <2>2. \A k \in Keys : k \notin DOMAIN pkgs' => bound'[k] = <<>>
      BY <2>e, <2>k DEF IInv, Bounds
    <2>3. ASSUME NEW m \in 1..Len(stack') PROVE Len(bound'[stack'[m].key]) = stack'[m].i - 1
      <3>1. CASE m = n
        BY <1>1, <2>c, <2>e, <2>k, <3>1
      <3>2. CASE m # n
        <4>1. m \in 1..Len(stack) /\ stack'[m] = stack[m] /\ stack[m].key # stack[n].key /\ stack[m].key \in Keys
          BY <1>2, <3>2, FrameFacts, ZenonT(30) DEF IInv, Calls
        <4> QED
          BY <2>e, <4>1 DEF IInv, Bounds
      <3> QED
        BY <3>1, <3>2
    <2>4. ASSUME NEW d \in Loaded
          PROVE  \/ \E m \in 1..Len(stack') : stack'[m].key = Key(d)
                 \/ Len(bound'[Key(d)]) = Len(imports'[d])
      <3>1. CASE \E m \in 1..Len(stack) : m <= n /\ stack[m].key = Key(d)
        <4>1. PICK m \in 1..Len(stack) : m <= n /\ stack[m].key = Key(d)
          BY <3>1
        <4>2. m \in 1..n
          BY <4>1
        <4> QED
          BY <1>2, <4>1, <4>2
      <3>2. CASE \E m \in 1..Len(stack) : m > n /\ stack[m].key = Key(d)
        <4>1. PICK m \in 1..Len(stack) : m > n /\ stack[m].key = Key(d)
          BY <3>2
        <4>2. stack[m].dir \in Loaded /\ Key(stack[m].dir) = Key(d) /\ m # n
              /\ Len(imports[stack[m].dir]) \in Nat /\ stack[m].dir \in Dirs
          BY <4>1, FrameFacts
        <4>3. Len(bound[Key(d)]) = Len(imports[stack[m].dir])
          <5>1. Len(bound[Key(d)]) = stack[m].i - 1
            BY <4>1 DEF IInv, Bounds
          <5>2. stack[m].i = Len(imports[stack[m].dir]) + 1
            BY <4>1
          <5> QED
            BY <4>2, <5>1, <5>2
        <4>4. Key(d) # stack[n].key /\ Key(d) \in Keys
          <5>1. \A l, m2 \in 1..Len(stack) : l # m2 => stack[l].key # stack[m2].key
            BY DEF IInv, Calls
          <5>2. stack[m].key # stack[n].key
            BY <4>2, <5>1
          <5> QED
            BY <4>1, <5>2, FrameFacts
        <4>5. stack[m].dir = d
          BY <4>2, KeyOnce DEF Loaded
        <4> QED
          BY <2>e, <4>3, <4>4, <4>5
      <3>3. CASE ~\E m \in 1..Len(stack) : stack[m].key = Key(d)
        <4>1. Len(bound[Key(d)]) = Len(imports[d]) /\ Key(d) # stack[n].key /\ Key(d) \in Keys
          BY <3>3, FrameFacts DEF IInv, Bounds
        <4> QED
          BY <2>e, <4>1
      <3> QED
        BY <1>s, <3>1, <3>2, <3>3
    <2>5. ASSUME NEW d \in Loaded, NEW i \in 1..Len(bound'[Key(d)]) PROVE Handled(d, i)'
      <3>0. Key(d) \in Keys /\ d \in Denoted(imports)
        BY FrameFacts DEF Loaded
      <3>1. CASE Key(d) = stack[n].key /\ i = stack[n].i
        <4>1. d = stack[n].dir
          BY <2>k, <3>0, <3>1, KeyOnce
        <4>2. bound'[Key(d)][i] = path
          BY <2>c, <2>e, <3>1
        <4> QED
          BY <1>f, <1>k, <3>1, <4>1, <4>2 DEF Handled
      <3>2. CASE ~(Key(d) = stack[n].key /\ i = stack[n].i)
        <4>1. i \in 1..Len(bound[Key(d)]) /\ bound'[Key(d)][i] = bound[Key(d)][i]
          <5>1. CASE Key(d) # stack[n].key
            BY <2>e, <3>0, <5>1
          <5>2. CASE Key(d) = stack[n].key
            <6>1. i \in 1..stack[n].i /\ i # stack[n].i
              BY <2>c, <2>e, <3>2, <5>2
            <6>2. i \in 1..(stack[n].i - 1)
              BY <2>k, <6>1
            <6> QED
              BY <2>b, <2>c, <2>e, <5>2, <6>2
          <5> QED
            BY <5>1, <5>2
        <4>2. Handled(d, i)
          BY <4>1 DEF IInv, Bounds
        <4> QED
          BY <1>f, <1>k, <4>1, <4>2 DEF Handled
      <3> QED
        BY <3>1, <3>2
    <2> QED
      BY <1>f, <1>k, <2>1, <2>2, <2>3, <2>4, <2>5 DEF Bounds
  <1> QED
    BY <1>4, <1>5, <1>6 DEF IInv

\* The state when an import is looked at.
LEMMA AtImport ==
  ASSUME IInv, Importing
  PROVE  /\ Len(stack) \in 1..Len(stack) /\ result = "loading" /\ stack \in Seq(FrameSet)
         /\ Top.dir \in Dirs /\ Top.dir \in Loaded /\ Top.name = Top.dir[1] /\ Top.key = Key(Top.dir)
         /\ Top.i \in 1..Len(imports[Top.dir]) /\ Path \in Paths /\ Top \in FrameSet
  <1>1. Len(stack) \in 1..Len(stack) /\ stack \in Seq(FrameSet)
    BY FrameFacts DEF Importing, IInv, Calls
  <1>2. /\ Top \in FrameSet /\ FrameOK(Top) /\ Top.dir \in Dirs /\ Top.dir \in Loaded /\ Top.i \in Nat
        /\ Len(imports[Top.dir]) \in Nat
    BY <1>1, FrameFacts DEF Top
  <1>3. Top.i \in 1..Len(imports[Top.dir])
    BY <1>2 DEF Importing, FrameOK
  <1>4. Path \in Paths
    BY <1>2, <1>3 DEF Paths, Path
  <1> QED
    BY <1>1, <1>2, <1>3, <1>4 DEF Importing, FrameOK

\* Bind, when the import is accounted for, keeps the invariant.
LEMMA BindStep ==
  ASSUME LoadPackages, IInv, Importing, NEW path \in Paths, Bind(path),
         UNCHANGED <<imports, pkgs, parses, result>>,
         missing_pkgs \subseteq missing_pkgs', errors \subseteq errors',
         \A p \in missing_pkgs' : NoFilesFor(p),
         \A e \in Denotes(Top.dir, Path) \cap Dirs :
            (e \in Loaded /\ path = Key(e)) \/ (Shadowed(Top.dir, Path) /\ path = Path),
         \/ path \in DOMAIN pkgs \cup Builtins \cup missing_pkgs'
         \/ path \in Plugins /\ LoadPlugins
         \/ <<Top.key, Top.i>> \in errors'
  PROVE  IInv'
  <1>1. PICK n \in 1..Len(stack) : n = Len(stack)
    BY AtImport
  <1>2. Top = stack[n] /\ stack[n] \in FrameSet /\ stack \in Seq(FrameSet)
        /\ stack[n].i \in 1..Len(imports[stack[n].dir])
        /\ Path = imports[stack[n].dir][stack[n].i]
    BY <1>1, AtImport DEF Top, Path
  <1>3. PICK fr : fr = [dir |-> stack[n].dir, name |-> stack[n].name, key |-> stack[n].key,
                        i |-> stack[n].i + 1]
    OBVIOUS
  <1>4. fr = [stack[n] EXCEPT !.i = @ + 1] /\ fr \in FrameSet
    BY <1>2, <1>3, SMTT(30) DEF FrameSet
  <1>5. stack' = [stack EXCEPT ![n] = fr]
    BY <1>1, <1>4 DEF Bind
  <1>6. stack' \in Seq(FrameSet) /\ Len(stack') = n /\ stack'[n] = fr
        /\ \A m \in 1..n : m < n => stack'[m] = stack[m]
    <2>1. PICK z \in Seq(FrameSet) : z = stack
      BY <1>2
    <2>2. [z EXCEPT ![n] = fr] \in Seq(FrameSet) /\ Len([z EXCEPT ![n] = fr]) = Len(z)
          /\ [z EXCEPT ![n] = fr][n] = fr
          /\ \A m \in 1..Len(z) : m # n => [z EXCEPT ![n] = fr][m] = z[m]
      BY <1>4, <2>1
    <2>3. \A m \in 1..n : m < n => m # n
      OBVIOUS
    <2> QED
      BY <1>1, <1>5, <2>1, <2>2, <2>3
  <1>7. bound' = [bound EXCEPT ![stack[n].key] = Append(@, path)]
    BY <1>2 DEF Bind
  <1>8. \A m \in 1..Len(stack) : m > n => stack[m].i = Len(imports[stack[m].dir]) + 1
    BY <1>1
  <1>9. pkgs' = [k \in DOMAIN pkgs' |-> pkgs'[k]] /\ DOMAIN pkgs' = DOMAIN pkgs
    BY DEF IInv, Marks
  <1>10. \A k \in DOMAIN pkgs : pkgs'[k] = "full" \/ \E m \in 1..n : stack[m].key = k
    BY <1>1 DEF IInv, Marks
  <1>11. stack[n].i <= Len(imports[stack[n].dir]) /\ result = "loading"
    BY <1>2 DEF Importing, Top
  <1>12. \A e \in Denotes(stack[n].dir, imports[stack[n].dir][stack[n].i]) \cap Dirs :
            \/ e \in Loaded /\ path = Key(e)
            \/ /\ Shadowed(stack[n].dir, imports[stack[n].dir][stack[n].i])
               /\ path = imports[stack[n].dir][stack[n].i]
    BY <1>2
  <1>13. \/ path \in DOMAIN pkgs \cup Builtins \cup missing_pkgs'
         \/ path \in Plugins /\ LoadPlugins
         \/ <<stack[n].key, stack[n].i>> \in errors'
    BY <1>2
  <1>14. stack' \in Seq(FrameSet) /\ Len(stack') = n
         /\ \A m \in 1..n : m < n => stack'[m] = stack[m]
    BY <1>6
  <1>15. stack'[n] = [dir |-> stack[n].dir, name |-> stack[n].name, key |-> stack[n].key,
                      i |-> stack[n].i + 1]
    BY <1>3, <1>6
  <1>16. UNCHANGED <<imports, parses, result>>
    OBVIOUS
  <1> QED
    BY <1>7, <1>8, <1>9, <1>10, <1>11, <1>12, <1>13, <1>14, <1>15, <1>16, Returned

\* An import that load_package returns on at once.
LEMMA SkipStep ==
  ASSUME LoadPackages, IInv, SkipImport
  PROVE  IInv'
  <1>1. Importing /\ Known(Path) /\ Bind(Path) /\ UNCHANGED <<imports, pkgs, missing_pkgs, parses, result>>
    BY DEF SkipImport
  <1>a. Top.dir \in Dirs /\ Top.i \in 1..Len(imports[Top.dir]) /\ Path \in Paths
    BY <1>1, AtImport
  <1>b. Path = imports[Top.dir][Top.i] /\ Path \in Seq(Names) /\ Path # <<>>
    BY <1>a, ProgramAssumption DEF Path, ProgramAssumption, IInv, Marks
  <1>m. \A p \in missing_pkgs' : NoFilesFor(p)
    BY <1>1 DEF IInv, Bounds
  <1>e. errors \subseteq errors' /\ missing_pkgs \subseteq missing_pkgs'
    BY <1>1 DEF SkipImport
  <1>p. Path \notin Builtins \cup Plugins => Denotes(Top.dir, Path) = Found(Top.dir[1], Path)
    BY <1>b, DenotesFound
  <1>2. CASE Path \in Builtins \cup Plugins
    <2>1. Denotes(Top.dir, Path) = {}
      BY <1>2 DEF Denotes
    <2>2. \/ Path \in DOMAIN pkgs \cup Builtins \cup missing_pkgs'
          \/ Path \in Plugins /\ LoadPlugins
          \/ <<Top.key, Top.i>> \in errors'
      BY <1>1, <1>2 DEF SkipImport
    <2> QED
      BY <1>1, <1>a, <1>e, <1>m, <2>1, <2>2, BindStep
  <1>3. CASE Path \notin Builtins \cup Plugins /\ Path \in DOMAIN pkgs
    <2>1. PICK x \in Loaded : Path = Key(x)
      BY <1>3 DEF IInv, Marks
    <2>2. ASSUME NEW e \in Denotes(Top.dir, Path) \cap Dirs
          PROVE  (e \in Loaded /\ Path = Key(e)) \/ (Shadowed(Top.dir, Path) /\ Path = Path)
      <3>1. e \in Denoted(imports) /\ e \in Found(Top.dir[1], Path)
        BY <1>3, <1>a, <1>b, <1>p, DenotedIn
      <3>2. CASE e = x
        BY <2>1, <3>2
      <3>3. CASE e # x
        <4>1. x[1] # Top.dir[1]
          <5>1. imports \in Programs /\ x \in Denoted(imports) /\ Key(x) = Path /\ e \in Dirs
            BY <2>1 DEF IInv, Marks, Loaded
          <5>2. PICK path \in Seq(Names) : path = Path /\ path # <<>>
            BY <1>b
          <5>3. e \in Found(Top.dir[1], path) /\ Key(x) = path /\ Top.dir \in Dirs
            BY <1>a, <3>1, <5>1, <5>2
          <5> QED
            BY <3>1, <3>3, <5>1, <5>2, <5>3, Elsewhere
        <4> QED
          BY <2>1, <4>1 DEF Shadowed
      <3> QED
        BY <3>2, <3>3
    <2> QED
      BY <1>1, <1>3, <1>a, <1>e, <1>m, <2>2, BindStep
  <1>4. CASE Path \notin Builtins \cup Plugins /\ Path \in missing_pkgs
    <2>1. PICK x \in Loaded : /\ \E j \in 1..Len(imports[x]) : imports[x][j] = Path
                             /\ Denotes(x, Path) # {} /\ Denotes(x, Path) \cap Dirs = {}
      BY <1>4 DEF IInv, Bounds, NoFilesFor
    <2>2. Denotes(x, Path) = Found(x[1], Path)
      BY <1>4, <1>b, DenotesFound
    <2>3. ASSUME NEW e \in Denotes(Top.dir, Path) \cap Dirs
          PROVE  (e \in Loaded /\ Path = Key(e)) \/ (Shadowed(Top.dir, Path) /\ Path = Path)
      <3>1. x[1] # Top.dir[1]
        BY <1>4, <1>p, <2>1, <2>2
      <3> QED
        BY <1>4, <2>1, <3>1 DEF Shadowed
    <2> QED
      BY <1>1, <1>4, <1>a, <1>e, <1>m, <2>3, BindStep
  <1> QED
    BY <1>1, <1>2, <1>3, <1>4, <1>b DEF Known

\* An import that is found nowhere, or twice.
LEMMA NotFoundStep ==
  ASSUME LoadPackages, IInv, NotFound
  PROVE  IInv'
  <1>1. Importing /\ ~Known(Path) /\ Found(Top.name, Path) = {} /\ Bind(Path)
        /\ UNCHANGED <<imports, pkgs, missing_pkgs, parses, result>>
        /\ errors' = errors \cup {<<Top.key, Top.i>>}
    BY DEF NotFound
  <1>2. Path \in Paths /\ Top.name = Top.dir[1]
    BY <1>1, AtImport
  <1>3. Denotes(Top.dir, Path) = {}
    BY <1>1, <1>2, DenotesFound DEF Known
  <1> QED
    BY <1>1, <1>2, <1>3, BindStep DEF IInv, Bounds

\* The package that an import means, when load_package goes on to find_packages.
LEMMA FoundFacts ==
  ASSUME IInv, Importing, ~Known(Path), NEW d \in Found(Top.name, Path)
  PROVE  /\ Denotes(Top.dir, Path) = {d}
         /\ d \in Dirs => d \in Reached /\ d \in Denoted(imports)
  <1>1. Top.dir \in Dirs /\ Top.dir \in Loaded /\ Top.name = Top.dir[1] /\ Top.i \in 1..Len(imports[Top.dir])
    BY AtImport
  <1>2. Denotes(Top.dir, Path) = Found(Top.name, Path)
    BY <1>1, DenotesFound DEF Known
  <1>3. Denotes(Top.dir, Path) = {d}
    BY <1>2, FoundOne
  <1>4. ASSUME d \in Dirs PROVE d \in Reached /\ d \in Denoted(imports)
    <2>1. d \in Imported(Top.dir) /\ d \in Denoted(imports)
      BY <1>1, <1>3, <1>4, DenotedIn DEF Path
    <2>2. Top.dir \in Reached
      BY <1>1 DEF IInv, Marks
    <2> QED
      BY <2>1, <2>2, ReachedLeast
  <1> QED
    BY <1>3, <1>4

\* The package is in `pkgs` already, or its directory has no files.
LEMMA FoundStep ==
  ASSUME LoadPackages, IInv, Importing, ~Known(Path), NEW d \in Found(Top.name, Path),
         AlreadyLoaded(d) \/ NoFiles(d)
  PROVE  IInv'
  <1>1. Denotes(Top.dir, Path) = {d} /\ (d \in Dirs => d \in Reached /\ d \in Denoted(imports))
    BY FoundFacts
  <1>a. Top.dir \in Loaded /\ Top.i \in 1..Len(imports[Top.dir]) /\ Path \in Paths
        /\ Path = imports[Top.dir][Top.i]
    BY AtImport DEF Path
  <1>2. CASE AlreadyLoaded(d)
    <2>1. Key(d) \in DOMAIN pkgs /\ Bind(Key(d)) /\ UNCHANGED <<imports, pkgs, missing_pkgs, parses, errors, result>>
      BY <1>2 DEF AlreadyLoaded
    <2>2. Key(d) \in Paths
      BY <2>1, FrameFacts DEF Paths
    <2>3. \A e \in Denotes(Top.dir, Path) \cap Dirs : e \in Loaded /\ Key(d) = Key(e)
      BY <1>1, <2>1 DEF Loaded
    <2> QED
      BY <2>1, <2>2, <2>3, BindStep DEF IInv, Bounds
  <1>3. CASE NoFiles(d)
    <2>1. d \notin Dirs /\ Bind(Path) /\ missing_pkgs' = missing_pkgs \cup {Path}
          /\ UNCHANGED <<imports, pkgs, parses, errors, result>>
      BY <1>3 DEF NoFiles
    <2>2. \A p \in missing_pkgs' : NoFilesFor(p)
      <3>1. NoFilesFor(Path)
        BY <1>1, <1>a, <2>1 DEF NoFilesFor
      <3>2. \A p \in missing_pkgs : NoFilesFor(p)
        BY DEF IInv, Bounds
      <3> QED
        BY <2>1, <3>1, <3>2
    <2>3. \A e \in Denotes(Top.dir, Path) \cap Dirs : e \in Loaded /\ Path = Key(e)
      BY <1>1, <2>1
    <2>4. Path \in missing_pkgs'
      BY <2>1
    <2> QED
      BY <1>a, <2>1, <2>2, <2>3, <2>4, BindStep
  <1> QED
    BY <1>2, <1>3

\* An unreadable file ends the load with an error, and it is reachable.
LEMMA ReadFailsStep ==
  ASSUME LoadPackages, IInv, Importing, ~Known(Path), NEW d \in Found(Top.name, Path), ReadFails(d)
  PROVE  IInv'
  <1>1. d \in Unreadable /\ result' = "err"
        /\ UNCHANGED <<imports, pkgs, missing_pkgs, stack, bound, parses, errors>>
    BY DEF ReadFails
  <1>2. d \in Dirs
    BY <1>1, ModuleAssumption DEF ModuleAssumption
  <1>3. d \in Reached
    BY <1>2, FoundFacts
  <1>f. Loaded' = Loaded /\ Reached' = Reached /\ Paths' = Paths
    BY <1>1, ReachedSame
  <1>5. Calls'
    <2>1. ASSUME NEW n \in 1..Len(stack) PROVE FrameOK(stack[n])'
      BY <1>1, <1>f DEF IInv, Calls, FrameOK
    <2>2. \A n \in 1..Len(stack') : FrameOK(stack[n])'
      BY <1>1, <2>1
    <2>3. stack' \in Seq(FrameSet)
          /\ \A m, n \in 1..Len(stack') : m # n => stack'[m].key # stack'[n].key
      BY <1>1 DEF IInv, Calls
    <2>4. \A n \in 1..Len(stack') : n < Len(stack') =>
             /\ stack'[n].i <= Len(imports'[stack'[n].dir])
             /\ Denotes(stack'[n].dir, imports'[stack'[n].dir][stack'[n].i]) = {stack'[n + 1].dir}
      BY <1>1 DEF IInv, Calls
    <2>5. /\ Len(stack') >= 1 => stack'[1].dir = Main
          /\ result' \in {"loading", "ok", "err"}
          /\ result' = "ok" => stack' = <<>>
          /\ result' = "err" => Reached' \cap Unreadable # {}
      BY <1>1, <1>3, <1>f DEF IInv, Calls
    <2> QED
      BY <2>2, <2>3, <2>4, <2>5 DEF Calls
  <1>6. Marks'
    BY <1>1, <1>f DEF IInv, Marks
  <1>7. /\ \A e, i : Handled(e, i)' <=> Handled(e, i)
        /\ \A p : NoFilesFor(p)' <=> NoFilesFor(p)
    BY <1>1, <1>f DEF Handled, Shadowed, NoFilesFor
  <1>8. Bounds'
    BY <1>1, <1>7, <1>f DEF IInv, Bounds
  <1> QED
    BY <1>5, <1>6, <1>8 DEF IInv

\* A package is entered: it was not in `pkgs`, so it is not being loaded either.
LEMMA EnterStep ==
  ASSUME LoadPackages, IInv, Importing, ~Known(Path), NEW d \in Found(Top.name, Path), EnterPackage(d)
  PROVE  IInv'
  <1>1. Key(d) \notin DOMAIN pkgs /\ d \in Dirs \ Unreadable
        /\ parses' = [parses EXCEPT ![Key(d)] = @ + 1]
        /\ pkgs' = [k \in DOMAIN pkgs \cup {Key(d)} |-> IF k = Key(d) THEN "empty" ELSE pkgs[k]]
        /\ stack' = Append(stack, Frame(d))
        /\ UNCHANGED <<imports, missing_pkgs, bound, errors, result>>
    BY DEF EnterPackage
  <1>2. Denotes(Top.dir, Path) = {d} /\ d \in Reached /\ d \in Denoted(imports) /\ Key(d) \in Keys
    BY <1>1, FoundFacts DEF Keys
  <1>3. DOMAIN pkgs' = DOMAIN pkgs \cup {Key(d)} /\ pkgs'[Key(d)] = "empty"
        /\ \A k \in DOMAIN pkgs : pkgs'[k] = pkgs[k]
    BY <1>1
  <1>f. Reached' = Reached /\ Paths' = Paths
    BY <1>1, ReachedSame
  <1>k. /\ \A e, p : Shadowed(e, p) => Shadowed(e, p)'
        /\ \A p : NoFilesFor(p) => NoFilesFor(p)'
    BY <1>1, <1>3, ShadowKept
  <1>4. Loaded' = Loaded \cup {d}
    <2>1. \A e \in Denoted(imports) : Key(e) = Key(d) => e = d
      BY <1>2, OneKey DEF IInv, Marks
    <2> QED
      BY <1>1, <1>2, <1>3, <2>1 DEF Loaded
  <1>l. Len(imports[d]) \in Nat /\ Len(stack) \in Nat /\ Len(stack) \in 1..Len(stack)
    BY <1>1, FrameFacts, AtImport
  <1>5. Frame(d) \in FrameSet /\ Frame(d).dir = d /\ Frame(d).name = d[1] /\ Frame(d).key = Key(d)
        /\ Frame(d).i = 1
    BY <1>1, <1>2 DEF Frame, FrameSet
  <1>6. stack' \in Seq(FrameSet) /\ Len(stack') = Len(stack) + 1 /\ stack'[Len(stack) + 1] = Frame(d)
        /\ \A n \in 1..Len(stack) : stack'[n] = stack[n]
    BY <1>1, <1>5 DEF IInv, Calls
  <1>7. \A n \in 1..Len(stack') : n \in 1..Len(stack) \/ n = Len(stack) + 1
    BY <1>6, <1>l
  <1>8. \A n \in 1..Len(stack) : n \in 1..Len(stack') /\ stack[n].key # Key(d)
    BY <1>1, <1>6, <1>l, FrameFacts
  <1>9. Calls'
    <2>1. ASSUME NEW n \in 1..Len(stack') PROVE FrameOK(stack[n])'
      <3>1. CASE n \in 1..Len(stack)
        BY <1>1, <1>4, <1>6, <3>1 DEF IInv, Calls, FrameOK
      <3>2. CASE n = Len(stack) + 1
        BY <1>1, <1>4, <1>5, <1>6, <1>l, <3>2 DEF FrameOK
      <3> QED
        BY <1>7, <3>1, <3>2
    <2>2. \A m, n \in 1..Len(stack') : m # n => stack'[m].key # stack'[n].key
      BY <1>5, <1>6, <1>7, <1>8 DEF IInv, Calls
    <2>3. ASSUME NEW n \in 1..Len(stack'), n < Len(stack')
          PROVE  /\ stack'[n].i <= Len(imports'[stack'[n].dir])
                 /\ Denotes(stack'[n].dir, imports'[stack'[n].dir][stack'[n].i]) = {stack'[n + 1].dir}
      <3>0. n \in 1..Len(stack) /\ stack'[n] = stack[n]
        BY <1>6, <1>l, <2>3
      <3>1. CASE n < Len(stack)
        <4>1. n + 1 \in 1..Len(stack)
          BY <1>l, <3>0, <3>1
        <4> QED
          BY <1>1, <1>6, <3>0, <3>1, <4>1 DEF IInv, Calls
      <3>2. CASE n = Len(stack)
        BY <1>1, <1>2, <1>5, <1>6, <3>0, <3>2 DEF Path, Top, Importing
      <3> QED
        BY <1>l, <3>0, <3>1, <3>2
    <2>4. stack'[1].dir = Main
      BY <1>6, <1>l DEF IInv, Calls
    <2> QED
      BY <1>1, <1>6, <1>f, <2>1, <2>2, <2>3, <2>4 DEF IInv, Calls, Importing
  <1>10. Marks'
    <2>1. pkgs' = [k \in DOMAIN pkgs' |-> pkgs'[k]]
      BY <1>1
    <2>2. DOMAIN pkgs' = {Key(e) : e \in Loaded'}
      BY <1>3, <1>4 DEF IInv, Marks
    <2>3. Main \in Loaded' /\ Loaded' \subseteq Reached' /\ Loaded' \cap Unreadable = {}
      BY <1>1, <1>2, <1>4, <1>f DEF IInv, Marks
    <2>4. ASSUME NEW k \in DOMAIN pkgs'
          PROVE  pkgs'[k] = "full" \/ \E n \in 1..Len(stack') : stack'[n].key = k
      <3>1. CASE k = Key(d)
        <4>1. Len(stack) + 1 \in 1..Len(stack')
          BY <1>6, <1>l
        <4> QED
          BY <1>5, <1>6, <3>1, <4>1
      <3>2. CASE k # Key(d)
        BY <1>3, <1>6, <1>8, <3>2 DEF IInv, Marks
      <3> QED
        BY <3>1, <3>2
    <2>5. parses' = [k \in Keys |-> IF k \in DOMAIN pkgs' THEN 1 ELSE 0]
      <3>1. parses = [k \in Keys |-> IF k \in DOMAIN pkgs THEN 1 ELSE 0]
        BY DEF IInv, Marks
      <3>2. parses[Key(d)] = 0 /\ 0 + 1 = 1
        BY <1>1, <1>2, <3>1
      <3>3. parses' = [parses EXCEPT ![Key(d)] = 1]
        BY <1>1, <3>2
      <3> QED
        BY <1>2, <1>3, <3>1, <3>3
    <2> QED
      BY <1>1, <2>1, <2>2, <2>3, <2>4, <2>5 DEF IInv, Marks
  <1>11. Bounds'
    <2>0. bound[Key(d)] = <<>> /\ Len(bound[Key(d)]) = 0
      BY <1>1, <1>2 DEF IInv, Bounds
    <2>1. bound' \in [Keys -> Seq(Paths')]
      BY <1>1, <1>f DEF IInv, Bounds
    <2>2. \A k \in Keys : k \notin DOMAIN pkgs' => bound'[k] = <<>>
      BY <1>1, <1>3 DEF IInv, Bounds
    <2>3. \A n \in 1..Len(stack') : Len(bound'[stack'[n].key]) = stack'[n].i - 1
      BY <1>1, <1>5, <1>6, <1>7, <2>0 DEF IInv, Bounds
    <2>4. \A e \in Loaded' : \/ \E n \in 1..Len(stack') : stack'[n].key = Key(e)
                           \/ Len(bound'[Key(e)]) = Len(imports'[e])
      <3>1. Len(stack) + 1 \in 1..Len(stack')
        BY <1>6, <1>l
      <3>2. \E n \in 1..Len(stack') : stack'[n].key = Key(d)
        BY <1>5, <1>6, <3>1
      <3> QED
        BY <1>1, <1>4, <1>6, <1>8, <3>2 DEF IInv, Bounds
    <2>5. ASSUME NEW e \in Loaded', NEW i \in 1..Len(bound'[Key(e)]) PROVE Handled(e, i)'
      <3>1. e # d /\ e \in Loaded /\ i \in 1..Len(bound[Key(e)])
        BY <1>1, <1>4, <2>0
      <3>2. Handled(e, i)
        BY <3>1 DEF IInv, Bounds
      <3> QED
        BY <1>1, <1>3, <1>4, <1>k, <3>2 DEF Handled
    <2>6. \A p \in missing_pkgs' : NoFilesFor(p)'
      BY <1>1, <1>k DEF IInv, Bounds
    <2> QED
      BY <2>1, <2>2, <2>3, <2>4, <2>5, <2>6 DEF Bounds
  <1> QED
    BY <1>9, <1>10, <1>11 DEF IInv

\* A package is complete and its caller's import is bound to it.
LEMMA LeaveStep ==
  ASSUME LoadPackages, IInv, LeavePackage
  PROVE  IInv'
  <1>1. result = "loading" /\ Len(stack) > 1 /\ Top.i > Len(imports[Top.dir]) /\ pkgs' = Filled
        /\ bound' = [bound EXCEPT ![stack[Len(stack) - 1].key] = Append(@, Top.key)]
        /\ stack' = [SubSeq(stack, 1, Len(stack) - 1) EXCEPT ![Len(stack) - 1].i = @ + 1]
        /\ UNCHANGED <<imports, missing_pkgs, parses, errors, result>>
    BY DEF LeavePackage
  <1>2. Len(stack) \in Nat /\ stack \in Seq(FrameSet)
    BY FrameFacts DEF IInv, Calls
  <1>3. PICK n \in 1..Len(stack) : n = Len(stack) - 1
    BY <1>1, <1>2
  <1>4. n \in Nat /\ n < Len(stack) /\ n + 1 = Len(stack) /\ Len(stack) \in 1..Len(stack)
    BY <1>1, <1>2, <1>3
  <1>5. Top = stack[n + 1] /\ Top.key = Key(Top.dir) /\ Top.dir \in Loaded /\ Top.dir \in Dirs
        /\ Top.key \in DOMAIN pkgs /\ Top.key \in Keys
    BY <1>4, FrameFacts DEF Top
  <1>6. stack[n].i <= Len(imports[stack[n].dir])
        /\ Denotes(stack[n].dir, imports[stack[n].dir][stack[n].i]) = {Top.dir}
    BY <1>4, <1>5 DEF IInv, Calls
  <1>7. Top.i = Len(imports[Top.dir]) + 1
    <2>1. FrameOK(Top) /\ Top.i \in Nat /\ Len(imports[Top.dir]) \in Nat
      BY <1>4, FrameFacts DEF Top
    <2> QED
      BY <1>1, <2>1 DEF FrameOK
  <1>8. \A m \in 1..Len(stack) : m > n => stack[m].i = Len(imports[stack[m].dir]) + 1
    <2>1. \A m \in 1..Len(stack) : m > n => m = n + 1
      BY <1>4
    <2> QED
      BY <1>5, <1>7, <2>1
  <1>9. DOMAIN pkgs' = DOMAIN pkgs /\ pkgs' = [k \in DOMAIN pkgs' |-> pkgs'[k]]
        /\ \A k \in DOMAIN pkgs : pkgs'[k] = IF k = Top.key THEN "full" ELSE pkgs[k]
    BY <1>1 DEF Filled
  <1>10. ASSUME NEW k \in DOMAIN pkgs PROVE pkgs'[k] = "full" \/ \E m \in 1..n : stack[m].key = k
    <2>1. CASE k = Top.key
      BY <1>9, <2>1
    <2>2. CASE k # Top.key
      <3>1. pkgs[k] = "full" \/ \E m \in 1..Len(stack) : stack[m].key = k
        BY DEF IInv, Marks
      <3>2. \A m \in 1..Len(stack) : stack[m].key = k => m \in 1..n
        <4>1. \A m \in 1..Len(stack) : m \in 1..n \/ m = n + 1
          BY <1>4
        <4> QED
          BY <1>5, <2>2, <4>1
      <3> QED
        BY <1>9, <2>2, <3>1, <3>2
    <2> QED
      BY <2>1, <2>2
  <1>11. PICK fr : fr = [dir |-> stack[n].dir, name |-> stack[n].name, key |-> stack[n].key,
                         i |-> stack[n].i + 1]
    OBVIOUS
  <1>12. stack[n] \in FrameSet
    BY <1>2
  <1>13. fr = [stack[n] EXCEPT !.i = @ + 1] /\ fr \in FrameSet
    BY <1>11, <1>12 DEF FrameSet
  <1>14. PICK z \in Seq(FrameSet) : z = SubSeq(stack, 1, n) /\ Len(z) = n
                                    /\ \A m \in 1..n : z[m] = stack[m]
    <2>1. SubSeq(stack, 1, n) \in Seq(FrameSet) /\ Len(SubSeq(stack, 1, n)) = n
          /\ \A m \in 1..n : SubSeq(stack, 1, n)[m] = stack[m]
      BY <1>2, <1>4
    <2> QED
      BY <2>1
  <1>15. n \in 1..n
    BY <1>3
  <1>16. stack' = [z EXCEPT ![n] = fr]
    BY <1>1, <1>3, <1>13, <1>14, <1>15
  <1>17. stack' \in Seq(FrameSet) /\ Len(stack') = n /\ stack'[n] = fr
         /\ \A m \in 1..n : m < n => stack'[m] = stack[m]
    <2>1. n \in 1..Len(z)
      BY <1>14, <1>15
    <2>2. [z EXCEPT ![n] = fr] \in Seq(FrameSet) /\ Len([z EXCEPT ![n] = fr]) = Len(z)
          /\ [z EXCEPT ![n] = fr][n] = fr
          /\ \A m \in 1..Len(z) : m # n => [z EXCEPT ![n] = fr][m] = z[m]
      BY <1>13, <2>1
    <2>3. \A m \in 1..n : m < n => m # n
      BY <1>4
    <2> QED
      BY <1>14, <1>16, <2>2, <2>3
  <1>18. Top.key \in Paths
    BY <1>5 DEF Paths
  <1>19. PICK path \in Paths : path = Top.key
    BY <1>18
  <1>20. bound' = [bound EXCEPT ![stack[n].key] = Append(@, path)]
    BY <1>1, <1>3, <1>19
  <1>21. \A e \in Denotes(stack[n].dir, imports[stack[n].dir][stack[n].i]) \cap Dirs :
            \/ e \in Loaded /\ path = Key(e)
            \/ /\ Shadowed(stack[n].dir, imports[stack[n].dir][stack[n].i])
               /\ path = imports[stack[n].dir][stack[n].i]
    BY <1>5, <1>6, <1>19
  <1>22. \A p \in missing_pkgs' : NoFilesFor(p)
    BY <1>1 DEF IInv, Bounds
  <1>23. missing_pkgs \subseteq missing_pkgs' /\ errors \subseteq errors'
         /\ path \in DOMAIN pkgs \cup Builtins \cup missing_pkgs' /\ UNCHANGED <<imports, parses, result>>
    BY <1>1, <1>5, <1>19
  <1>24. stack'[n] = [dir |-> stack[n].dir, name |-> stack[n].name, key |-> stack[n].key,
                      i |-> stack[n].i + 1]
    BY <1>11, <1>17
  <1>25. result = "loading" /\ path \in Paths
    BY <1>1
  <1>26. stack[n].i <= Len(imports[stack[n].dir])
    BY <1>6
  <1>27. DOMAIN pkgs' = DOMAIN pkgs /\ pkgs' = [k \in DOMAIN pkgs' |-> pkgs'[k]]
    BY <1>9
  <1>28. \A k \in DOMAIN pkgs : pkgs'[k] = "full" \/ \E m \in 1..n : stack[m].key = k
    BY <1>10
  <1>29. stack' \in Seq(FrameSet) /\ Len(stack') = n
         /\ \A m \in 1..n : m < n => stack'[m] = stack[m]
    BY <1>17
  <1> QED
    BY <1>8, <1>20, <1>21, <1>22, <1>23, <1>24, <1>25, <1>26, <1>27, <1>28, <1>29, Returned

\* The main package is complete.
LEMMA LeaveMainStep ==
  ASSUME LoadPackages, IInv, LeaveMain
  PROVE  IInv'
  <1>1. result = "loading" /\ Len(stack) = 1 /\ Top.i > Len(imports[Top.dir]) /\ pkgs' = Filled
        /\ stack' = <<>> /\ result' = "ok" /\ UNCHANGED <<imports, missing_pkgs, bound, parses, errors>>
    BY DEF LeaveMain
  <1>2. 1 \in 1..Len(stack) /\ Top = stack[1] /\ \A n \in 1..Len(stack) : n = 1
    BY <1>1 DEF Top
  <1>3. Top.key = Key(Top.dir) /\ Top.dir \in Loaded /\ Top.i = Len(imports[Top.dir]) + 1
        /\ Len(imports[Top.dir]) \in Nat
    <2>1. FrameOK(Top) /\ Top.i \in Nat /\ Len(imports[Top.dir]) \in Nat
      BY <1>2, FrameFacts
    <2> QED
      BY <1>1, <2>1 DEF FrameOK
  <1>4. DOMAIN pkgs' = DOMAIN pkgs /\ pkgs' = [k \in DOMAIN pkgs' |-> pkgs'[k]]
        /\ \A k \in DOMAIN pkgs : pkgs'[k] = "full"
    <2>1. DOMAIN pkgs' = DOMAIN pkgs /\ pkgs' = [k \in DOMAIN pkgs' |-> pkgs'[k]]
          /\ \A k \in DOMAIN pkgs : pkgs'[k] = IF k = Top.key THEN "full" ELSE pkgs[k]
      BY <1>1 DEF Filled
    <2>2. \A k \in DOMAIN pkgs : pkgs[k] = "full" \/ k = Top.key
      BY <1>2 DEF IInv, Marks
    <2> QED
      BY <2>1, <2>2
  <1>f. Loaded' = Loaded /\ Reached' = Reached /\ Paths' = Paths
    BY <1>1, <1>4, ReachedSame
  <1>5. Len(stack') = 0 /\ stack' \in Seq(FrameSet) /\ \A n \in 1..Len(stack') : FALSE
    BY <1>1
  <1>6. Calls'
    BY <1>1, <1>5 DEF Calls
  <1>7. Marks'
    BY <1>1, <1>4, <1>f DEF IInv, Marks
  <1>8. Bounds'
    <2>1. ASSUME NEW d \in Loaded PROVE Len(bound[Key(d)]) = Len(imports[d])
      <3>1. CASE Key(d) = Top.key
        <4>1. d = Top.dir
          BY <1>3, <3>1, KeyOnce DEF Loaded
        <4>2. Len(bound[Top.key]) = Top.i - 1
          BY <1>2 DEF IInv, Bounds
        <4> QED
          BY <1>3, <4>1, <4>2
      <3>2. CASE Key(d) # Top.key
        BY <1>2, <3>2 DEF IInv, Bounds
      <3> QED
        BY <3>1, <3>2
    <2>2. /\ \A d, i : Handled(d, i)' <=> Handled(d, i)
          /\ \A p : NoFilesFor(p)' <=> NoFilesFor(p)
      BY <1>1, <1>4, <1>f DEF Handled, Shadowed, NoFilesFor
    <2>3. \A k \in Keys : k \notin DOMAIN pkgs' => bound'[k] = <<>>
      BY <1>1, <1>4 DEF IInv, Bounds
    <2>4. bound' \in [Keys -> Seq(Paths')]
      BY <1>1, <1>f DEF IInv, Bounds
    <2>5. \A d \in Loaded' : \A i \in 1..Len(bound'[Key(d)]) : Handled(d, i)'
      BY <1>1, <1>f, <2>2 DEF IInv, Bounds
    <2>6. \A p \in missing_pkgs' : NoFilesFor(p)'
      BY <1>1, <2>2 DEF IInv, Bounds
    <2> QED
      BY <1>1, <1>5, <1>f, <2>1, <2>3, <2>4, <2>5, <2>6 DEF Bounds
  <1> QED
    BY <1>6, <1>7, <1>8 DEF IInv

\* The main package alone is in `pkgs` and on the stack.
LEMMA InvInit ==
  ASSUME LoadPackages, Init
  PROVE  IInv
  <1>1. Main \in Dirs \ Unreadable /\ Main \in Denoted(imports) /\ Key(Main) = <<MAIN_PKG>>
    BY ModuleAssumption DEF ModuleAssumption, Main, Denoted, Key
  <1>2. imports \in Programs /\ pkgs = [k \in {Key(Main)} |-> "empty"] /\ stack = <<Frame(Main)>>
        /\ bound = [k \in Keys |-> <<>>] /\ missing_pkgs = {} /\ result = "loading"
        /\ parses = [k \in Keys |-> IF k = Key(Main) THEN 1 ELSE 0]
    BY <1>1 DEF Init, Main
  <1>3. Loaded = {Main} /\ DOMAIN pkgs = {Key(Main)}
    <2>1. \A e \in Denoted(imports) : Key(e) = Key(Main) => e = Main
      BY <1>1, <1>2, OneKey
    <2> QED
      BY <1>1, <1>2, <2>1 DEF Loaded
  <1>4. Frame(Main) \in FrameSet /\ Frame(Main).dir = Main /\ Frame(Main).name = Main[1]
        /\ Frame(Main).key = Key(Main) /\ Frame(Main).i = 1
    BY <1>1 DEF Frame, FrameSet, Keys
  <1>5. stack \in Seq(FrameSet) /\ Len(stack) = 1 /\ stack[1] = Frame(Main) /\ 1 \in 1..Len(stack)
        /\ \A n \in 1..Len(stack) : n = 1
    BY <1>2, <1>4
  <1>6. Len(imports[Main]) \in Nat
    BY <1>1, <1>2, ProgramAssumption DEF ProgramAssumption
  <1>7. Calls
    <2>1. FrameOK(stack[1])
      BY <1>3, <1>4, <1>5, <1>6 DEF FrameOK
    <2> QED
      BY <1>2, <1>4, <1>5, <2>1 DEF Calls
  <1>8. Marks
    <2>1. pkgs = [k \in DOMAIN pkgs |-> pkgs[k]]
      BY <1>2
    <2>2. \A k \in DOMAIN pkgs : \E n \in 1..Len(stack) : stack[n].key = k
      BY <1>3, <1>4, <1>5
    <2>3. DOMAIN pkgs = {Key(d) : d \in Loaded}
      BY <1>3
    <2>4. parses = [k \in Keys |-> IF k \in DOMAIN pkgs THEN 1 ELSE 0]
      BY <1>2, <1>3
    <2> QED
      BY <1>1, <1>2, <1>3, <2>1, <2>2, <2>3, <2>4, ReachedLeast DEF Marks
  <1>9. Bounds
    <2>1. \A k \in Keys : bound[k] = <<>> /\ Len(bound[k]) = 0
      BY <1>2
    <2>2. bound \in [Keys -> Seq(Paths)]
      BY <1>2
    <2>3. Key(Main) \in Keys
      BY <1>1 DEF Keys
    <2>4. \A n \in 1..Len(stack) : Len(bound[stack[n].key]) = stack[n].i - 1
      BY <1>4, <1>5, <2>1, <2>3
    <2>5. \A d \in Loaded : \E n \in 1..Len(stack) : stack[n].key = Key(d)
      BY <1>3, <1>4, <1>5
    <2>6. \A d \in Loaded : \A i \in 1..Len(bound[Key(d)]) : Handled(d, i)
      BY <1>3, <2>1, <2>3
    <2> QED
      BY <1>2, <2>1, <2>2, <2>4, <2>5, <2>6 DEF Bounds
  <1> QED
    BY <1>7, <1>8, <1>9 DEF IInv

\* Every step keeps the invariant.
LEMMA InvStep ==
  ASSUME LoadPackages, IInv, [Next]_vars
  PROVE  IInv'
  <1>1. CASE LoadPackage
    <2>1. PICK d \in Found(Top.name, Path) :
             AlreadyLoaded(d) \/ NoFiles(d) \/ EnterPackage(d) \/ ReadFails(d)
      BY <1>1 DEF LoadPackage
    <2>2. Importing /\ ~Known(Path)
      BY <1>1 DEF LoadPackage
    <2> QED
      BY <2>1, <2>2, FoundStep, EnterStep, ReadFailsStep
  <1>2. CASE UNCHANGED vars
    <2>1. UNCHANGED <<imports, pkgs, missing_pkgs, stack, bound, parses, errors, result>>
      BY <1>2 DEF vars
    <2>f. Loaded' = Loaded /\ Reached' = Reached /\ Paths' = Paths
      BY <2>1, ReachedSame
    <2>2. ASSUME NEW n \in 1..Len(stack) PROVE FrameOK(stack[n])'
      BY <2>1, <2>f DEF IInv, Calls, FrameOK
    <2>3. Calls'
      <3>1. \A n \in 1..Len(stack') : FrameOK(stack[n])'
        BY <2>1, <2>2
      <3>2. stack' \in Seq(FrameSet)
            /\ \A m, n \in 1..Len(stack') : m # n => stack'[m].key # stack'[n].key
        BY <2>1 DEF IInv, Calls
      <3>3. \A n \in 1..Len(stack') : n < Len(stack') =>
               /\ stack'[n].i <= Len(imports'[stack'[n].dir])
               /\ Denotes(stack'[n].dir, imports'[stack'[n].dir][stack'[n].i]) = {stack'[n + 1].dir}
        BY <2>1 DEF IInv, Calls
      <3>4. /\ Len(stack') >= 1 => stack'[1].dir = Main
            /\ result' \in {"loading", "ok", "err"}
            /\ result' = "ok" => stack' = <<>>
            /\ result' = "err" => Reached' \cap Unreadable # {}
        BY <2>1, <2>f DEF IInv, Calls
      <3> QED
        BY <3>1, <3>2, <3>3, <3>4 DEF Calls
    <2>4. Marks'
      BY <2>1, <2>f DEF IInv, Marks
    <2>5. /\ \A e, i : Handled(e, i)' <=> Handled(e, i)
          /\ \A p : NoFilesFor(p)' <=> NoFilesFor(p)
      BY <2>1, <2>f DEF Handled, Shadowed, NoFilesFor
    <2>6. Bounds'
      BY <2>1, <2>5, <2>f DEF IInv, Bounds
    <2> QED
      BY <2>3, <2>4, <2>6 DEF IInv
  <1> QED
    BY <1>1, <1>2, SkipStep, NotFoundStep, LeaveStep, LeaveMainStep DEF Next

----------------------------------------------------------------------------
(* Theorems. *)

\* When the load is over, every import of a package that was loaded is dealt with.
LEMMA LoadedFacts ==
  ASSUME IInv, result = "ok"
  PROVE  \A d \in Loaded : \A i \in 1..Len(imports[d]) : Handled(d, i)
  <1>1. stack = <<>> /\ \A n \in 1..Len(stack) : FALSE
    BY DEF IInv, Calls
  <1> QED
    BY <1>1 DEF IInv, Bounds

\* With load_packages on, whatever the directories and cycles of imports:
\* load_program parses every package that its packages import, but for shadowed
\* imports, each once and nothing that is not reachable, fails only for a
\* reachable file that cannot be read, and drops no import without a trace.
THEOREM Loads ==
  ASSUME LoadPackages
  PROVE  Spec => []LoadsExactly
  <1>1. Init => IInv
    BY InvInit
  <1>2. IInv /\ [Next]_vars => IInv'
    BY InvStep
  <1>3. IInv => LoadsExactly
    <2> SUFFICES ASSUME IInv PROVE LoadsExactly
      OBVIOUS
    <2>1. ParsedOnce
      BY DEF IInv, Marks, ParsedOnce
    <2>2. ASSUME result = "ok"
          PROVE  /\ <<MAIN_PKG, <<>>>> \in Loaded
                 /\ Loaded \subseteq Reached \ Unreadable
                 /\ DOMAIN pkgs = {Key(d) : d \in Loaded}
                 /\ \A k \in DOMAIN pkgs : pkgs[k] = "full"
                 /\ \A d \in Loaded : \A i \in 1..Len(imports[d]) :
                       Shadowed(d, imports[d][i]) \/ Denotes(d, imports[d][i]) \cap Dirs \subseteq Loaded
      <3>1. \A n \in 1..Len(stack) : FALSE
        BY <2>2 DEF IInv, Calls
      <3>2. \A d \in Loaded : \A i \in 1..Len(imports[d]) :
               Shadowed(d, imports[d][i]) \/ Denotes(d, imports[d][i]) \cap Dirs \subseteq Loaded
        BY <2>2, LoadedFacts DEF Handled
      <3> QED
        BY <3>1, <3>2 DEF IInv, Marks, Main
    <2>3. result = "err" => Reached \cap Unreadable # {}
      BY DEF IInv, Calls
    <2>4. EveryImportAccounted
      BY LoadedFacts DEF EveryImportAccounted, Handled
    <2> QED
      BY <2>1, <2>2, <2>3, <2>4 DEF LoadsExactly, LoadsReachable
  <1> QED
    BY <1>1, <1>2, <1>3, PTL DEF Spec

\* Every import statement of the loaded program that means a package is left with
\* the key of that package, in whatever order packages that share it were loaded;
\* the only exception is a path that another module has made known, as a package
\* of its own or as a directory without files, and it is left as written.
THEOREM Binds ==
  ASSUME LoadPackages
  PROVE  Spec => []BindsMeaning
  <1>1. Init => IInv
    BY InvInit
  <1>2. IInv /\ [Next]_vars => IInv'
    BY InvStep
  <1>3. IInv => BindsMeaning
    BY LoadedFacts DEF BindsMeaning, Handled
  <1> QED
    BY <1>1, <1>2, <1>3, PTL DEF Spec

----------------------------------------------------------------------------
(* The recursion makes progress. *)

\* Nothing is undone while packages stay in `pkgs` and imports stay bound.
LEMMA Kept ==
  ASSUME \A k \in DOMAIN pkgs : k \in DOMAIN pkgs' /\ Len(bound[k]) \in Nat
                                /\ Len(bound'[k]) \in Nat /\ Len(bound[k]) <= Len(bound'[k]),
         result # "loading" => result' # "loading"
  PROVE  Achieved \subseteq Achieved'
  <1> SUFFICES ASSUME NEW x \in Achieved PROVE x \in Achieved'
    OBVIOUS
  <1>1. CASE x \in UNION {{k} \X (0..Len(bound[k])) : k \in DOMAIN pkgs}
    <2>1. PICK k \in DOMAIN pkgs : x \in {k} \X (0..Len(bound[k]))
      BY <1>1
    <2>2. 0..Len(bound[k]) \subseteq 0..Len(bound'[k])
      OBVIOUS
    <2>3. x \in {k} \X (0..Len(bound'[k]))
      BY <2>1, <2>2
    <2> QED BY <2>3 DEF Achieved
  <1>2. CASE x = Ended /\ result # "loading"
    <2>1. x = Ended' /\ result' # "loading"
      BY <1>2 DEF Ended
    <2> QED BY <2>1 DEF Achieved
  <1> QED BY <1>1, <1>2 DEF Achieved

\* What is achieved of a package, and of the whole.
LEMMA AchievedOf ==
  ASSUME NEW k, NEW n \in Nat
  PROVE  /\ <<k, n>> \in Achieved <=> k \in DOMAIN pkgs /\ n \in 0..Len(bound[k])
         /\ Ended \in Achieved <=> result # "loading"
         /\ (<<k, n>> \in Achieved)' <=> k \in DOMAIN pkgs' /\ n \in 0..Len(bound'[k])
         /\ (Ended \in Achieved)' <=> result' # "loading"
  <1>1. <<k, n>> # Ended /\ \A j : \A m \in Nat : Ended # <<j, m>>
    BY DEF Ended
  <1>2. /\ <<k, n>> \in Achieved <=> k \in DOMAIN pkgs /\ n \in 0..Len(bound[k])
        /\ Ended \in Achieved <=> result # "loading"
    <2> DEFINE U == UNION {{j} \X (0..Len(bound[j])) : j \in DOMAIN pkgs}
    <2>1. Ended \notin U
      BY <1>1
    <2>2. <<k, n>> \in U <=> k \in DOMAIN pkgs /\ n \in 0..Len(bound[k])
      OBVIOUS
    <2>3. Achieved = U \cup (IF result = "loading" THEN {} ELSE {Ended})
      BY DEF Achieved
    <2> HIDE DEF U
    <2> QED BY <1>1, <2>1, <2>2, <2>3
  <1>3. /\ (<<k, n>> \in Achieved)' <=> k \in DOMAIN pkgs' /\ n \in 0..Len(bound'[k])
        /\ (Ended \in Achieved)' <=> result' # "loading"
    <2> DEFINE U == UNION {{j} \X (0..Len(bound'[j])) : j \in DOMAIN pkgs'}
    <2>1. Ended \notin U
      BY <1>1
    <2>2. <<k, n>> \in U <=> k \in DOMAIN pkgs' /\ n \in 0..Len(bound'[k])
      OBVIOUS
    <2>3. Achieved' = U \cup (IF result' = "loading" THEN {} ELSE {Ended})
      BY DEF Achieved, Ended
    <2> HIDE DEF U
    <2> QED BY <1>1, <2>1, <2>2, <2>3 DEF Ended
  <1> QED BY <1>2, <1>3

\* The imports dealt with are imports of the package.
LEMMA WithinText ==
  ASSUME LoadPackages, IInv
  PROVE  Achieved \subseteq Achievable
  <1> SUFFICES ASSUME NEW k \in DOMAIN pkgs, NEW n \in 0..Len(bound[k]) PROVE <<k, n>> \in Achievable
    BY DEF Achieved, Achievable
  <1>1. PICK d \in Loaded : k = Key(d)
    BY DEF IInv, Marks
  <1>2. d \in Dirs /\ Len(imports[d]) \in Nat /\ Key(d) \in Keys
    BY FrameFacts
  <1>3. Len(bound[k]) \in Nat
    BY <1>1, <1>2 DEF IInv, Bounds
  <1>4. Len(bound[k]) <= Len(imports[d])
    <2>1. CASE \E m \in 1..Len(stack) : stack[m].key = Key(d)
      <3>1. PICK m \in 1..Len(stack) : stack[m].key = Key(d)
        BY <2>1
      <3>2. FrameOK(stack[m]) /\ stack[m].i \in Nat /\ stack[m].dir \in Loaded
        BY FrameFacts
      <3>3. stack[m].dir = d
        BY <3>1, <3>2, KeyOnce DEF FrameOK, Loaded
      <3>4. Len(bound[k]) = stack[m].i - 1
        BY <1>1, <3>1 DEF IInv, Bounds
      <3> QED BY <1>2, <3>2, <3>3, <3>4 DEF FrameOK
    <2>2. CASE ~\E m \in 1..Len(stack) : stack[m].key = Key(d)
      BY <1>1, <1>2, <2>2 DEF IInv, Bounds
    <2> QED BY <2>1, <2>2
  <1>5. n \in 0..Len(imports[d])
    BY <1>2, <1>3, <1>4
  <1>6. <<k, n>> \in {Key(d)} \X (0..Len(imports[d]))
    BY <1>1, <1>5
  <1> QED BY <1>2, <1>6 DEF Achievable

\* One more import of a package in `pkgs` is bound.
LEMMA BoundMore ==
  ASSUME IInv, NEW k \in DOMAIN pkgs, NEW p \in Paths, DOMAIN pkgs' = DOMAIN pkgs,
         bound' = [bound EXCEPT ![k] = Append(@, p)], result' = result
  PROVE  Achieved \subseteq Achieved' /\ Achieved # Achieved'
  <1>1. bound \in [Keys -> Seq(Paths)] /\ DOMAIN pkgs \subseteq Keys
    BY FrameFacts DEF IInv, Bounds
  <1>2. bound[k] \in Seq(Paths) /\ bound'[k] = Append(bound[k], p)
    BY <1>1
  <1>3. Len(bound[k]) \in Nat /\ Len(bound'[k]) = Len(bound[k]) + 1
    BY <1>2
  <1>4. \A j \in DOMAIN pkgs : j # k => bound'[j] = bound[j] /\ Len(bound[j]) \in Nat
    BY <1>1
  <1>5. Achieved \subseteq Achieved'
    <2>1. \A j \in DOMAIN pkgs : j \in DOMAIN pkgs' /\ Len(bound[j]) \in Nat
             /\ Len(bound'[j]) \in Nat /\ Len(bound[j]) <= Len(bound'[j])
      BY <1>3, <1>4
    <2> QED BY <2>1, Kept
  <1>6. PICK n \in Nat : n = Len(bound'[k])
    BY <1>3
  <1>7. n \in 0..Len(bound'[k]) /\ n \notin 0..Len(bound[k])
    BY <1>3, <1>6
  <1>8. (<<k, n>> \in Achieved)' /\ <<k, n>> \notin Achieved
    BY <1>7, AchievedOf
  <1> QED BY <1>5, <1>8

\* Every step does something new.
LEMMA StepAchieves ==
  ASSUME LoadPackages, IInv, Next
  PROVE  Achieved \subseteq Achieved' /\ Achieved # Achieved'
  <1>t. bound \in [Keys -> Seq(Paths)] /\ \A k \in DOMAIN pkgs : Len(bound[k]) \in Nat
    BY FrameFacts DEF IInv, Bounds
  <1>b. ASSUME Importing, NEW p \in Paths, Bind(p), DOMAIN pkgs' = DOMAIN pkgs, result' = result
        PROVE  Achieved \subseteq Achieved' /\ Achieved # Achieved'
    <2>1. Top.key \in DOMAIN pkgs
      BY <1>b, AtImport, FrameFacts
    <2>2. bound' = [bound EXCEPT ![Top.key] = Append(@, p)]
      BY <1>b DEF Bind
    <2>3. PICK k \in DOMAIN pkgs : k = Top.key
      BY <2>1
    <2> QED BY <1>b, <2>2, <2>3, BoundMore
  <1>e. ASSUME result = "loading", result' # "loading", DOMAIN pkgs' = DOMAIN pkgs, bound' = bound
        PROVE  Achieved \subseteq Achieved' /\ Achieved # Achieved'
    <2>1. Achieved \subseteq Achieved'
      BY <1>e, <1>t, Kept
    <2>2. (Ended \in Achieved)' /\ Ended \notin Achieved /\ 0 \in Nat
      BY <1>e, AchievedOf
    <2>3. Ended' = Ended
      BY DEF Ended
    <2> QED BY <2>1, <2>2, <2>3
  <1>1. CASE SkipImport \/ NotFound
    <2>1. Importing /\ Bind(Path) /\ DOMAIN pkgs' = DOMAIN pkgs /\ result' = result
      BY <1>1 DEF SkipImport, NotFound
    <2>2. Path \in Paths
      BY <2>1, AtImport
    <2> QED BY <1>b, <2>1, <2>2
  <1>2. CASE LoadPackage
    <2>1. Importing /\ Path \in Paths
      BY <1>2, AtImport DEF LoadPackage
    <2>2. PICK d \in Found(Top.name, Path) :
             AlreadyLoaded(d) \/ NoFiles(d) \/ EnterPackage(d) \/ ReadFails(d)
      BY <1>2 DEF LoadPackage
    <2>3. CASE AlreadyLoaded(d)
      <3>1. Key(d) \in DOMAIN pkgs /\ Bind(Key(d)) /\ DOMAIN pkgs' = DOMAIN pkgs /\ result' = result
        BY <2>3 DEF AlreadyLoaded
      <3>2. Key(d) \in Paths
        BY <3>1, FrameFacts DEF Paths
      <3> QED BY <1>b, <2>1, <3>1, <3>2
    <2>4. CASE NoFiles(d)
      <3>1. Bind(Path) /\ DOMAIN pkgs' = DOMAIN pkgs /\ result' = result
        BY <2>4 DEF NoFiles
      <3> QED BY <1>b, <2>1, <3>1
    <2>5. CASE EnterPackage(d)
      <3>1. /\ Key(d) \notin DOMAIN pkgs /\ DOMAIN pkgs' = DOMAIN pkgs \cup {Key(d)}
            /\ bound' = bound /\ result' = result /\ d \in Dirs
        BY <2>5 DEF EnterPackage
      <3>2. Achieved \subseteq Achieved'
        BY <1>t, <3>1, Kept
      <3>3. Len(bound[Key(d)]) \in Nat
        BY <1>t, <3>1 DEF Keys
      <3>4. 0 \in Nat /\ 0 \in 0..Len(bound'[Key(d)])
        BY <3>1, <3>3
      <3>5. (<<Key(d), 0>> \in Achieved)' /\ <<Key(d), 0>> \notin Achieved
        BY <3>1, <3>4, AchievedOf
      <3> QED BY <3>2, <3>5
    <2>6. CASE ReadFails(d)
      <3>1. result = "loading" /\ result' # "loading" /\ DOMAIN pkgs' = DOMAIN pkgs /\ bound' = bound
        BY <2>1, <2>6 DEF ReadFails, Importing
      <3> QED BY <1>e, <3>1
    <2> QED BY <2>2, <2>3, <2>4, <2>5, <2>6
  <1>3. CASE LeavePackage
    <2>1. /\ Len(stack) > 1 /\ pkgs' = Filled /\ result' = result
          /\ bound' = [bound EXCEPT ![stack[Len(stack) - 1].key] = Append(@, Top.key)]
      BY <1>3 DEF LeavePackage
    <2>2. Len(stack) \in Nat
      BY FrameFacts
    <2>3. Len(stack) \in 1..Len(stack) /\ Len(stack) - 1 \in 1..Len(stack)
      BY <2>1, <2>2
    <2>4. stack[Len(stack) - 1].key \in DOMAIN pkgs /\ Top.key \in Keys
      BY <2>3, FrameFacts DEF Top
    <2>5. PICK k \in DOMAIN pkgs : k = stack[Len(stack) - 1].key
      BY <2>4
    <2>6. PICK p \in Paths : p = Top.key
      BY <2>4 DEF Paths
    <2>7. DOMAIN pkgs' = DOMAIN pkgs
      BY <2>1 DEF Filled
    <2> QED BY <2>1, <2>5, <2>6, <2>7, BoundMore
  <1>4. CASE LeaveMain
    <2>1. result = "loading" /\ result' # "loading" /\ DOMAIN pkgs' = DOMAIN pkgs /\ bound' = bound
      BY <1>4 DEF LeaveMain, Filled
    <2> QED BY <1>e, <2>1
  <1> QED BY <1>1, <1>2, <1>3, <1>4 DEF Next

\* Every step of the load enters a package, settles an
\* import or ends the load, and none of it twice: since all of that is bounded by
\* the program's text, the recursion of load_package and load_import_package
\* cannot go on for ever, whatever cycles the imports form.
THEOREM Progress ==
  ASSUME LoadPackages
  PROVE  Spec => Advances
  <1>1. Init => IInv
    BY InvInit
  <1>2. IInv /\ [Next]_vars => IInv'
    BY InvStep
  <1>v. IInv => Achieved \subseteq Achievable
    BY WithinText
  <1>w. IInv' => (Achieved \subseteq Achievable)'
    BY <1>v, PTL
  <1>3. IInv /\ [Next]_vars =>
          [Achieved \subseteq Achieved' /\ Achieved # Achieved' /\ Achieved' \subseteq Achievable]_vars
    <2> SUFFICES ASSUME IInv, Next
                 PROVE  Achieved \subseteq Achieved' /\ Achieved # Achieved' /\ Achieved' \subseteq Achievable
      OBVIOUS
    <2>1. Achieved \subseteq Achieved' /\ Achieved # Achieved'
      BY StepAchieves
    <2>2. IInv'
      BY InvStep
    <2>3. (Achieved \subseteq Achievable)'
      BY <1>w, <2>2
    <2>4. Achievable' = Achievable
      BY DEF Achievable, Ended, Next, SkipImport, NotFound, LoadPackage, AlreadyLoaded, NoFiles,
             EnterPackage, ReadFails, LeavePackage, LeaveMain
    <2> QED BY <2>1, <2>3, <2>4
  <1> QED
    BY <1>1, <1>2, <1>3, PTL DEF Spec, Advances
=============================================================================
