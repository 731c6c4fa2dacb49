--------------------------- MODULE ResolverProofs ---------------------------
(* Theorems about Resolver, for every program: any packages, imports, cycles *)
(* of imports, schemas and inheritance.                                      *)
EXTENDS Resolver, TLAPS

Frames == [pkg : Pkgs, phase : {"import", "build"}, i : Nat \ {0}, scan : Nat \ {0}]

TypeOK ==
    /\ program \in Programs
    /\ scope_map \in SUBSET Pkgs
    /\ stack \in Seq(Frames)
    /\ declared \in SUBSET Schemas
    /\ checked \in [Pkgs -> Nat]

OnStack(p) == \E n \in 1..Len(stack) : stack[n].pkg = p
InStack(f) == \E n \in 1..Len(stack) : stack[n] = f

\* A package gets its scope when it is entered, and is on the stack of calls
\* from then until its statements have been checked.
Walk ==
    /\ MAIN_PKG \in scope_map
    /\ scope_map \subseteq Reached
    /\ \A p \in Pkgs : p \in scope_map <=> OnStack(p) \/ checked[p] = 1
    /\ \A p \in Pkgs : checked[p] \in {0, 1}
    /\ \A n \in 1..Len(stack) : checked[stack[n].pkg] = 0
    /\ \A m, n \in 1..Len(stack) : stack[m].pkg = stack[n].pkg => m = n

\* Every call but the innermost is waiting for an import of its package.
Calls ==
    \A n \in 1..Len(stack) : n < Len(stack) =>
        stack[n].phase = "import" /\ <<stack[n].pkg, stack[n + 1].pkg>> \in ImportEdges

\* The imports of p before the k-th have been entered and are in the graph.
Entered(p, k) ==
    \A j \in 1..Len(Imports(p)) : j < k /\ Imports(p)[j] \in Pkgs =>
        Imports(p)[j] \in scope_map /\ <<p, Imports(p)[j]>> \in dep_graph

\* The declarations of p before the k-th have their parent in the graph.
Linked(p, k) ==
    \A j \in 1..Len(DeclsOf(p)) : j < k /\ program.parent[DeclsOf(p)[j]] \in Schemas =>
        \/ DeclsOf(p)[j] \in illegal
        \/ <<DeclsOf(p)[j], program.parent[DeclsOf(p)[j]]>> \in dep_graph

AllEntered(p) == Entered(p, Len(Imports(p)) + 1)
AllLinked(p)  == Linked(p, Len(DeclsOf(p)) + 1)

\* What a call has done when it is at f.
FrameOK(f) ==
    /\ f.phase = "import" => Entered(f.pkg, f.i)
    /\ f.phase = "build" => AllEntered(f.pkg)
    /\ f.phase = "build" /\ f.scan = MAX_SCOPE_SCAN_COUNT => Linked(f.pkg, f.i)
    /\ f.phase = "build" /\ f.scan > MAX_SCOPE_SCAN_COUNT => AllLinked(f.pkg)

Progress ==
    /\ \A f \in Frames : InStack(f) => FrameOK(f)
    /\ \A p \in Pkgs : checked[p] = 1 => AllEntered(p) /\ AllLinked(p)

\* The graph holds nothing but imports and inheritance, and a report has been
\* made exactly when it has a cycle.
Graph ==
    /\ dep_graph \subseteq ImportEdges \cup InheritEdges
    /\ circular # {} <=> IsCyclic(dep_graph)

IInv == TypeOK /\ Walk /\ Calls /\ Progress /\ Graph

----------------------------------------------------------------------------
(* The operators of the model. *)

\* What the import list and the declarations of a package are.
LEMMA ProgramFacts ==
  ASSUME program \in Programs, NEW p \in Pkgs
  PROVE  /\ Imports(p) \in Seq(Pkgs \cup Modules)
         /\ DeclsOf(p) \in Seq(Schemas)
         /\ Imported(p) \subseteq Pkgs
         /\ \A j \in 1..Len(Imports(p)) : Imports(p)[j] \in Pkgs => Imports(p)[j] \in Imported(p)
         /\ \A q \in Imported(p) : \E j \in 1..Len(Imports(p)) : q = Imports(p)[j]
         /\ \A s \in Schemas : program.parent[s] \in Schemas \cup {NoSchema}
  <1>1. program \in [imports : [Pkgs -> Seq(Pkgs \cup Modules)],
                     parent : [Schemas -> Schemas \cup {NoSchema}],
                     mixins : [Schemas -> SUBSET Schemas]]
    BY ProgramAssumption DEF ProgramAssumption
  <1>2. program.imports \in [Pkgs -> Seq(Pkgs \cup Modules)] /\ program.parent \in [Schemas -> Schemas \cup {NoSchema}]
    BY <1>1
  <1>3. Imports(p) \in Seq(Pkgs \cup Modules)
    BY <1>2 DEF Imports
  <1>4. DeclsOf(p) \in Seq(Schemas)
    BY DeclAssumption DEF DeclAssumption, DeclsOf
  <1> QED BY <1>2, <1>3, <1>4 DEF Imported

\* Reached is the least set with the main package that imports do not leave.
LEMMA ReachedFacts ==
  ASSUME program \in Programs
  PROVE  /\ Reached \subseteq Pkgs
         /\ MAIN_PKG \in Reached
         /\ \A p \in Reached : Imported(p) \subseteq Reached
         /\ \A S \in SUBSET Pkgs :
               MAIN_PKG \in S /\ (\A q \in S : Imported(q) \subseteq S) => Reached \subseteq S
  <1>1. \A p \in Pkgs : Imported(p) \subseteq Pkgs
    BY ProgramFacts
  <1>2. MAIN_PKG \in Pkgs
    BY PkgAssumption DEF PkgAssumption
  <1> QED BY <1>1, <1>2 DEF Reached

\* The edges of imports and of inheritance.
LEMMA EdgeFacts ==
  /\ \A p \in Reached, q \in Pkgs : q \in Imported(p) <=> <<p, q>> \in ImportEdges
  /\ ImportEdges \subseteq Pkgs \X Pkgs
  /\ \A s, u \in Schemas : <<s, u>> \in InheritEdges
        <=> u = program.parent[s] /\ \E p \in Reached \cap Loaded : s \in Declares(p)
  /\ InheritEdges \subseteq Schemas \X Schemas
  <1>1. Reached \subseteq Pkgs
    BY DEF Reached
  <1> QED BY <1>1 DEF ImportEdges, InheritEdges

\* More edges never undo a cycle.
LEMMA CyclicMonotone ==
  ASSUME NEW E, NEW F, E \subseteq F, IsCyclic(E)
  PROVE  IsCyclic(F)
  <1>1. PICK S \in SUBSET {e[1] : e \in E} : S # {} /\ \A n \in S : \E m \in S : <<n, m>> \in E
    BY DEF IsCyclic
  <1>2. S \in SUBSET {e[1] : e \in F} /\ \A n \in S : \E m \in S : <<n, m>> \in F
    BY <1>1
  <1> QED BY <1>1, <1>2 DEF IsCyclic

\* Packages and schemas share the graph but no cycle: it is one of imports or one
\* of inheritance.
LEMMA CyclicSplit ==
  ASSUME NEW P, NEW Q, P \cap Q = {}, NEW E \in SUBSET (P \X P), NEW F \in SUBSET (Q \X Q),
         IsCyclic(E \cup F)
  PROVE  IsCyclic(E) \/ IsCyclic(F)
  <1>1. PICK S \in SUBSET {e[1] : e \in E \cup F} :
               S # {} /\ \A n \in S : \E m \in S : <<n, m>> \in E \cup F
    BY DEF IsCyclic
  <1>2. ASSUME NEW n \in S PROVE n \in P \cup Q
    BY <1>1
  <1>3. CASE S \cap P # {}
    <2>1. \A n \in S \cap P : \E m \in S \cap P : <<n, m>> \in E
      <3> SUFFICES ASSUME NEW n \in S \cap P PROVE \E m \in S \cap P : <<n, m>> \in E
        OBVIOUS
      <3>1. PICK m \in S : <<n, m>> \in E \cup F
        BY <1>1
      <3>2. <<n, m>> \notin F
        OBVIOUS
      <3> QED BY <3>1, <3>2
    <2>2. \A n \in S \cap P : n \in {e[1] : e \in E}
      <3> SUFFICES ASSUME NEW n \in S \cap P PROVE n \in {e[1] : e \in E}
        OBVIOUS
      <3>1. PICK m : <<n, m>> \in E
        BY <2>1
      <3>2. <<n, m>>[1] = n
        OBVIOUS
      <3> QED BY <3>1, <3>2
    <2> QED BY <1>3, <2>1, <2>2 DEF IsCyclic
  <1>4. CASE S \cap P = {}
    <2>1. \A n \in S : \E m \in S : <<n, m>> \in F
      BY <1>1, <1>4
    <2>2. \A n \in S : n \in {e[1] : e \in F}
      <3> SUFFICES ASSUME NEW n \in S PROVE n \in {e[1] : e \in F}
        OBVIOUS
      <3>1. PICK m : <<n, m>> \in F
        BY <2>1
      <3>2. <<n, m>>[1] = n
        OBVIOUS
      <3> QED BY <3>1, <3>2
    <2> QED BY <1>1, <2>1, <2>2 DEF IsCyclic
  <1> QED BY <1>3, <1>4

\* The program does not change while it is checked, nor what is derived from it.
LEMMA ProgramFixed ==
  ASSUME program' = program
  PROVE  /\ \A p \in Pkgs : Imports(p)' = Imports(p) /\ DeclsOf(p)' = DeclsOf(p)
         /\ Reached' = Reached /\ ImportEdges' = ImportEdges /\ InheritEdges' = InheritEdges
  BY DEF Imports, DeclsOf, Reached, ImportEdges, InheritEdges, Imported, Declares

\* The innermost call moves on; the others stay where they are.
LEMMA AdvanceFacts ==
  ASSUME stack \in Seq(Frames), stack # <<>>,
         NEW phase \in {"import", "build"}, NEW i \in Nat \ {0}, NEW scan \in Nat \ {0}
  PROVE  LET f == [pkg |-> Top.pkg, phase |-> phase, i |-> i, scan |-> scan]
             A == Advance(phase, i, scan)
         IN  /\ Top \in Frames /\ f \in Frames /\ Len(stack) \in 1..Len(stack)
             /\ A \in Seq(Frames) /\ Len(A) = Len(stack)
             /\ A[Len(stack)] = f
             /\ \A n \in 1..Len(stack) : n # Len(stack) => A[n] = stack[n]
             /\ \A n \in 1..Len(stack) : A[n].pkg = stack[n].pkg
  <1>1. Len(stack) \in 1..Len(stack) /\ Top \in Frames
    BY DEF Top
  <1>2. [pkg |-> Top.pkg, phase |-> phase, i |-> i, scan |-> scan] \in Frames
    BY <1>1 DEF Frames
  <1> DEFINE f == [pkg |-> Top.pkg, phase |-> phase, i |-> i, scan |-> scan]
  <1>3. Advance(phase, i, scan) = [stack EXCEPT ![Len(stack)] = f] /\ f.pkg = Top.pkg
    BY DEF Advance
  <1>4. f \in Frames
    BY <1>2
  <1> HIDE DEF f
  <1>5. /\ Advance(phase, i, scan) \in Seq(Frames) /\ Len(Advance(phase, i, scan)) = Len(stack)
        /\ Advance(phase, i, scan)[Len(stack)] = f
        /\ \A n \in 1..Len(stack) : n # Len(stack) => Advance(phase, i, scan)[n] = stack[n]
    BY <1>1, <1>3, <1>4
  <1>6. \A n \in 1..Len(stack) : Advance(phase, i, scan)[n].pkg = stack[n].pkg
    BY <1>3, <1>5 DEF Top
  <1> QED BY <1>1, <1>4, <1>5, <1>6 DEF f

----------------------------------------------------------------------------
(* The steps. *)

\* What a call has done stays done.
LEMMA Monotone ==
  ASSUME program' = program, scope_map \subseteq scope_map',
         dep_graph \subseteq dep_graph', illegal \subseteq illegal'
  PROVE  /\ \A f \in Frames : FrameOK(f) => FrameOK(f)'
         /\ \A p \in Pkgs : AllEntered(p) /\ AllLinked(p) => AllEntered(p)' /\ AllLinked(p)'
  <1>1. \A p \in Pkgs : Imports(p)' = Imports(p) /\ DeclsOf(p)' = DeclsOf(p)
    BY ProgramFixed
  <1>2. \A p \in Pkgs, k \in Int : Entered(p, k) => Entered(p, k)'
    BY <1>1 DEF Entered
  <1>3. \A p \in Pkgs, k \in Int : Linked(p, k) => Linked(p, k)'
    BY <1>1 DEF Linked
  <1>4. \A p \in Pkgs : AllEntered(p) => AllEntered(p)'
    BY <1>1 DEF AllEntered, Entered
  <1>5. \A p \in Pkgs : AllLinked(p) => AllLinked(p)'
    BY <1>1 DEF AllLinked, Linked
  <1>6. ASSUME NEW f \in Frames, FrameOK(f) PROVE FrameOK(f)'
    <2>1. PICK p \in Pkgs, k \in Int : f.pkg = p /\ f.i = k
      BY DEF Frames
    <2> QED BY <1>2, <1>3, <1>4, <1>5, <1>6, <2>1 DEF FrameOK
  <1> QED BY <1>4, <1>5, <1>6

\* A step in which the innermost call moves on to g.
LEMMA Move ==
  ASSUME IInv, UNCHANGED <<program, scope_map, checked>>, dep_graph \subseteq dep_graph',
         illegal \subseteq illegal', declared' \in SUBSET Schemas, stack # <<>>,
         NEW phase \in {"import", "build"}, NEW i \in Nat \ {0}, NEW scan \in Nat \ {0},
         stack' = Advance(phase, i, scan),
         NEW g \in Frames, g = [pkg |-> Top.pkg, phase |-> phase, i |-> i, scan |-> scan],
         FrameOK(g)'
  PROVE  TypeOK' /\ Walk' /\ Calls' /\ Progress'
  <1>t. program \in Programs /\ scope_map \in SUBSET Pkgs /\ stack \in Seq(Frames) /\ checked \in [Pkgs -> Nat]
    BY DEF IInv, TypeOK
  <1>1. /\ Len(stack) \in 1..Len(stack)
        /\ stack' \in Seq(Frames) /\ Len(stack') = Len(stack)
        /\ stack'[Len(stack)] = g
        /\ \A n \in 1..Len(stack) : n # Len(stack) => stack'[n] = stack[n]
        /\ \A n \in 1..Len(stack) : stack'[n].pkg = stack[n].pkg
    BY <1>t, AdvanceFacts
  <1>2. TypeOK'
    BY <1>t, <1>1 DEF TypeOK
  <1>3. Reached' = Reached /\ ImportEdges' = ImportEdges
    BY ProgramFixed
  <1>4. Walk'
    <2>1. \A p \in Pkgs : OnStack(p)' <=> OnStack(p)
      BY <1>1 DEF OnStack
    <2> QED BY <1>1, <1>3, <2>1 DEF IInv, Walk
  <1>5. Calls'
    <2> SUFFICES ASSUME NEW n \in 1..Len(stack'), n < Len(stack')
                 PROVE  stack'[n].phase = "import" /\ <<stack'[n].pkg, stack'[n + 1].pkg>> \in ImportEdges
      BY <1>3 DEF Calls
    <2>1. n \in 1..Len(stack) /\ n + 1 \in 1..Len(stack) /\ n < Len(stack) /\ n # Len(stack)
      BY <1>1
    <2>2. stack'[n] = stack[n] /\ stack'[n + 1].pkg = stack[n + 1].pkg
      BY <1>1, <2>1
    <2> QED BY <2>1, <2>2 DEF IInv, Calls
  <1>6. \A f \in Frames : InStack(f)' => InStack(f) \/ f = g
    BY <1>1 DEF InStack
  <1>7. Progress'
    <2>1. /\ \A f \in Frames : FrameOK(f) => FrameOK(f)'
          /\ \A p \in Pkgs : AllEntered(p) /\ AllLinked(p) => AllEntered(p)' /\ AllLinked(p)'
      BY Monotone
    <2>2. \A f \in Frames : InStack(f)' => FrameOK(f)'
      BY <1>6, <2>1 DEF IInv, Progress
    <2> QED BY <2>1, <2>2 DEF IInv, Progress
  <1> QED BY <1>2, <1>4, <1>5, <1>7

\* The innermost call, its package and how far it is.
LEMMA TopFacts ==
  ASSUME IInv, stack # <<>>
  PROVE  /\ Top \in Frames /\ Top.pkg \in Pkgs /\ Top.i \in Nat \ {0} /\ Top.scan \in Nat \ {0}
         /\ Top = stack[Len(stack)] /\ Len(stack) \in 1..Len(stack)
         /\ Top.pkg \in scope_map /\ Top.pkg \in Reached
         /\ FrameOK(Top)
  <1>1. Top \in Frames /\ Top = stack[Len(stack)] /\ Len(stack) \in 1..Len(stack)
    BY DEF IInv, TypeOK, Top
  <1>2. Top.pkg \in Pkgs /\ Top.i \in Nat \ {0} /\ Top.scan \in Nat \ {0}
    BY <1>1 DEF Frames
  <1>3. OnStack(Top.pkg) /\ InStack(Top)
    BY <1>1 DEF OnStack, InStack
  <1> QED BY <1>1, <1>2, <1>3 DEF IInv, Walk, Progress

\* An edge of the program enters the graph; a cycle it closes is reported.
LEMMA EdgeAdded ==
  ASSUME Graph, NEW a, NEW b, AddDependency(a, b), program' = program,
         <<a, b>> \in ImportEdges \cup InheritEdges
  PROVE  Graph' /\ dep_graph \subseteq dep_graph' /\ <<a, b>> \in dep_graph'
  <1>1. /\ dep_graph' = dep_graph \cup {<<a, b>>}
        /\ IsCyclic(dep_graph') => circular' # {}
        /\ ~IsCyclic(dep_graph') => circular' = circular
    BY DEF AddDependency
  <1>2. IsCyclic(dep_graph) => IsCyclic(dep_graph')
    BY <1>1, CyclicMonotone
  <1>3. circular' # {} <=> IsCyclic(dep_graph')
    BY <1>1, <1>2 DEF Graph
  <1>4. ImportEdges' = ImportEdges /\ InheritEdges' = InheritEdges
    BY ProgramFixed
  <1>5. IsCyclic(dep_graph') <=> IsCyclic(dep_graph)'
    BY DEF IsCyclic
  <1> QED BY <1>1, <1>3, <1>4, <1>5 DEF Graph

\* Nothing is added.
LEMMA GraphUnchanged ==
  ASSUME Graph, UNCHANGED <<program, dep_graph, circular>>
  PROVE  Graph'
  <1>1. ImportEdges' = ImportEdges /\ InheritEdges' = InheritEdges
    BY ProgramFixed
  <1>2. IsCyclic(dep_graph)' <=> IsCyclic(dep_graph)
    BY DEF IsCyclic
  <1> QED BY <1>1, <1>2 DEF Graph

\* resolve_program enters the main package with an empty graph.
LEMMA InvInit == Init => IInv
  <1> SUFFICES ASSUME Init PROVE IInv
    OBVIOUS
  <1>1. MAIN_PKG \in Pkgs /\ program \in Programs
    BY PkgAssumption DEF PkgAssumption, Init
  <1>2. /\ Frame(MAIN_PKG) \in Frames /\ Frame(MAIN_PKG).pkg = MAIN_PKG
        /\ Frame(MAIN_PKG).phase = "import" /\ Frame(MAIN_PKG).i = 1
    BY <1>1 DEF Frame, Frames
  <1>3. /\ stack \in Seq(Frames) /\ Len(stack) = 1 /\ stack[1] = Frame(MAIN_PKG)
        /\ \A n \in 1..Len(stack) : n = 1
    BY <1>2 DEF Init
  <1>4. TypeOK
    BY <1>1, <1>3 DEF Init, TypeOK
  <1>5. Walk
    <2>1. \A p \in Pkgs : OnStack(p) <=> p = MAIN_PKG
      BY <1>2, <1>3 DEF OnStack
    <2>2. \A p \in Pkgs : checked[p] = 0
      BY DEF Init
    <2>3. scope_map = {MAIN_PKG} /\ MAIN_PKG \in Reached
      BY <1>1, ReachedFacts DEF Init
    <2> QED BY <1>1, <1>2, <1>3, <2>1, <2>2, <2>3 DEF Walk
  <1>6. Calls
    BY <1>3 DEF Calls
  <1>7. Progress
    <2>1. FrameOK(Frame(MAIN_PKG))
      <3>1. Entered(MAIN_PKG, 1)
        <4>1. Len(Imports(MAIN_PKG)) \in Nat
          BY <1>1, ProgramFacts
        <4> QED BY <4>1 DEF Entered
      <3> QED BY <1>2, <3>1 DEF FrameOK
    <2>2. \A f \in Frames : InStack(f) => f = Frame(MAIN_PKG)
      BY <1>3 DEF InStack
    <2>3. \A p \in Pkgs : checked[p] # 1
      BY DEF Init
    <2> QED BY <2>1, <2>2, <2>3 DEF Progress
  <1>8. Graph
    <2>1. dep_graph = {} /\ circular = {}
      BY DEF Init
    <2>2. ~IsCyclic({})
      BY DEF IsCyclic
    <2> QED BY <2>1, <2>2 DEF Graph
  <1> QED BY <1>4, <1>5, <1>6, <1>7, <1>8 DEF IInv

\* A system or plugin module has no scope and no edge.
LEMMA ImportModuleStep == IInv /\ ImportModule => IInv'
  <1> SUFFICES ASSUME IInv, ImportModule PROVE IInv'
    OBVIOUS
  <1>1. /\ stack # <<>> /\ Top.phase = "import" /\ Top.i <= Len(Imports(Top.pkg))
        /\ Imports(Top.pkg)[Top.i] \in Modules
        /\ stack' = Advance("import", Top.i + 1, 1)
        /\ UNCHANGED <<program, scope_map, declared, dep_graph, circular, illegal, checked>>
    BY DEF ImportModule, At, Goto
  <1>2. PICK p \in Pkgs, k \in Nat \ {0} : p = Top.pkg /\ k = Top.i
    BY <1>1, TopFacts
  <1>3. Entered(p, k + 1)
    <2>1. Entered(p, k)
      BY <1>1, <1>2, TopFacts DEF FrameOK
    <2>2. Imports(p)[k] \notin Pkgs
      BY <1>1, <1>2, PkgAssumption DEF PkgAssumption
    <2>3. Len(Imports(p)) \in Nat
      BY ProgramFacts DEF IInv, TypeOK
    <2> QED BY <2>1, <2>2, <2>3 DEF Entered
  <1>4. PICK g \in Frames : g = [pkg |-> p, phase |-> "import", i |-> k + 1, scan |-> 1]
    <2>1. [pkg |-> p, phase |-> "import", i |-> k + 1, scan |-> 1] \in Frames
      BY DEF Frames
    <2> QED BY <2>1
  <1>5. FrameOK(g)'
    <2>1. FrameOK(g)
      BY <1>3, <1>4 DEF FrameOK
    <2> QED BY <1>1, <2>1, Monotone
  <1>6. declared' \in SUBSET Schemas
    BY <1>1 DEF IInv, TypeOK
  <1>7. TypeOK' /\ Walk' /\ Calls' /\ Progress'
    BY <1>1, <1>2, <1>4, <1>5, <1>6, Move
  <1>8. Graph'
    BY <1>1, GraphUnchanged DEF IInv
  <1> QED BY <1>7, <1>8 DEF IInv

\* An imported package is entered unless it has a scope; either way its edge is added.
LEMMA ImportUserStep == IInv /\ ImportUser => IInv'
  <1> SUFFICES ASSUME IInv, ImportUser PROVE IInv'
    OBVIOUS
  <1>0. /\ stack # <<>> /\ Top.phase = "import" /\ Top.i <= Len(Imports(Top.pkg))
        /\ UNCHANGED <<program, declared, illegal, checked>>
    BY DEF ImportUser, At
  <1>1. PICK p \in Pkgs, k \in Nat \ {0} : p = Top.pkg /\ k = Top.i
    BY <1>0, TopFacts
  <1>t. program \in Programs /\ scope_map \in SUBSET Pkgs /\ stack \in Seq(Frames) /\ checked \in [Pkgs -> Nat]
        /\ declared \in SUBSET Schemas
    BY DEF IInv, TypeOK
  <1>n. Len(Imports(p)) \in Nat /\ k \in 1..Len(Imports(p))
    BY <1>0, <1>1, <1>t, ProgramFacts
  <1>2. PICK q \in Pkgs : q = Imports(p)[k]
    BY <1>1 DEF ImportUser
  <1>3. /\ AddDependency(p, q) /\ scope_map' = scope_map \cup {q}
        /\ q \in scope_map => stack' = Advance("import", k + 1, 1)
        /\ q \notin scope_map => stack' = Append(Advance("import", k + 1, 1), Frame(q))
    BY <1>1, <1>2 DEF ImportUser, Goto
  <1>4. p \in Reached /\ q \in Imported(p) /\ q \in Reached /\ <<p, q>> \in ImportEdges
    <2>1. p \in Reached
      BY <1>0, <1>1, TopFacts
    <2>2. q \in Imported(p)
      BY <1>2, <1>n, <1>t, ProgramFacts
    <2> QED BY <2>1, <2>2, <1>t, ReachedFacts, EdgeFacts
  <1>5. Graph' /\ dep_graph \subseteq dep_graph' /\ <<p, q>> \in dep_graph'
    BY <1>0, <1>3, <1>4, EdgeAdded DEF IInv
  <1>6. \A r \in Pkgs : Imports(r)' = Imports(r)
    BY <1>0, ProgramFixed
  <1>7. Entered(p, k + 1)'
    <2>1. Entered(p, k)
      BY <1>0, <1>1, TopFacts DEF FrameOK
    <2> QED BY <2>1, <1>2, <1>3, <1>5, <1>6, <1>n DEF Entered
  <1>8. PICK g \in Frames : g = [pkg |-> p, phase |-> "import", i |-> k + 1, scan |-> 1]
    <2>1. [pkg |-> p, phase |-> "import", i |-> k + 1, scan |-> 1] \in Frames
      BY DEF Frames
    <2> QED BY <2>1
  <1>9. FrameOK(g)'
    BY <1>7, <1>8 DEF FrameOK
  <1>10. CASE q \in scope_map
    <2>1. scope_map' = scope_map /\ stack' = Advance("import", k + 1, 1)
      BY <1>3, <1>10
    <2>2. TypeOK' /\ Walk' /\ Calls' /\ Progress'
      BY <1>0, <1>1, <1>5, <1>8, <1>9, <1>t, <2>1, Move
    <2> QED BY <1>5, <2>2 DEF IInv
  <1>11. CASE q \notin scope_map
    <2> DEFINE A == Advance("import", k + 1, 1)
    <2>1. /\ Len(stack) \in 1..Len(stack) /\ Len(stack) \in Nat
          /\ A \in Seq(Frames) /\ Len(A) = Len(stack)
          /\ A[Len(stack)] = g
          /\ \A n \in 1..Len(stack) : n # Len(stack) => A[n] = stack[n]
          /\ \A n \in 1..Len(stack) : A[n].pkg = stack[n].pkg
      <3>1. Len(stack) \in Nat /\ k + 1 \in Nat \ {0} /\ g = [pkg |-> Top.pkg, phase |-> "import", i |-> k + 1, scan |-> 1]
        BY <1>1, <1>8, <1>t
      <3> QED BY <1>0, <1>t, <3>1, AdvanceFacts
    <2>2. PICK h \in Frames : h = Frame(q) /\ h.pkg = q /\ h.phase = "import" /\ h.i = 1
      <3>1. Frame(q) \in Frames /\ Frame(q).pkg = q /\ Frame(q).phase = "import" /\ Frame(q).i = 1
        BY DEF Frame, Frames
      <3> QED BY <3>1
    <2>3. stack' = Append(A, h)
      BY <1>3, <1>11, <2>2
    <2> HIDE DEF A
    <2>4. /\ stack' \in Seq(Frames) /\ Len(stack') = Len(stack) + 1
          /\ stack'[Len(stack) + 1] = h /\ stack'[Len(stack)] = g
          /\ \A n \in 1..Len(stack) : n # Len(stack) => stack'[n] = stack[n]
          /\ \A n \in 1..Len(stack) : stack'[n].pkg = stack[n].pkg /\ n \in 1..Len(stack')
          /\ \A n \in 1..Len(stack') : n \in 1..Len(stack) \/ n = Len(stack) + 1
          /\ Len(stack) + 1 \in 1..Len(stack')
      BY <2>1, <2>3
    <2>5. TypeOK'
      BY <1>0, <1>3, <1>t, <2>4 DEF TypeOK
    <2>6. Reached' = Reached /\ ImportEdges' = ImportEdges
      BY <1>0, ProgramFixed
    <2>7. checked[q] = 0 /\ \A n \in 1..Len(stack) : stack[n].pkg # q
      BY <1>11 DEF IInv, Walk, OnStack
    <2>8. Walk'
      <3>1. \A r \in Pkgs : OnStack(r)' <=> OnStack(r) \/ r = q
        BY <2>2, <2>4 DEF OnStack
      <3>2. \A m, n \in 1..Len(stack') : stack'[m].pkg = stack'[n].pkg => m = n
        BY <2>2, <2>4, <2>7 DEF IInv, Walk
      <3>3. \A n \in 1..Len(stack') : checked'[stack'[n].pkg] = 0
        BY <1>0, <2>2, <2>4, <2>7 DEF IInv, Walk
      <3>4. scope_map' \subseteq Reached' /\ MAIN_PKG \in scope_map'
        BY <1>3, <1>4, <2>6 DEF IInv, Walk
      <3>5. \A r \in Pkgs : r \in scope_map' <=> OnStack(r)' \/ checked'[r] = 1
        BY <1>0, <1>3, <2>7, <3>1 DEF IInv, Walk
      <3>6. \A r \in Pkgs : checked'[r] \in {0, 1}
        BY <1>0 DEF IInv, Walk
      <3> QED BY <3>2, <3>3, <3>4, <3>5, <3>6 DEF Walk
    <2>9. Calls'
      <3> SUFFICES ASSUME NEW n \in 1..Len(stack'), n < Len(stack')
                   PROVE  stack'[n].phase = "import" /\ <<stack'[n].pkg, stack'[n + 1].pkg>> \in ImportEdges
        BY <2>6 DEF Calls
      <3>1. CASE n = Len(stack)
        <4>1. stack'[n] = g /\ stack'[n + 1] = h /\ g.pkg = p /\ g.phase = "import"
          BY <3>1, <2>4, <1>8
        <4> QED BY <4>1, <2>2, <1>4
      <3>2. CASE n # Len(stack)
        <4>1. n \in 1..Len(stack) /\ n + 1 \in 1..Len(stack) /\ n < Len(stack)
          BY <3>2, <2>1, <2>4
        <4>2. stack'[n] = stack[n] /\ stack'[n + 1].pkg = stack[n + 1].pkg
          BY <3>2, <4>1, <2>4
        <4> QED BY <4>1, <4>2 DEF IInv, Calls
      <3> QED BY <3>1, <3>2
    <2>10. Progress'
      <3>1. \A f \in Frames : InStack(f)' => InStack(f) \/ f = g \/ f = h
        BY <2>4 DEF InStack
      <3>2. /\ \A f \in Frames : FrameOK(f) => FrameOK(f)'
            /\ \A r \in Pkgs : AllEntered(r) /\ AllLinked(r) => AllEntered(r)' /\ AllLinked(r)'
        BY <1>0, <1>3, <1>5, Monotone
      <3>3. FrameOK(h)'
        <4>1. Entered(q, 1)
          <5>1. Len(Imports(q)) \in Nat
            BY <1>t, ProgramFacts
          <5> QED BY <5>1 DEF Entered
        <4>2. FrameOK(h)
          BY <4>1, <2>2 DEF FrameOK
        <4> QED BY <4>2, <3>2
      <3>4. \A f \in Frames : InStack(f)' => FrameOK(f)'
        BY <1>9, <3>1, <3>2, <3>3 DEF IInv, Progress
      <3> QED BY <1>0, <3>2, <3>4 DEF IInv, Progress
    <2> QED BY <1>5, <2>5, <2>8, <2>9, <2>10 DEF IInv
  <1> QED BY <1>10, <1>11

\* The symbols of the package, once all its imports have been entered.
LEMMA ScanSymbolsStep == IInv /\ ScanSymbols => IInv'
  <1> SUFFICES ASSUME IInv, ScanSymbols PROVE IInv'
    OBVIOUS
  <1>1. /\ stack # <<>> /\ Top.phase = "import" /\ Top.i > Len(Imports(Top.pkg))
        /\ declared' = declared \cup Declares(Top.pkg)
        /\ stack' = Advance("build", 1, 1)
        /\ UNCHANGED <<program, scope_map, dep_graph, circular, illegal, checked>>
    BY DEF ScanSymbols, At, Goto
  <1>2. PICK p \in Pkgs, k \in Nat \ {0} : p = Top.pkg /\ k = Top.i
    BY <1>1, TopFacts
  <1>t. program \in Programs /\ declared \in SUBSET Schemas
    BY DEF IInv, TypeOK
  <1>3. AllEntered(p)
    <2>1. Entered(p, k) /\ Len(Imports(p)) \in Nat
      BY <1>1, <1>2, <1>t, TopFacts, ProgramFacts DEF FrameOK
    <2> QED BY <2>1, <1>1, <1>2 DEF Entered, AllEntered
  <1>4. PICK g \in Frames : g = [pkg |-> p, phase |-> "build", i |-> 1, scan |-> 1]
    <2>1. [pkg |-> p, phase |-> "build", i |-> 1, scan |-> 1] \in Frames
      BY DEF Frames
    <2> QED BY <2>1
  <1>5. FrameOK(g)'
    <2>1. FrameOK(g)
      BY <1>3, <1>4 DEF FrameOK, MAX_SCOPE_SCAN_COUNT
    <2> QED BY <1>1, <2>1, Monotone
  <1>6. declared' \in SUBSET Schemas
    BY <1>1, <1>2, <1>t, ProgramFacts DEF Declares
  <1>7. TypeOK' /\ Walk' /\ Calls' /\ Progress'
    BY <1>1, <1>2, <1>4, <1>5, <1>6, Move
  <1>8. Graph'
    BY <1>1, GraphUnchanged DEF IInv
  <1> QED BY <1>7, <1>8 DEF IInv

\* The type of one declaration; in the last scan a parent that was found gets its edge.
LEMMA BuildSchemaStep == IInv /\ BuildSchema => IInv'
  <1> SUFFICES ASSUME IInv, BuildSchema PROVE IInv'
    OBVIOUS
  <1>0. /\ stack # <<>> /\ Top.phase = "build" /\ Top.scan <= MAX_SCOPE_SCAN_COUNT
        /\ Top.i <= Len(DeclsOf(Top.pkg))
        /\ stack' = Advance("build", Top.i + 1, Top.scan)
        /\ UNCHANGED <<program, scope_map, declared, checked>>
    BY DEF BuildSchema, At, Goto
  <1>1. PICK p \in Pkgs, k \in Nat \ {0}, sc \in Nat \ {0} : p = Top.pkg /\ k = Top.i /\ sc = Top.scan
    BY <1>0, TopFacts
  <1>t. program \in Programs /\ declared \in SUBSET Schemas
    BY DEF IInv, TypeOK
  <1>n. DeclsOf(p) \in Seq(Schemas) /\ Len(DeclsOf(p)) \in Nat /\ k \in 1..Len(DeclsOf(p))
    BY <1>0, <1>1, <1>t, ProgramFacts
  <1>2. PICK s \in Schemas : s = DeclsOf(p)[k]
    BY <1>n
  <1>3. /\ illegal \subseteq illegal'
        /\ program.parent[s] # NoSchema /\ ParentType(p, s) = {} => s \in illegal'
        /\ AddInheritance(s, ParentType(p, s))
    BY <1>1, <1>2 DEF BuildSchema
  <1>4. ParentType(p, s) # {} => program.parent[s] \in Schemas
    BY <1>t DEF ParentType, Visible
  <1>5. <<s, program.parent[s]>> \in InheritEdges \/ program.parent[s] \notin Schemas
    <2>1. p \in Loaded
      BY <1>n DEF DeclsOf
    <2>2. p \in Reached /\ s \in Declares(p)
      BY <1>0, <1>1, <1>2, <1>n, TopFacts DEF Declares
    <2> QED BY <2>1, <2>2, EdgeFacts
  <1>6. /\ Graph' /\ dep_graph \subseteq dep_graph'
        /\ sc = MAX_SCOPE_SCAN_COUNT /\ ParentType(p, s) # {} => <<s, program.parent[s]>> \in dep_graph'
    <2>1. CASE sc = MAX_SCOPE_SCAN_COUNT /\ ParentType(p, s) # {}
      <3>1. AddDependency(s, program.parent[s])
        BY <1>1, <1>3, <2>1 DEF AddInheritance
      <3> QED BY <1>0, <1>4, <1>5, <2>1, <3>1, EdgeAdded DEF IInv
    <2>2. CASE ~(sc = MAX_SCOPE_SCAN_COUNT /\ ParentType(p, s) # {})
      <3>1. UNCHANGED <<dep_graph, circular>>
        BY <1>1, <1>3, <2>2 DEF AddInheritance
      <3> QED BY <1>0, <2>2, <3>1, GraphUnchanged DEF IInv
    <2> QED BY <2>1, <2>2
  <1>7. PICK g \in Frames : g = [pkg |-> p, phase |-> "build", i |-> k + 1, scan |-> sc]
    <2>1. [pkg |-> p, phase |-> "build", i |-> k + 1, scan |-> sc] \in Frames
      BY DEF Frames
    <2> QED BY <2>1
  <1>8. PICK f \in Frames : f = Top /\ FrameOK(f)
    BY <1>0, TopFacts
  <1>9. FrameOK(f)'
    BY <1>0, <1>3, <1>6, <1>8, Monotone
  <1>10. sc = MAX_SCOPE_SCAN_COUNT => Linked(p, k + 1)'
    <2> SUFFICES ASSUME sc = MAX_SCOPE_SCAN_COUNT PROVE Linked(p, k + 1)'
      OBVIOUS
    <2>1. Linked(p, k)'
      BY <1>0, <1>1, <1>8, <1>9 DEF FrameOK
    <2>2. DeclsOf(p)' = DeclsOf(p) /\ program' = program
      BY <1>0, ProgramFixed
    <2>3. program.parent[s] \in Schemas => s \in illegal' \/ <<s, program.parent[s]>> \in dep_graph'
      BY <1>3, <1>6, SchemaAssumption DEF SchemaAssumption
    <2> QED BY <2>1, <2>2, <2>3, <1>2, <1>n DEF Linked
  <1>11. FrameOK(g)'
    BY <1>0, <1>1, <1>7, <1>8, <1>9, <1>10 DEF FrameOK, MAX_SCOPE_SCAN_COUNT
  <1>12. TypeOK' /\ Walk' /\ Calls' /\ Progress'
    BY <1>0, <1>1, <1>3, <1>6, <1>7, <1>11, <1>t, Move
  <1> QED BY <1>6, <1>12 DEF IInv

\* The next scan starts over; after the last one every parent is in the graph.
LEMMA NextScanStep == IInv /\ NextScan => IInv'
  <1> SUFFICES ASSUME IInv, NextScan PROVE IInv'
    OBVIOUS
  <1>1. /\ stack # <<>> /\ Top.phase = "build" /\ Top.scan <= MAX_SCOPE_SCAN_COUNT
        /\ Top.i > Len(DeclsOf(Top.pkg))
        /\ stack' = Advance("build", 1, Top.scan + 1)
        /\ UNCHANGED <<program, scope_map, declared, dep_graph, circular, illegal, checked>>
    BY DEF NextScan, At, Goto
  <1>2. PICK p \in Pkgs, k \in Nat \ {0}, sc \in Nat \ {0} : p = Top.pkg /\ k = Top.i /\ sc = Top.scan
    BY <1>1, TopFacts
  <1>t. program \in Programs /\ declared \in SUBSET Schemas
    BY DEF IInv, TypeOK
  <1>3. Len(DeclsOf(p)) \in Nat
    BY <1>t, ProgramFacts
  <1>4. AllEntered(p) /\ (sc = MAX_SCOPE_SCAN_COUNT => Linked(p, k))
    BY <1>1, <1>2, TopFacts DEF FrameOK
  <1>5. sc = MAX_SCOPE_SCAN_COUNT => AllLinked(p)
    BY <1>1, <1>2, <1>3, <1>4 DEF Linked, AllLinked
  <1>6. Linked(p, 1)
    BY <1>3 DEF Linked
  <1>7. PICK g \in Frames : g = [pkg |-> p, phase |-> "build", i |-> 1, scan |-> sc + 1]
    <2>1. [pkg |-> p, phase |-> "build", i |-> 1, scan |-> sc + 1] \in Frames
      BY DEF Frames
    <2> QED BY <2>1
  <1>8. FrameOK(g)'
    <2>1. FrameOK(g)
      BY <1>1, <1>2, <1>4, <1>5, <1>6, <1>7 DEF FrameOK, MAX_SCOPE_SCAN_COUNT
    <2> QED BY <1>1, <2>1, Monotone
  <1>9. TypeOK' /\ Walk' /\ Calls' /\ Progress'
    BY <1>1, <1>2, <1>7, <1>8, <1>t, Move
  <1>10. Graph'
    BY <1>1, GraphUnchanged DEF IInv
  <1> QED BY <1>9, <1>10 DEF IInv

\* The call returns: its package is checked, and its caller is innermost again.
LEMMA CheckStatementsStep == IInv /\ CheckStatements => IInv'
  <1> SUFFICES ASSUME IInv, CheckStatements PROVE IInv'
    OBVIOUS
  <1>1. /\ stack # <<>> /\ Top.phase = "build" /\ Top.scan > MAX_SCOPE_SCAN_COUNT
        /\ checked' = [checked EXCEPT ![Top.pkg] = @ + 1]
        /\ stack' = SubSeq(stack, 1, Len(stack) - 1)
        /\ UNCHANGED <<program, scope_map, declared, dep_graph, circular, illegal>>
    BY DEF CheckStatements, At
  <1>2. PICK p \in Pkgs : p = Top.pkg /\ p = stack[Len(stack)].pkg
    BY <1>1, TopFacts
  <1>t. program \in Programs /\ scope_map \in SUBSET Pkgs /\ stack \in Seq(Frames) /\ checked \in [Pkgs -> Nat]
        /\ declared \in SUBSET Schemas
    BY DEF IInv, TypeOK
  <1>3. /\ stack' \in Seq(Frames) /\ Len(stack) \in Nat /\ Len(stack) \in 1..Len(stack)
        /\ Len(stack') = Len(stack) - 1
        /\ \A n \in 1..Len(stack') : stack'[n] = stack[n] /\ n \in 1..Len(stack) /\ n # Len(stack)
    <2>1. Len(stack) \in Nat /\ Len(stack) - 1 \in Nat /\ Len(stack) \in 1..Len(stack)
      BY <1>1, <1>t
    <2> DEFINE m == Len(stack) - 1
               P == SubSeq(stack, 1, m)
    <2>2. m \in Nat /\ m <= Len(stack)
      BY <2>1
    <2>3. P \in Seq(Frames) /\ Len(P) = m /\ \A n \in 1..m : P[n] = stack[n]
      <3> HIDE DEF m
      <3> QED BY <1>t, <2>2
    <2>4. \A n \in 1..m : n \in 1..Len(stack) /\ n # Len(stack)
      BY <2>1
    <2>5. stack' = P
      BY <1>1
    <2> HIDE DEF P
    <2> QED BY <2>1, <2>3, <2>4, <2>5
  <1>4. checked[p] = 0 /\ checked'[p] = 1 /\ \A r \in Pkgs : r # p => checked'[r] = checked[r]
    BY <1>1, <1>2, <1>3, <1>t DEF IInv, Walk
  <1>5. TypeOK'
    BY <1>1, <1>2, <1>3, <1>t DEF TypeOK
  <1>6. Reached' = Reached /\ ImportEdges' = ImportEdges
    BY <1>1, ProgramFixed
  <1>7. \A n \in 1..Len(stack') : stack'[n].pkg # p
    BY <1>2, <1>3 DEF IInv, Walk
  <1>8. Walk'
    <2>1. \A r \in Pkgs : OnStack(r) <=> OnStack(r)' \/ r = p
      <3>1. \A n \in 1..Len(stack) : n = Len(stack) \/ n \in 1..Len(stack')
        BY <1>3
      <3> QED BY <1>2, <1>3, <3>1 DEF OnStack
    <2>2. \A m, n \in 1..Len(stack') : stack'[m].pkg = stack'[n].pkg => m = n
      BY <1>3 DEF IInv, Walk
    <2>3. \A n \in 1..Len(stack') : checked'[stack'[n].pkg] = 0
      <3>1. \A n \in 1..Len(stack') : stack'[n].pkg \in Pkgs
        <4>1. \A f \in Frames : f.pkg \in Pkgs
          BY DEF Frames
        <4> QED BY <4>1, <1>3
      <3> QED BY <1>3, <1>4, <1>7, <3>1 DEF IInv, Walk
    <2>4. \A r \in Pkgs : r \in scope_map' <=> OnStack(r)' \/ checked'[r] = 1
      BY <1>1, <1>4, <2>1 DEF IInv, Walk
    <2>5. \A r \in Pkgs : checked'[r] \in {0, 1}
      BY <1>4 DEF IInv, Walk
    <2> QED BY <1>1, <1>6, <2>2, <2>3, <2>4, <2>5 DEF IInv, Walk
  <1>9. Calls'
    <2> SUFFICES ASSUME NEW n \in 1..Len(stack'), n < Len(stack')
                 PROVE  stack'[n].phase = "import" /\ <<stack'[n].pkg, stack'[n + 1].pkg>> \in ImportEdges
      BY <1>6 DEF Calls
    <2>1. n \in 1..Len(stack) /\ n + 1 \in 1..Len(stack') /\ n < Len(stack)
      BY <1>3
    <2>2. stack'[n] = stack[n] /\ stack'[n + 1] = stack[n + 1]
      BY <1>3, <2>1
    <2> QED BY <2>1, <2>2 DEF IInv, Calls
  <1>10. Progress'
    <2>1. \A f \in Frames : InStack(f)' => InStack(f)
      BY <1>3 DEF InStack
    <2>2. /\ \A f \in Frames : FrameOK(f) => FrameOK(f)'
          /\ \A r \in Pkgs : AllEntered(r) /\ AllLinked(r) => AllEntered(r)' /\ AllLinked(r)'
      BY <1>1, Monotone
    <2>3. AllEntered(p) /\ AllLinked(p)
      BY <1>1, <1>2, TopFacts DEF FrameOK
    <2>4. \A r \in Pkgs : checked'[r] = 1 => AllEntered(r)' /\ AllLinked(r)'
      BY <1>4, <2>2, <2>3 DEF IInv, Progress
    <2>5. \A f \in Frames : InStack(f)' => FrameOK(f)'
      BY <2>1, <2>2 DEF IInv, Progress
    <2> QED BY <2>4, <2>5 DEF Progress
  <1>11. Graph'
    BY <1>1, GraphUnchanged DEF IInv
  <1> QED BY <1>5, <1>8, <1>9, <1>10, <1>11 DEF IInv

\* Every step of check keeps the invariant.
LEMMA InvStep == IInv /\ [Next]_vars => IInv'
  <1>1. IInv /\ UNCHANGED vars => IInv'
    <2> SUFFICES ASSUME IInv, UNCHANGED vars PROVE IInv'
      OBVIOUS
    <2>1. Reached' = Reached /\ ImportEdges' = ImportEdges
      BY ProgramFixed DEF vars
    <2>2. /\ \A f \in Frames : (FrameOK(f) => FrameOK(f)') /\ (InStack(f)' => InStack(f))
          /\ \A r \in Pkgs : AllEntered(r) /\ AllLinked(r) => AllEntered(r)' /\ AllLinked(r)'
      BY Monotone DEF vars, InStack
    <2>3. \A r \in Pkgs : OnStack(r)' <=> OnStack(r)
      BY DEF vars, OnStack
    <2>4. Graph'
      BY GraphUnchanged DEF vars, IInv
    <2>5. TypeOK' /\ Calls'
      BY <2>1 DEF vars, IInv, TypeOK, Calls
    <2>6. Walk'
      BY <2>1, <2>3 DEF vars, IInv, Walk
    <2>7. Progress'
      BY <2>2 DEF vars, IInv, Progress
    <2> QED BY <2>4, <2>5, <2>6, <2>7 DEF IInv
  <1> QED
    BY <1>1, ImportModuleStep, ImportUserStep, ScanSymbolsStep, BuildSchemaStep, NextScanStep,
       CheckStatementsStep DEF Next

----------------------------------------------------------------------------
(* What the invariant implies. *)

\* Imports that were entered are in scope and in the graph.
LEMMA AllEnteredFacts ==
  ASSUME program \in Programs, NEW p \in Pkgs, AllEntered(p), NEW q \in Imported(p)
  PROVE  q \in scope_map /\ <<p, q>> \in dep_graph
  <1>1. PICK j \in 1..Len(Imports(p)) : q = Imports(p)[j]
    BY ProgramFacts
  <1>2. Len(Imports(p)) \in Nat /\ q \in Pkgs
    BY ProgramFacts
  <1> QED BY <1>1, <1>2 DEF AllEntered, Entered

\* When check has returned, what has a scope is what can be reached, all of it checked.
LEMMA DoneFacts ==
  ASSUME IInv, Done
  PROVE  /\ \A p \in Pkgs : p \in scope_map <=> checked[p] = 1
         /\ scope_map = Reached
  <1>t. program \in Programs /\ scope_map \in SUBSET Pkgs
    BY DEF IInv, TypeOK
  <1>1. \A p \in Pkgs : p \in scope_map <=> checked[p] = 1
    <2>1. \A p \in Pkgs : ~OnStack(p)
      BY DEF Done, OnStack
    <2> QED BY <2>1 DEF IInv, Walk
  <1>2. \A p \in scope_map : Imported(p) \subseteq scope_map
    BY <1>t, <1>1, AllEnteredFacts DEF IInv, Progress
  <1> QED BY <1>t, <1>1, <1>2, ReachedFacts DEF IInv, Walk

\* A package on the stack that the innermost one imports closes a cycle of imports.
LEMMA StackCycle ==
  ASSUME IInv, NEW m \in 1..Len(stack),
         <<stack[Len(stack)].pkg, stack[m].pkg>> \in ImportEdges
  PROVE  IsCyclic(ImportEdges)
  <1> DEFINE N == Len(stack)
             S == {stack[k].pkg : k \in m..N}
  <1>n. N \in Nat /\ m \in m..N /\ m \in Nat
    BY DEF IInv, TypeOK
  <1>1. \A v \in S : \E w \in S : <<v, w>> \in ImportEdges
    <2> SUFFICES ASSUME NEW k \in m..N PROVE \E w \in S : <<stack[k].pkg, w>> \in ImportEdges
      OBVIOUS
    <2>1. CASE k = N
      BY <2>1, <1>n
    <2>2. CASE k # N
      <3>1. k \in 1..N /\ k < N /\ k + 1 \in m..N
        BY <2>2, <1>n
      <3>2. <<stack[k].pkg, stack[k + 1].pkg>> \in ImportEdges
        BY <3>1 DEF IInv, Calls
      <3> QED BY <3>1, <3>2
    <2> QED BY <2>1, <2>2
  <1>2. stack[m].pkg \in S
    BY <1>n
  <1> HIDE DEF S
  <1>3. \A v \in S : v \in {e[1] : e \in ImportEdges}
    <2> SUFFICES ASSUME NEW v \in S PROVE v \in {e[1] : e \in ImportEdges}
      OBVIOUS
    <2>1. PICK w \in S : <<v, w>> \in ImportEdges
      BY <1>1
    <2>2. <<v, w>>[1] = v
      OBVIOUS
    <2> QED BY <2>1, <2>2
  <1>4. S \in SUBSET {e[1] : e \in ImportEdges} /\ S # {}
    BY <1>2, <1>3
  <1> QED BY <1>1, <1>4 DEF IsCyclic

\* Each reachable package is checked once, after what it imports.
LEMMA InvInOrder == IInv => PackagesInOrder
  <1> SUFFICES ASSUME IInv PROVE PackagesInOrder
    OBVIOUS
  <1>t. program \in Programs /\ scope_map \in SUBSET Pkgs /\ stack \in Seq(Frames)
    BY DEF IInv, TypeOK
  <1>1. ChecksEachOnce
    <2>1. \A p \in Pkgs : checked[p] = 0 \/ checked[p] = 1
      BY DEF IInv, Walk
    <2>2. \A p \in Pkgs : checked[p] <= 1
      BY <2>1
    <2>3. Done => \A p \in Pkgs : checked[p] = (IF p \in Reached THEN 1 ELSE 0)
      BY <2>1, DoneFacts
    <2> QED BY <2>2, <2>3 DEF ChecksEachOnce
  <1>2. ImportsFirst
    <2> SUFFICES ASSUME ~IsCyclic(ImportEdges), NEW n \in 1..Len(stack), stack[n].phase = "build",
                        NEW q \in Imported(stack[n].pkg)
                 PROVE  checked[q] = 1
      BY DEF ImportsFirst
    <2>1. n = Len(stack)
      <3>1. n < Len(stack) => stack[n].phase = "import"
        BY DEF IInv, Calls
      <3>2. Len(stack) \in Nat
        BY <1>t
      <3>3. ~(n < Len(stack))
        BY <3>1
      <3> QED BY <3>2, <3>3
    <2>2. stack # <<>> /\ Top = stack[n]
      BY <2>1, <1>t DEF Top
    <2>3. PICK p \in Pkgs : p = stack[n].pkg /\ p \in Reached /\ AllEntered(p)
      BY <2>2, TopFacts DEF FrameOK
    <2>4. q \in Pkgs /\ q \in scope_map /\ <<p, q>> \in ImportEdges
      BY <2>3, <1>t, AllEnteredFacts, EdgeFacts
    <2>5. ~OnStack(q)
      BY <2>1, <2>3, <2>4, StackCycle DEF OnStack
    <2> QED BY <2>4, <2>5 DEF IInv, Walk
  <1> QED BY <1>1, <1>2 DEF PackagesInOrder

\* A cycle is reported exactly when there is one.
LEMMA InvCycles == IInv => ReportsCycles
  <1> SUFFICES ASSUME IInv, Done, IsCyclic(ImportEdges) \/ illegal = {}
               PROVE  circular # {} <=> IsCyclic(ImportEdges) \/ IsCyclic(InheritEdges)
    BY DEF ReportsCycles
  <1>t. program \in Programs
    BY DEF IInv, TypeOK
  <1>g. dep_graph \subseteq ImportEdges \cup InheritEdges /\ (circular # {} <=> IsCyclic(dep_graph))
    BY DEF IInv, Graph
  <1>d. \A p \in Reached : p \in Pkgs /\ AllEntered(p) /\ AllLinked(p)
    BY <1>t, DoneFacts, ReachedFacts DEF IInv, Progress
  <1>1. ImportEdges \subseteq dep_graph
    <2> SUFFICES ASSUME NEW e \in ImportEdges PROVE e \in dep_graph
      OBVIOUS
    <2>1. PICK p \in Reached, q \in Pkgs : e = <<p, q>> /\ q \in Imported(p)
      BY DEF ImportEdges
    <2> QED BY <2>1, <1>t, <1>d, AllEnteredFacts
  <1>2. CASE IsCyclic(ImportEdges)
    BY <1>1, <1>2, <1>g, CyclicMonotone
  <1>3. CASE ~IsCyclic(ImportEdges) /\ illegal = {}
    <2>1. InheritEdges \subseteq dep_graph
      <3> SUFFICES ASSUME NEW e \in InheritEdges PROVE e \in dep_graph
        OBVIOUS
      <3>1. PICK s \in Schemas, u \in Schemas : e = <<s, u>>
        BY DEF InheritEdges
      <3>2. u = program.parent[s] /\ \E p \in Reached \cap Loaded : s \in Declares(p)
        BY <3>1, EdgeFacts
      <3>3. PICK p \in Reached : s \in Declares(p)
        BY <3>2
      <3>4. PICK j \in 1..Len(DeclsOf(p)) : s = DeclsOf(p)[j]
        BY <3>3 DEF Declares
      <3>5. Len(DeclsOf(p)) \in Nat /\ AllLinked(p)
        BY <1>t, <1>d, ProgramFacts
      <3> QED BY <3>1, <3>2, <3>4, <3>5, <1>3 DEF AllLinked, Linked
    <2>2. dep_graph = ImportEdges \cup InheritEdges
      BY <1>1, <1>g, <2>1
    <2>3. IsCyclic(InheritEdges) => IsCyclic(dep_graph)
      BY <2>1, CyclicMonotone
    <2>4. IsCyclic(dep_graph) => IsCyclic(ImportEdges) \/ IsCyclic(InheritEdges)
      <3>1. ImportEdges \in SUBSET (Pkgs \X Pkgs) /\ InheritEdges \in SUBSET (Schemas \X Schemas)
        BY EdgeFacts
      <3>2. Pkgs \cap Schemas = {}
        BY SchemaAssumption DEF SchemaAssumption
      <3> QED BY <2>2, <3>1, <3>2, CyclicSplit
    <2> QED BY <1>3, <1>g, <2>3, <2>4
  <1> QED BY <1>2, <1>3

\* However packages import each other, check handles every reachable one exactly
\* once, and after all that it imports unless the imports are circular.
THEOREM InOrder == Spec => []PackagesInOrder
  BY InvInit, InvStep, InvInOrder, PTL DEF Spec

\* add_dependencies and is_cyclic on the one shared graph report a circular
\* reference if and only if imports or parents have a cycle.
THEOREM Cycles == Spec => []ReportsCycles
  BY InvInit, InvStep, InvCycles, PTL DEF Spec

----------------------------------------------------------------------------
(* The schema types. *)

Ranks == [Schemas -> 1..MAX_SCOPE_SCAN_COUNT]

\* The type of s has all that s inherits, and that of a mixin all of it in its
\* attribute map.
Full(s) == view[s] = Ancestry(s) /\ (s \in Mixins => attrs[s] = Ancestry(s))

\* In scan k, before the i-th declaration, the types of p that r lists are full.
Claimed(r, p, k, i) ==
    \A j \in 1..Len(DeclsOf(p)) :
        r[DeclsOf(p)[j]] < k \/ (r[DeclsOf(p)[j]] = k /\ j < i) => Full(DeclsOf(p)[j])

Complete(r) ==
    /\ \A f \in Frames : InStack(f) /\ f.phase = "build" => Claimed(r, f.pkg, f.scan, f.i)
    /\ \A p \in Pkgs : checked[p] = 1 => \A s \in Declares(p) : Full(s)

TypesTyped == attrs \in [Schemas -> SUBSET Schemas] /\ view \in [Schemas -> SUBSET Schemas]

\* While all that is looked up is found, scan k completes the types of rank k.
SeesInv ==
    /\ TypesTyped
    /\ PlainMixins /\ ~IsCyclic(ImportEdges) /\ illegal = {} =>
          \A r \in Ranks : CompleteAfter(r) => Complete(r)

\* Which scans would complete a program depends on the program alone.
LEMMA CompleteAfterFixed ==
  ASSUME program' = program
  PROVE  \A r : CompleteAfter(r)' <=> CompleteAfter(r)
  <1>1. Reached' = Reached
    BY ProgramFixed
  <1>2. \A s : Parts(s)' = Parts(s)
    BY DEF Parts
  <1> SUFFICES ASSUME NEW r PROVE CompleteAfter(r)' <=> CompleteAfter(r)
    OBVIOUS
  <1> QED BY <1>1, <1>2, Zenon DEF CompleteAfter

\* What the parents and mixins of a program are.
LEMMA InheritanceFacts ==
  ASSUME program \in Programs, NEW s \in Schemas
  PROVE  /\ program.parent[s] \in Schemas \cup {NoSchema}
         /\ program.mixins[s] \subseteq Schemas
         /\ Parts(s) \subseteq Schemas
         /\ program.parent[s] # NoSchema => program.parent[s] \in Parts(s)
         /\ program.mixins[s] \subseteq Parts(s)
         /\ \A u \in Parts(s) : u = program.parent[s] \/ u \in program.mixins[s]
  <1>1. program \in [imports : [Pkgs -> Seq(Pkgs \cup Modules)],
                     parent : [Schemas -> Schemas \cup {NoSchema}],
                     mixins : [Schemas -> SUBSET Schemas]]
    BY ProgramAssumption DEF ProgramAssumption
  <1>2. program.parent \in [Schemas -> Schemas \cup {NoSchema}] /\ program.mixins \in [Schemas -> SUBSET Schemas]
    BY <1>1
  <1>3. program.parent[s] \in Schemas \cup {NoSchema} /\ program.mixins[s] \subseteq Schemas
    BY <1>2
  <1>4. NoSchema \notin Schemas
    BY SchemaAssumption DEF SchemaAssumption
  <1> QED BY <1>3, <1>4 DEF Parts

\* Ancestry is the least set with s that parents and mixins do not leave.
LEMMA AncestryLeast ==
  ASSUME program \in Programs, NEW s \in Schemas
  PROVE  /\ Ancestry(s) \subseteq Schemas /\ s \in Ancestry(s) /\ Closed(Ancestry(s))
         /\ \A S \in SUBSET Schemas : s \in S /\ Closed(S) => Ancestry(s) \subseteq S
  <1>1. Ancestry(s) \subseteq Schemas /\ s \in Ancestry(s)
    BY DEF Ancestry
  <1>2. \A S \in SUBSET Schemas : s \in S /\ Closed(S) => Ancestry(s) \subseteq S
    BY DEF Ancestry
  <1>3. ASSUME NEW x \in Ancestry(s), NEW y \in Schemas,
               (program.parent[x] # NoSchema /\ y = program.parent[x]) \/ y \in program.mixins[x]
        PROVE  y \in Ancestry(s)
    <2> SUFFICES ASSUME NEW S \in SUBSET Schemas, s \in S, Closed(S) PROVE y \in S
      BY DEF Ancestry
    <2>1. x \in S
      BY <1>2
    <2> QED BY <2>1, <1>3 DEF Closed
  <1>4. \A x \in Ancestry(s) : program.parent[x] \in Schemas \cup {NoSchema} /\ program.mixins[x] \subseteq Schemas
    BY <1>1, InheritanceFacts
  <1>5. Closed(Ancestry(s))
    BY <1>3, <1>4 DEF Closed
  <1> QED BY <1>1, <1>2, <1>5

\* It is s with the ancestries of its parent and mixins.
LEMMA AncestryParts ==
  ASSUME program \in Programs, NEW s \in Schemas
  PROVE  Ancestry(s) = {s} \cup UNION {Ancestry(u) : u \in Parts(s)}
  <1> DEFINE A == {s} \cup UNION {Ancestry(u) : u \in Parts(s)}
  <1>p. /\ Parts(s) \subseteq Schemas
        /\ program.parent[s] # NoSchema => program.parent[s] \in Parts(s)
        /\ program.mixins[s] \subseteq Parts(s)
        /\ \A u \in Parts(s) : u = program.parent[s] \/ u \in program.mixins[s]
    BY InheritanceFacts
  <1>u. \A u \in Parts(s) : Ancestry(u) \subseteq Schemas /\ u \in Ancestry(u) /\ Closed(Ancestry(u))
    BY <1>p, AncestryLeast
  <1>1. A \subseteq Schemas /\ s \in A
    BY <1>u
  <1>2. Closed(A)
    <2> SUFFICES ASSUME NEW x \in A
                 PROVE  /\ program.parent[x] # NoSchema => program.parent[x] \in A
                        /\ program.mixins[x] \subseteq A
      BY DEF Closed
    <2>1. CASE x = s
      BY <2>1, <1>p, <1>u
    <2>2. CASE x # s
      <3>1. PICK u \in Parts(s) : x \in Ancestry(u)
        BY <2>2
      <3>2. (program.parent[x] # NoSchema => program.parent[x] \in Ancestry(u)) /\ program.mixins[x] \subseteq Ancestry(u)
        BY <3>1, <1>u DEF Closed
      <3> QED BY <3>2
    <2> QED BY <2>1, <2>2
  <1>3. Ancestry(s) \subseteq A
    <2> HIDE DEF A
    <2> QED BY <1>1, <1>2, AncestryLeast
  <1>4. A \subseteq Ancestry(s)
    <2>1. Ancestry(s) \subseteq Schemas /\ s \in Ancestry(s) /\ Closed(Ancestry(s))
      BY AncestryLeast
    <2>2. ASSUME NEW u \in Parts(s) PROVE Ancestry(u) \subseteq Ancestry(s)
      <3>1. u \in Ancestry(s) /\ u \in Schemas
        BY <1>p, <2>1, SchemaAssumption DEF Closed, Parts, SchemaAssumption
      <3> QED BY <3>1, <2>1, AncestryLeast
    <2> QED BY <2>1, <2>2
  <1> QED BY <1>3, <1>4

\* Ancestry depends on the program alone.
LEMMA AncestryFixed ==
  ASSUME program' = program, NEW s \in Schemas
  PROVE  Ancestry(s)' = Ancestry(s)
  BY DEF Ancestry, Closed

\* A type that is not rewritten stays full.
LEMMA FullKept ==
  ASSUME program' = program, NEW s \in Schemas, attrs'[s] = attrs[s], view'[s] = view[s], Full(s)
  PROVE  Full(s)'
  BY AncestryFixed DEF Full

\* A step that writes no type and checks no package.
LEMMA SeesMove ==
  ASSUME IInv, SeesInv, UNCHANGED <<program, attrs, view, checked>>, illegal \subseteq illegal',
         \A r \in Ranks : Complete(r) =>
            \A f \in Frames : InStack(f)' /\ f.phase = "build" =>
                InStack(f) \/ Claimed(r, f.pkg, f.scan, f.i)
  PROVE  SeesInv'
  <1>t. program \in Programs
    BY DEF IInv, TypeOK
  <1>1. TypesTyped'
    BY DEF SeesInv, TypesTyped
  <1>2. ImportEdges' = ImportEdges
    BY ProgramFixed
  <1>3. \A p \in Pkgs : DeclsOf(p)' = DeclsOf(p) /\ DeclsOf(p) \in Seq(Schemas)
    BY <1>t, ProgramFixed, ProgramFacts
  <1>4. \A s \in Schemas : Full(s) => Full(s)'
    BY FullKept
  <1>5. \A r \in Ranks, p \in Pkgs, k, i \in Int : Claimed(r, p, k, i) => Claimed(r, p, k, i)'
    BY <1>3, <1>4 DEF Claimed
  <1>6. \A p \in Pkgs : Declares(p)' = Declares(p) /\ Declares(p) \subseteq Schemas
    BY <1>3 DEF Declares
  <1>7. ASSUME NEW r \in Ranks, Complete(r) PROVE Complete(r)'
    <2>1. ASSUME NEW f \in Frames, InStack(f)', f.phase = "build" PROVE Claimed(r, f.pkg, f.scan, f.i)'
      <3>1. Claimed(r, f.pkg, f.scan, f.i)
        BY <1>7, <2>1 DEF Complete
      <3>2. PICK p \in Pkgs, k \in Int, i \in Int : f.pkg = p /\ f.scan = k /\ f.i = i
        BY DEF Frames
      <3> QED BY <1>5, <3>1, <3>2
    <2>2. \A p \in Pkgs : checked'[p] = 1 => \A s \in Declares(p)' : Full(s)'
      BY <1>4, <1>6, <1>7 DEF Complete
    <2> QED BY <2>1, <2>2 DEF Complete
  <1>9. \A r \in Ranks : CompleteAfter(r)' <=> CompleteAfter(r)
    BY CompleteAfterFixed
  <1>10. PlainMixins' <=> PlainMixins
    BY DEF PlainMixins
  <1>11. IsCyclic(ImportEdges)' <=> IsCyclic(ImportEdges)
    BY <1>2 DEF IsCyclic
  <1>12. illegal' = {} => illegal = {}
    OBVIOUS
  <1> QED BY <1>1, <1>7, <1>9, <1>10, <1>11, <1>12 DEF SeesInv

\* The calls after the innermost one has moved on to g, and perhaps entered h.
LEMMA CallsAfter ==
  ASSUME IInv, stack # <<>>,
         NEW phase \in {"import", "build"}, NEW i \in Nat \ {0}, NEW scan \in Nat \ {0},
         NEW g \in Frames, g = [pkg |-> Top.pkg, phase |-> phase, i |-> i, scan |-> scan],
         NEW h \in Frames,
         stack' = Advance(phase, i, scan) \/ stack' = Append(Advance(phase, i, scan), h)
  PROVE  \A f \in Frames : InStack(f)' => InStack(f) \/ f = g \/ f = h
  <1>t. stack \in Seq(Frames)
    BY DEF IInv, TypeOK
  <1> DEFINE A == Advance(phase, i, scan)
  <1>1. /\ A \in Seq(Frames) /\ Len(A) = Len(stack) /\ A[Len(stack)] = g
        /\ \A n \in 1..Len(stack) : n # Len(stack) => A[n] = stack[n]
    BY <1>t, AdvanceFacts
  <1> HIDE DEF A
  <1>2. CASE stack' = A
    BY <1>1, <1>2 DEF InStack
  <1>3. CASE stack' = Append(A, h)
    <2>1. /\ Len(stack') = Len(A) + 1 /\ stack'[Len(A) + 1] = h /\ Len(A) \in Nat
          /\ \A n \in 1..Len(A) : stack'[n] = A[n]
      BY <1>1, <1>3
    <2> QED BY <1>1, <2>1 DEF InStack
  <1> QED BY <1>2, <1>3 DEF A

\* Imports write no type.
LEMMA SeesImports == IInv /\ SeesInv /\ (ImportModule \/ ImportUser) => SeesInv'
  <1> SUFFICES ASSUME IInv, SeesInv, ImportModule \/ ImportUser PROVE SeesInv'
    OBVIOUS
  <1>1. stack # <<>> /\ Top.phase = "import" /\ UNCHANGED <<program, attrs, view, checked, illegal>>
    BY DEF ImportModule, ImportUser, At
  <1>2. PICK p \in Pkgs, k \in Nat \ {0} : p = Top.pkg /\ k = Top.i
    BY <1>1, TopFacts
  <1>3. PICK g \in Frames : g = [pkg |-> Top.pkg, phase |-> "import", i |-> k + 1, scan |-> 1]
    <2>1. [pkg |-> p, phase |-> "import", i |-> k + 1, scan |-> 1] \in Frames
      BY DEF Frames
    <2> QED BY <1>2, <2>1
  <1>4. PICK h \in Frames : /\ h.phase = "import"
                            /\ stack' = Advance("import", k + 1, 1) \/ stack' = Append(Advance("import", k + 1, 1), h)
    <2>1. CASE ImportModule
      BY <1>1, <1>2, <1>3, <2>1 DEF ImportModule, Goto
    <2>2. CASE ImportUser
      <3>1. PICK q \in Pkgs : q = Imports(Top.pkg)[Top.i]
        BY <2>2 DEF ImportUser
      <3>2. Frame(q) \in Frames /\ Frame(q).phase = "import"
        BY DEF Frame, Frames
      <3>3. stack' = Advance("import", k + 1, 1) \/ stack' = Append(Advance("import", k + 1, 1), Frame(q))
        BY <1>2, <2>2, <3>1 DEF ImportUser, Goto
      <3> QED BY <3>2, <3>3
    <2> QED BY <2>1, <2>2
  <1>5. \A f \in Frames : InStack(f)' => InStack(f) \/ f = g \/ f = h
    <2>1. k + 1 \in Nat \ {0} /\ 1 \in Nat \ {0}
      OBVIOUS
    <2> QED BY <1>1, <1>3, <1>4, <2>1, CallsAfter
  <1>6. g.phase = "import"
    BY <1>3
  <1>7. \A f \in Frames : InStack(f)' /\ f.phase = "build" => InStack(f)
    BY <1>4, <1>5, <1>6
  <1> QED BY <1>1, <1>7, SeesMove

\* Before the first declaration nothing is claimed of the first scan.
LEMMA SeesScanSymbols == IInv /\ SeesInv /\ ScanSymbols => SeesInv'
  <1> SUFFICES ASSUME IInv, SeesInv, ScanSymbols PROVE SeesInv'
    OBVIOUS
  <1>1. /\ stack # <<>> /\ stack' = Advance("build", 1, 1)
        /\ UNCHANGED <<program, attrs, view, checked, illegal>>
    BY DEF ScanSymbols, At, Goto
  <1>2. PICK p \in Pkgs : p = Top.pkg
    BY <1>1, TopFacts
  <1>3. PICK g \in Frames : g = [pkg |-> Top.pkg, phase |-> "build", i |-> 1, scan |-> 1]
    <2>1. [pkg |-> p, phase |-> "build", i |-> 1, scan |-> 1] \in Frames
      BY DEF Frames
    <2> QED BY <1>2, <2>1
  <1>4. \A f \in Frames : InStack(f)' => InStack(f) \/ f = g
    BY <1>1, <1>3, CallsAfter
  <1>5. \A r \in Ranks : Claimed(r, p, 1, 1)
    <2>1. DeclsOf(p) \in Seq(Schemas)
      BY ProgramFacts DEF IInv, TypeOK
    <2>2. \A r \in Ranks, s \in Schemas : r[s] \in 1..3
      BY DEF Ranks, MAX_SCOPE_SCAN_COUNT
    <2> QED BY <2>1, <2>2 DEF Claimed
  <1>6. g.pkg = p /\ g.scan = 1 /\ g.i = 1
    BY <1>2, <1>3
  <1> QED BY <1>1, <1>4, <1>5, <1>6, SeesMove

\* At the end of a scan all of its rank are full.
LEMMA SeesNextScan == IInv /\ SeesInv /\ NextScan => SeesInv'
  <1> SUFFICES ASSUME IInv, SeesInv, NextScan PROVE SeesInv'
    OBVIOUS
  <1>1. /\ stack # <<>> /\ Top.phase = "build" /\ Top.i > Len(DeclsOf(Top.pkg))
        /\ stack' = Advance("build", 1, Top.scan + 1)
        /\ UNCHANGED <<program, attrs, view, checked, illegal>>
    BY DEF NextScan, At, Goto
  <1>2. PICK p \in Pkgs, k \in Nat \ {0}, sc \in Nat \ {0} : p = Top.pkg /\ k = Top.i /\ sc = Top.scan
    BY <1>1, TopFacts
  <1>3. PICK g \in Frames : g = [pkg |-> Top.pkg, phase |-> "build", i |-> 1, scan |-> sc + 1]
    <2>1. [pkg |-> p, phase |-> "build", i |-> 1, scan |-> sc + 1] \in Frames
      BY DEF Frames
    <2> QED BY <1>2, <2>1
  <1>4. \A f \in Frames : InStack(f)' => InStack(f) \/ f = g
    <2>1. 1 \in Nat \ {0} /\ sc + 1 \in Nat \ {0} /\ stack' = Advance("build", 1, sc + 1)
      BY <1>1, <1>2
    <2> QED BY <1>1, <1>3, <2>1, CallsAfter
  <1>5. ASSUME NEW r \in Ranks, Complete(r) PROVE Claimed(r, p, sc + 1, 1)
    <2>1. DeclsOf(p) \in Seq(Schemas)
      BY ProgramFacts DEF IInv, TypeOK
    <2>2. \A s \in Schemas : r[s] \in 1..3
      BY DEF Ranks, MAX_SCOPE_SCAN_COUNT
    <2>3. Claimed(r, p, sc, k)
      <3>1. Top \in Frames /\ InStack(Top)
        BY <1>1, TopFacts DEF InStack
      <3> QED BY <1>1, <1>2, <1>5, <3>1 DEF Complete
    <2>4. k > Len(DeclsOf(p))
      BY <1>1, <1>2
    <2> QED BY <2>1, <2>2, <2>3, <2>4 DEF Claimed
  <1>6. g.pkg = p /\ g.scan = sc + 1 /\ g.i = 1
    BY <1>2, <1>3
  <1> QED BY <1>1, <1>4, <1>5, <1>6, SeesMove

\* Where a schema was declared, and as which declaration, when each has one.
LEMMA OneDeclaration ==
  ASSUME DeclaredOnce, NEW p \in Pkgs, NEW q \in Pkgs,
         NEW i \in 1..Len(DeclsOf(p)), NEW j \in 1..Len(DeclsOf(q)), DeclsOf(p)[i] = DeclsOf(q)[j]
  PROVE  p = q /\ i = j /\ p \in Loaded /\ DeclsOf(p) = Decls[p]
  <1>1. p \in Loaded /\ q \in Loaded
    BY DEF DeclsOf
  <1>2. DeclsOf(p) = Decls[p] /\ DeclsOf(q) = Decls[q]
    BY <1>1 DEF DeclsOf
  <1> QED BY <1>1, <1>2 DEF DeclaredOnce

\* When the k-th declaration is built in scan sc, a parent or mixin that is found
\* is full, if r has the declaration complete by then.
LEMMA PartsFull ==
  ASSUME IInv, DeclaredOnce, ~IsCyclic(ImportEdges),
         NEW r \in Ranks, CompleteAfter(r), Complete(r),
         stack # <<>>, Top.phase = "build",
         NEW p \in Pkgs, NEW k \in Nat \ {0}, NEW sc \in Nat \ {0}, p = Top.pkg, k = Top.i, sc = Top.scan,
         k \in 1..Len(DeclsOf(p)),
         NEW s \in Schemas, s = DeclsOf(p)[k], r[s] <= sc,
         NEW u \in Parts(s), Visible(p, u)
  PROVE  Full(u)
  <1>t. program \in Programs
    BY DEF IInv, TypeOK
  <1>n. DeclsOf(p) \in Seq(Schemas) /\ Len(DeclsOf(p)) \in Nat
    BY <1>t, ProgramFacts
  <1>u. u \in Schemas
    BY <1>t, InheritanceFacts
  <1>r. r[s] \in 1..3 /\ r[u] \in 1..3 /\ r[s] \in Int /\ r[u] \in Int
    BY <1>u DEF Ranks, MAX_SCOPE_SCAN_COUNT
  <1>1. CASE u \in Declares(p)
    <2>1. PICK j \in 1..Len(DeclsOf(p)) : u = DeclsOf(p)[j]
      BY <1>1 DEF Declares
    <2>2. p \in Loaded /\ DeclsOf(p) = Decls[p]
      BY <2>1 DEF DeclsOf
    <2>3. r[u] < r[s] \/ (r[u] = r[s] /\ j < k)
      BY <2>1, <2>2, TopFacts DEF CompleteAfter
    <2>4. r[u] < sc \/ (r[u] = sc /\ j < k)
      BY <2>3, <1>r
    <2>5. Claimed(r, p, sc, k)
      <3>1. Top \in Frames /\ InStack(Top)
        BY TopFacts DEF InStack
      <3> QED BY <3>1 DEF Complete
    <2> QED BY <2>1, <2>4, <2>5 DEF Claimed
  <1>2. CASE u \notin Declares(p)
    <2>1. PICK i \in 1..Len(Imports(p)) : Imports(p)[i] \in Pkgs /\ u \in Declares(Imports(p)[i])
      BY <1>2 DEF Visible
    <2>2. PICK q \in Pkgs : q = Imports(p)[i] /\ q \in Imported(p) /\ u \in Declares(q)
      BY <2>1, <1>t, ProgramFacts
    <2>3. checked[q] = 1
      <3>1. ImportsFirst
        BY InvInOrder DEF PackagesInOrder
      <3>2. Len(stack) \in 1..Len(stack) /\ Top = stack[Len(stack)]
        BY TopFacts
      <3> QED BY <2>2, <3>1, <3>2 DEF ImportsFirst
    <2> QED BY <2>2, <2>3 DEF Complete
  <1> QED BY <1>1, <1>2

\* A declaration whose parts are all found and full gets a full type.
LEMMA BuildsFull ==
  ASSUME IInv, TypesTyped, BuildSchema, PlainMixins, illegal' = {},
         NEW p \in Pkgs, p = Top.pkg, NEW s \in Schemas, s = DeclsOf(p)[Top.i],
         \A u \in Parts(s) : Visible(p, u) => Full(u)
  PROVE  Full(s)'
  <1>t. program \in Programs
    BY DEF IInv, TypeOK
  <1> DEFINE base == ParentType(p, s)
             mixin == MixinTypes(p, s)
             own == {s} \cup UNION {attrs[u] : u \in mixin}
             missing == (program.parent[s] # NoSchema /\ base = {}) \/ mixin # program.mixins[s]
  <1>1. /\ attrs' = [attrs EXCEPT ![s] = own]
        /\ view' = [view EXCEPT ![s] = own \cup UNION {view[u] : u \in base}]
        /\ illegal' = IF missing THEN illegal \cup {s} ELSE illegal
        /\ program' = program
    BY DEF BuildSchema
  <1>2. ~missing
    BY <1>1
  <1>p. /\ program.parent[s] # NoSchema => program.parent[s] \in Parts(s)
        /\ program.mixins[s] \subseteq Parts(s)
        /\ \A u \in Parts(s) : u = program.parent[s] \/ u \in program.mixins[s]
        /\ \A u \in Parts(s) : u \in Schemas /\ u # NoSchema
    BY <1>t, InheritanceFacts, SchemaAssumption DEF SchemaAssumption
  <1>3. mixin = program.mixins[s] /\ \A u \in mixin : u \in Mixins /\ Visible(p, u)
    BY <1>2 DEF MixinTypes
  <1>4. \A u \in mixin : attrs[u] = Ancestry(u)
    BY <1>3, <1>p DEF Full
  <1>5. base = IF program.parent[s] = NoSchema THEN {} ELSE {program.parent[s]}
    <2>1. \A u \in base : u = program.parent[s] /\ Visible(p, u) /\ u \in Schemas
      BY DEF ParentType, Visible, IInv, TypeOK
    <2>2. program.parent[s] = NoSchema => base = {}
      BY <2>1, SchemaAssumption DEF SchemaAssumption
    <2>3. program.parent[s] # NoSchema => base # {}
      BY <1>2
    <2> HIDE DEF base
    <2> QED BY <2>1, <2>2, <2>3
  <1>6. \A u \in base : view[u] = Ancestry(u)
    <2>1. \A u \in base : Visible(p, u) /\ u = program.parent[s]
      BY DEF ParentType
    <2> QED BY <2>1, <1>5, <1>p DEF Full
  <1>7. own = {s} \cup UNION {Ancestry(u) : u \in mixin}
    BY <1>4
  <1>8. own \cup UNION {view[u] : u \in base} = {s} \cup UNION {Ancestry(u) : u \in Parts(s)}
    <2>1. Parts(s) = base \cup mixin
      BY <1>3, <1>5, <1>p
    <2>2. UNION {view[u] : u \in base} = UNION {Ancestry(u) : u \in base}
      BY <1>6
    <2> HIDE DEF base, mixin, own
    <2> QED BY <1>7, <2>1, <2>2
  <1>9. own \cup UNION {view[u] : u \in base} = Ancestry(s)
    BY <1>t, <1>8, AncestryParts
  <1>10. s \in Mixins => own = Ancestry(s)
    <2> SUFFICES ASSUME s \in Mixins PROVE own = Ancestry(s)
      OBVIOUS
    <2>1. base = {}
      BY <1>5 DEF PlainMixins
    <2> HIDE DEF base, own
    <2> QED BY <2>1, <1>9
  <1>11. attrs'[s] = own /\ view'[s] = own \cup UNION {view[u] : u \in base}
    <2> HIDE DEF base, own
    <2> QED BY <1>1 DEF TypesTyped
  <1>12. Ancestry(s)' = Ancestry(s)
    BY <1>1, AncestryFixed
  <1> HIDE DEF base, own, mixin, missing
  <1> QED BY <1>9, <1>10, <1>11, <1>12 DEF Full

\* The type of one declaration is rewritten, and full when r says so.
LEMMA SeesBuildSchema == DeclaredOnce /\ IInv /\ SeesInv /\ BuildSchema => SeesInv'
  <1> SUFFICES ASSUME DeclaredOnce, IInv, SeesInv, BuildSchema PROVE SeesInv'
    OBVIOUS
  <1>t. program \in Programs
    BY DEF IInv, TypeOK
  <1>0. /\ stack # <<>> /\ Top.phase = "build" /\ Top.i <= Len(DeclsOf(Top.pkg))
        /\ stack' = Advance("build", Top.i + 1, Top.scan)
        /\ UNCHANGED <<program, checked>> /\ illegal \subseteq illegal'
    BY DEF BuildSchema, At, Goto
  <1>1. PICK p \in Pkgs, k \in Nat \ {0}, sc \in Nat \ {0} : p = Top.pkg /\ k = Top.i /\ sc = Top.scan
    BY <1>0, TopFacts
  <1>n. DeclsOf(p) \in Seq(Schemas) /\ Len(DeclsOf(p)) \in Nat /\ k \in 1..Len(DeclsOf(p))
    BY <1>0, <1>1, <1>t, ProgramFacts
  <1>2. PICK s \in Schemas : s = DeclsOf(p)[k]
    BY <1>n
  <1>3. PICK own \in SUBSET Schemas, all \in SUBSET Schemas :
           attrs' = [attrs EXCEPT ![s] = own] /\ view' = [view EXCEPT ![s] = all]
    <2> DEFINE o == {s} \cup UNION {attrs[u] : u \in MixinTypes(p, s)}
               a == o \cup UNION {view[u] : u \in ParentType(p, s)}
    <2>1. attrs' = [attrs EXCEPT ![s] = o] /\ view' = [view EXCEPT ![s] = a]
      BY <1>1, <1>2 DEF BuildSchema
    <2>2. ParentType(p, s) \subseteq Schemas /\ MixinTypes(p, s) \subseteq Schemas
      BY DEF ParentType, MixinTypes, Visible, IInv, TypeOK
    <2>3. o \in SUBSET Schemas
      BY <2>2 DEF SeesInv, TypesTyped
    <2>4. a \in SUBSET Schemas
      BY <2>2, <2>3 DEF SeesInv, TypesTyped
    <2> QED BY <2>1, <2>3, <2>4
  <1>4. TypesTyped'
    BY <1>3 DEF SeesInv, TypesTyped
  <1>5. \A u \in Schemas : u # s /\ Full(u) => Full(u)'
    <2>1. \A u \in Schemas : u # s => attrs'[u] = attrs[u] /\ view'[u] = view[u]
      BY <1>3 DEF SeesInv, TypesTyped
    <2> QED BY <1>0, <2>1, FullKept
  <1>6. SUFFICES ASSUME PlainMixins', ~IsCyclic(ImportEdges)', illegal' = {},
                        NEW r \in Ranks, CompleteAfter(r)'
                 PROVE  Complete(r)'
    BY <1>4 DEF SeesInv
  <1>7. /\ PlainMixins /\ ~IsCyclic(ImportEdges) /\ illegal = {}
        /\ CompleteAfter(r)
    <2>1. PlainMixins' <=> PlainMixins
      BY <1>0 DEF PlainMixins
    <2>2. IsCyclic(ImportEdges)' <=> IsCyclic(ImportEdges)
      <3>1. ImportEdges' = ImportEdges
        BY <1>0, ProgramFixed
      <3> QED BY <3>1 DEF IsCyclic
    <2>3. CompleteAfter(r)' <=> CompleteAfter(r)
      BY <1>0, CompleteAfterFixed
    <2> QED BY <1>0, <1>6, <2>1, <2>2, <2>3
  <1>8. Complete(r)
    BY <1>7 DEF SeesInv
  <1>9. r[s] <= sc => Full(s)'
    <2> SUFFICES ASSUME r[s] <= sc PROVE Full(s)'
      OBVIOUS
    <2>1. \A u \in Parts(s) : Visible(p, u) => Full(u)
      BY <1>0, <1>1, <1>2, <1>n, <1>7, <1>8, PartsFull
    <2>2. s = DeclsOf(p)[Top.i]
      BY <1>1, <1>2
    <2>3. TypesTyped
      BY DEF SeesInv
    <2> QED BY <1>1, <1>6, <1>7, <2>1, <2>2, <2>3, BuildsFull
  <1>d. \A q \in Pkgs : DeclsOf(q)' = DeclsOf(q) /\ DeclsOf(q) \in Seq(Schemas)
    BY <1>0, <1>t, ProgramFixed, ProgramFacts
  <1>r. \A u \in Schemas : r[u] \in 1..3
    BY DEF Ranks, MAX_SCOPE_SCAN_COUNT
  <1>10. Claimed(r, p, sc, k + 1)'
    <2> SUFFICES ASSUME NEW j \in 1..Len(DeclsOf(p)),
                        r[DeclsOf(p)[j]] < sc \/ (r[DeclsOf(p)[j]] = sc /\ j < k + 1)
                 PROVE  Full(DeclsOf(p)[j])'
      BY <1>d DEF Claimed
    <2>1. PICK u \in Schemas : u = DeclsOf(p)[j]
      BY <1>n
    <2>2. CASE j = k
      <3>1. u = s /\ r[s] <= sc
        BY <1>2, <1>r, <2>1, <2>2
      <3> QED BY <1>0, <1>9, <1>d, <2>1, <3>1
    <2>3. CASE j # k
      <3>1. u # s
        BY <1>2, <1>n, <2>1, <2>3, OneDeclaration
      <3>2. Claimed(r, p, sc, k)
        <4>1. Top \in Frames /\ InStack(Top)
          BY <1>0, TopFacts DEF InStack
        <4> QED BY <1>0, <1>1, <1>8, <4>1 DEF Complete
      <3>3. r[u] < sc \/ (r[u] = sc /\ j < k)
        BY <1>n, <2>1, <2>3
      <3>4. Full(u)
        BY <2>1, <3>2, <3>3 DEF Claimed
      <3> QED BY <1>5, <1>d, <2>1, <3>1, <3>4
    <2> QED BY <2>2, <2>3
  <1>11. PICK g \in Frames : g = [pkg |-> Top.pkg, phase |-> "build", i |-> k + 1, scan |-> sc]
    <2>1. [pkg |-> p, phase |-> "build", i |-> k + 1, scan |-> sc] \in Frames
      BY DEF Frames
    <2> QED BY <1>1, <2>1
  <1>12. \A f \in Frames : InStack(f)' => InStack(f) \/ f = g
    <2>1. k + 1 \in Nat \ {0} /\ stack' = Advance("build", k + 1, sc)
      BY <1>0, <1>1
    <2> QED BY <1>0, <1>11, <2>1, CallsAfter
  <1>13. ASSUME NEW f \in Frames, InStack(f)', f.phase = "build" PROVE f = g
    <2>1. PICK n \in 1..Len(stack') : stack'[n] = f
      BY <1>13 DEF InStack
    <2>2. Calls'
      BY BuildSchemaStep DEF IInv
    <2>3. stack' \in Seq(Frames) /\ Len(stack') = Len(stack) /\ stack'[Len(stack)] = g
      <3>1. k + 1 \in Nat \ {0} /\ stack \in Seq(Frames) /\ stack' = Advance("build", k + 1, sc)
        BY <1>0, <1>1 DEF IInv, TypeOK
      <3> QED BY <1>0, <1>11, <3>1, AdvanceFacts
    <2>4. n < Len(stack') => stack'[n].phase = "import"
      BY <2>2 DEF Calls
    <2>5. Len(stack') \in Nat
      BY <2>3
    <2>6. ~(n < Len(stack'))
      BY <1>13, <2>1, <2>4
    <2>7. n = Len(stack')
      BY <2>5, <2>6
    <2> QED BY <2>1, <2>3, <2>7
  <1>14. \A f \in Frames : InStack(f)' /\ f.phase = "build" => Claimed(r, f.pkg, f.scan, f.i)'
    <2>1. g.pkg = p /\ g.scan = sc /\ g.i = k + 1
      BY <1>1, <1>11
    <2> QED BY <1>10, <1>13, <2>1
  <1>15. ASSUME NEW q \in Pkgs, checked'[q] = 1, NEW u \in Declares(q)' PROVE Full(u)'
    <2>1. u \in Declares(q) /\ u \in Schemas /\ checked[q] = 1
      BY <1>0, <1>15, <1>d DEF Declares
    <2>2. q # p
      BY <1>0, <1>1, <2>1, TopFacts DEF IInv, Walk
    <2>3. PICK j \in 1..Len(DeclsOf(q)) : u = DeclsOf(q)[j]
      BY <2>1 DEF Declares
    <2>4. u # s
      BY <1>2, <1>n, <2>2, <2>3, OneDeclaration
    <2>5. Full(u)
      BY <1>8, <2>1 DEF Complete
    <2> QED BY <1>5, <2>1, <2>4, <2>5
  <1> QED BY <1>14, <1>15 DEF Complete

\* After the last scan every type of the package is full.
LEMMA SeesCheckStatements == IInv /\ SeesInv /\ CheckStatements => SeesInv'
  <1> SUFFICES ASSUME IInv, SeesInv, CheckStatements PROVE SeesInv'
    OBVIOUS
  <1>t. program \in Programs /\ checked \in [Pkgs -> Nat] /\ stack \in Seq(Frames)
    BY DEF IInv, TypeOK
  <1>1. /\ stack # <<>> /\ Top.phase = "build" /\ Top.scan > MAX_SCOPE_SCAN_COUNT
        /\ checked' = [checked EXCEPT ![Top.pkg] = @ + 1]
        /\ stack' = SubSeq(stack, 1, Len(stack) - 1)
        /\ UNCHANGED <<program, attrs, view, illegal>>
    BY DEF CheckStatements, At
  <1>2. PICK p \in Pkgs, k \in Nat \ {0}, sc \in Nat \ {0} : p = Top.pkg /\ k = Top.i /\ sc = Top.scan
    BY <1>1, TopFacts
  <1>3. \A q \in Pkgs : q # p => checked'[q] = checked[q]
    BY <1>1, <1>2, <1>t
  <1>4. \A f \in Frames : InStack(f)' => InStack(f)
    <2>1. Len(stack) \in Nat /\ Len(stack) - 1 \in Nat
      BY <1>1, <1>t
    <2> DEFINE m == Len(stack) - 1
    <2>2. m \in Nat /\ m <= Len(stack)
      BY <2>1
    <2>3. Len(SubSeq(stack, 1, m)) = m /\ \A n \in 1..m : SubSeq(stack, 1, m)[n] = stack[n] /\ n \in 1..Len(stack)
      <3> HIDE DEF m
      <3> QED BY <1>t, <2>1, <2>2
    <2> QED BY <1>1, <2>3 DEF InStack
  <1>5. \A q \in Pkgs : DeclsOf(q)' = DeclsOf(q) /\ DeclsOf(q) \in Seq(Schemas)
    BY <1>1, <1>t, ProgramFixed, ProgramFacts
  <1>6. \A q \in Pkgs : Declares(q)' = Declares(q) /\ Declares(q) \subseteq Schemas
    BY <1>5 DEF Declares
  <1>7. \A s \in Schemas : Full(s) => Full(s)'
    BY <1>1, FullKept
  <1>8. \A r \in Ranks, q \in Pkgs, c, i \in Int : Claimed(r, q, c, i) => Claimed(r, q, c, i)'
    BY <1>5, <1>7 DEF Claimed
  <1>9. ASSUME NEW r \in Ranks, Complete(r) PROVE Complete(r)'
    <2>1. ASSUME NEW f \in Frames, InStack(f)', f.phase = "build" PROVE Claimed(r, f.pkg, f.scan, f.i)'
      <3>1. Claimed(r, f.pkg, f.scan, f.i)
        BY <1>4, <1>9, <2>1 DEF Complete
      <3>2. PICK q \in Pkgs, c \in Int, i \in Int : f.pkg = q /\ f.scan = c /\ f.i = i
        BY DEF Frames
      <3> QED BY <1>8, <3>1, <3>2
    <2>2. \A s \in Declares(p) : Full(s)
      <3>1. Claimed(r, p, sc, k)
        <4>1. Top \in Frames /\ InStack(Top)
          BY <1>1, TopFacts DEF InStack
        <4> QED BY <1>1, <1>2, <1>9, <4>1 DEF Complete
      <3>2. \A s \in Schemas : r[s] \in 1..3
        BY DEF Ranks, MAX_SCOPE_SCAN_COUNT
      <3>3. sc > 3
        BY <1>1, <1>2 DEF MAX_SCOPE_SCAN_COUNT
      <3> QED BY <1>5, <3>1, <3>2, <3>3 DEF Claimed, Declares
    <2>3. \A q \in Pkgs : checked'[q] = 1 => \A s \in Declares(q)' : Full(s)'
      BY <1>3, <1>6, <1>7, <1>9, <2>2 DEF Complete
    <2> QED BY <2>1, <2>3 DEF Complete
  <1>10. ImportEdges' = ImportEdges
    BY <1>1, ProgramFixed
  <1>11. \A r \in Ranks : CompleteAfter(r)' <=> CompleteAfter(r)
    BY <1>1, CompleteAfterFixed
  <1>12. PlainMixins' <=> PlainMixins
    BY <1>1 DEF PlainMixins
  <1>13. IsCyclic(ImportEdges)' <=> IsCyclic(ImportEdges)
    BY <1>10 DEF IsCyclic
  <1>14. TypesTyped'
    BY <1>1 DEF SeesInv, TypesTyped
  <1> QED BY <1>1, <1>9, <1>11, <1>12, <1>13, <1>14 DEF SeesInv

\* No type is full at first, and none is claimed to be.
LEMMA SeesInit == Init => SeesInv
  <1> SUFFICES ASSUME Init PROVE SeesInv
    OBVIOUS
  <1>1. TypesTyped
    BY DEF Init, TypesTyped
  <1>2. \A f \in Frames : InStack(f) => f.phase = "import"
    BY DEF Init, InStack, Frame
  <1>3. \A p \in Pkgs : checked[p] = 0
    BY DEF Init
  <1>4. \A r \in Ranks : Complete(r)
    BY <1>2, <1>3 DEF Complete
  <1> QED BY <1>1, <1>4 DEF SeesInv

\* Every step of check keeps it.
LEMMA SeesStep == DeclaredOnce /\ IInv /\ SeesInv /\ [Next]_vars => SeesInv'
  <1>1. IInv /\ SeesInv /\ UNCHANGED vars => SeesInv'
    <2> SUFFICES ASSUME IInv, SeesInv, UNCHANGED vars PROVE SeesInv'
      OBVIOUS
    <2>1. \A f \in Frames : InStack(f)' => InStack(f)
      BY DEF vars, InStack
    <2>2. UNCHANGED <<program, attrs, view, checked>> /\ illegal \subseteq illegal'
      BY DEF vars
    <2> QED BY <2>1, <2>2, SeesMove
  <1> QED
    BY <1>1, SeesImports, SeesScanSymbols, SeesBuildSchema, SeesNextScan, SeesCheckStatements DEF Next

\* When check has returned without reports, all types are full.
LEMMA InvSees ==
  IInv /\ SeesInv => (Scannable /\ PlainMixins => SeesAllAncestors)
  <1> SUFFICES ASSUME IInv, SeesInv, Scannable, PlainMixins,
                      Done, circular = {}, illegal = {},
                      NEW p \in Reached \cap Loaded, NEW s \in Declares(p)
               PROVE  view[s] = Ancestry(s)
    BY DEF SeesAllAncestors
  <1>1. ~IsCyclic(ImportEdges)
    BY InvCycles DEF ReportsCycles
  <1>2. PICK r \in Ranks : CompleteAfter(r)
    BY DEF Scannable, Ranks
  <1>3. Complete(r)
    BY <1>1, <1>2 DEF SeesInv
  <1>4. p \in Pkgs /\ checked[p] = 1
    BY DoneFacts, ReachedFacts DEF IInv, TypeOK
  <1> QED BY <1>3, <1>4 DEF Complete, Full

\* With one declaration per schema: if no chain of parents and mixins within a
\* package runs against the order of its declarations more than twice, the three
\* scans of init_global_types give every schema all its ancestors' attributes.
THEOREM Sees ==
  ASSUME DeclaredOnce
  PROVE  Spec => [](Scannable /\ PlainMixins => SeesAllAncestors)
  <1> DEFINE SI == IInv /\ SeesInv
  <1>1. Init => SI
    BY InvInit, SeesInit
  <1>2. SI /\ [Next]_vars => SI'
    BY InvStep, SeesStep
  <1>3. SI => (Scannable /\ PlainMixins => SeesAllAncestors)
    BY InvSees
  <1> QED BY <1>1, <1>2, <1>3, PTL DEF Spec

----------------------------------------------------------------------------
(* No other program is completed. *)

\* The schemas of the packages that check reaches.
Known == UNION {Declares(p) : p \in Reached \cap Loaded}

\* Nothing inherits from an unknown schema or from itself.
Sound ==
    /\ Closed(Known)
    /\ \A s \in Known : program.parent[s] # NoSchema => s \notin Ancestry(program.parent[s])

NoMixins == \A s \in Schemas : program.mixins[s] = {}

HasAll(s) == view[s] = Ancestry(s)

\* Types are written after the imports of their package.
Untouched ==
    \A p \in Pkgs :
        p \notin scope_map \/ (\E f \in Frames : InStack(f) /\ f.pkg = p /\ f.phase = "import") =>
        \A s \in Declares(p) : view[s] = {}

\* r is the scan in which each complete type became so.
Witness(r, p, i) ==
    LET s == DeclsOf(p)[i] IN
    /\ program.parent[s] # NoSchema => HasAll(program.parent[s])
    /\ \A j \in 1..Len(DeclsOf(p)) : DeclsOf(p)[j] = program.parent[s] =>
          r[DeclsOf(p)[j]] < r[s] \/ (r[DeclsOf(p)[j]] = r[s] /\ j < i)
    /\ \A f \in Frames : InStack(f) /\ f.phase = "build" /\ f.pkg = p =>
          r[s] < f.scan \/ (r[s] = f.scan /\ i < f.i)

Witnessed(r) ==
    \A p \in Reached : \A i \in 1..Len(DeclsOf(p)) : HasAll(DeclsOf(p)[i]) => Witness(r, p, i)

\* What is complete became so in some scan, its parent before it.
NeedInv ==
    NoMixins /\ Sound /\ illegal = {} =>
        /\ \A s \in Known : view[s] \subseteq Ancestry(s)
        /\ Untouched
        /\ \E r \in Ranks : Witnessed(r)

\* The graph leads to schemas that have a symbol.
GraphKnown == declared \subseteq Known /\ \A a, b \in Schemas : <<a, b>> \in dep_graph => b \in Known

\* What is derived from the program alone stays.
LEMMA KnownFixed ==
  ASSUME program \in Programs, program' = program
  PROVE  /\ Known' = Known /\ (Sound' <=> Sound) /\ (NoMixins' <=> NoMixins)
         /\ \A p \in Pkgs : Declares(p)' = Declares(p) /\ Declares(p) \subseteq Schemas
         /\ Known \subseteq Schemas
         /\ \A p \in Reached : \A i \in 1..Len(DeclsOf(p)) : DeclsOf(p)[i] \in Known
  <1>1. \A p \in Pkgs : DeclsOf(p)' = DeclsOf(p) /\ DeclsOf(p) \in Seq(Schemas)
    BY ProgramFixed, ProgramFacts
  <1>2. \A p \in Pkgs : Declares(p)' = Declares(p) /\ Declares(p) \subseteq Schemas
    BY <1>1 DEF Declares
  <1>3. Reached' = Reached /\ Reached \subseteq Pkgs
    BY ProgramFixed, ReachedFacts
  <1>4. Known' = Known /\ Known \subseteq Schemas
    BY <1>2, <1>3 DEF Known
  <1>5. \A s \in Schemas : Ancestry(s)' = Ancestry(s)
    BY AncestryFixed
  <1>6. \A s \in Known : program.parent[s] \in Schemas \cup {NoSchema}
    BY <1>4, InheritanceFacts
  <1>7. Sound' <=> Sound
    <2>1. Closed(Known)' <=> Closed(Known)
      BY <1>4 DEF Closed
    <2> QED BY <1>4, <1>5, <1>6, <2>1 DEF Sound
  <1>8. NoMixins' <=> NoMixins
    BY DEF NoMixins
  <1>9. ASSUME NEW p \in Reached, NEW i \in 1..Len(DeclsOf(p)) PROVE DeclsOf(p)[i] \in Known
    <2>1. p \in Loaded /\ DeclsOf(p)[i] \in Declares(p)
      BY DEF DeclsOf, Declares
    <2> QED BY <2>1 DEF Known
  <1> QED BY <1>2, <1>4, <1>7, <1>8, <1>9

\* A step that writes no type.
LEMMA NeedMove ==
  ASSUME IInv, NeedInv, UNCHANGED <<program, view>>, illegal \subseteq illegal', scope_map \subseteq scope_map',
         \A f \in Frames : InStack(f)' /\ f.phase = "import" =>
            \/ f.pkg \notin scope_map
            \/ \E e \in Frames : InStack(e) /\ e.pkg = f.pkg /\ e.phase = "import",
         Untouched => \A r \in Ranks, p \in Reached : \A i \in 1..Len(DeclsOf(p)) :
            HasAll(DeclsOf(p)[i]) /\ Witness(r, p, i) =>
               \A f \in Frames : InStack(f)' /\ f.phase = "build" /\ f.pkg = p =>
                  r[DeclsOf(p)[i]] < f.scan \/ (r[DeclsOf(p)[i]] = f.scan /\ i < f.i)
  PROVE  NeedInv'
  <1>t. program \in Programs
    BY DEF IInv, TypeOK
  <1>k. /\ Known' = Known /\ (Sound' <=> Sound) /\ (NoMixins' <=> NoMixins)
        /\ \A p \in Pkgs : Declares(p)' = Declares(p) /\ Declares(p) \subseteq Schemas
        /\ Known \subseteq Schemas
    BY <1>t, KnownFixed
  <1>a. \A s \in Schemas : Ancestry(s)' = Ancestry(s)
    BY AncestryFixed
  <1>h. \A s \in Schemas : HasAll(s)' <=> HasAll(s)
    BY <1>a DEF HasAll
  <1> SUFFICES ASSUME NoMixins', Sound', illegal' = {}
               PROVE  /\ \A s \in Known' : (view[s] \subseteq Ancestry(s))'
                      /\ Untouched' /\ \E r \in Ranks : Witnessed(r)'
    BY DEF NeedInv
  <1>1. /\ \A s \in Known : view[s] \subseteq Ancestry(s)
        /\ Untouched
        /\ \E r \in Ranks : Witnessed(r)
    BY <1>k DEF NeedInv
  <1>2. \A s \in Known' : (view[s] \subseteq Ancestry(s))'
    BY <1>1, <1>a, <1>k
  <1>3. Untouched'
    BY <1>1, <1>k DEF Untouched
  <1>4. PICK r \in Ranks : Witnessed(r)
    BY <1>1
  <1>d. /\ Reached' = Reached /\ Reached \subseteq Pkgs
        /\ \A p \in Reached : DeclsOf(p)' = DeclsOf(p) /\ DeclsOf(p) \in Seq(Schemas)
    BY <1>t, ProgramFixed, ReachedFacts, ProgramFacts
  <1>5. Witnessed(r)'
    <2> SUFFICES ASSUME NEW p \in Reached, NEW i \in 1..Len(DeclsOf(p)), HasAll(DeclsOf(p)[i])'
                 PROVE  Witness(r, p, i)'
      BY <1>d DEF Witnessed
    <2>1. PICK s \in Schemas : s = DeclsOf(p)[i]
      BY <1>d
    <2>2. HasAll(s) /\ Witness(r, p, i)
      BY <1>4, <1>d, <1>h, <2>1 DEF Witnessed
    <2>3. program'.parent[s] # NoSchema => HasAll(program.parent[s])'
      <3>1. program.parent[s] \in Schemas \cup {NoSchema}
        BY <1>t, InheritanceFacts
      <3> QED BY <1>h, <2>1, <2>2, <3>1 DEF Witness
    <2>4. \A j \in 1..Len(DeclsOf(p)) : DeclsOf(p)[j] = program.parent[s] =>
             r[DeclsOf(p)[j]] < r[s] \/ (r[DeclsOf(p)[j]] = r[s] /\ j < i)
      BY <2>1, <2>2 DEF Witness
    <2>5. \A f \in Frames : InStack(f)' /\ f.phase = "build" /\ f.pkg = p =>
             r[s] < f.scan \/ (r[s] = f.scan /\ i < f.i)
      BY <1>1, <2>1, <2>2
    <2> QED BY <1>d, <2>1, <2>3, <2>4, <2>5 DEF Witness
  <1> QED BY <1>2, <1>3, <1>5

\* Imports open no scan.
LEMMA NeedImports == IInv /\ NeedInv /\ (ImportModule \/ ImportUser) => NeedInv'
  <1> SUFFICES ASSUME IInv, NeedInv, ImportModule \/ ImportUser PROVE NeedInv'
    OBVIOUS
  <1>1. stack # <<>> /\ Top.phase = "import" /\ UNCHANGED <<program, view, illegal>> /\ scope_map \subseteq scope_map'
    BY DEF ImportModule, ImportUser, At
  <1>2. PICK p \in Pkgs, k \in Nat \ {0} : p = Top.pkg /\ k = Top.i
    BY <1>1, TopFacts
  <1>3. PICK g \in Frames : g = [pkg |-> Top.pkg, phase |-> "import", i |-> k + 1, scan |-> 1]
    <2>1. [pkg |-> p, phase |-> "import", i |-> k + 1, scan |-> 1] \in Frames
      BY DEF Frames
    <2> QED BY <1>2, <2>1
  <1>4. PICK h \in Frames :
           /\ h.phase = "import" /\ (h.pkg \notin scope_map \/ h.pkg = p)
           /\ stack' = Advance("import", k + 1, 1) \/ stack' = Append(Advance("import", k + 1, 1), h)
    <2>1. CASE ImportModule
      BY <1>1, <1>2, <1>3, <2>1 DEF ImportModule, Goto
    <2>2. CASE ImportUser
      <3>1. PICK q \in Pkgs : q = Imports(Top.pkg)[Top.i]
        BY <2>2 DEF ImportUser
      <3>2. Frame(q) \in Frames /\ Frame(q).phase = "import" /\ Frame(q).pkg = q
        BY DEF Frame, Frames
      <3>3. IF q \in scope_map THEN stack' = Advance("import", k + 1, 1)
            ELSE stack' = Append(Advance("import", k + 1, 1), Frame(q))
        BY <1>2, <2>2, <3>1 DEF ImportUser, Goto
      <3>4. CASE q \in scope_map
        BY <1>2, <1>3, <3>3, <3>4
      <3>5. CASE q \notin scope_map
        BY <3>2, <3>3, <3>5
      <3> QED BY <3>4, <3>5
    <2> QED BY <2>1, <2>2
  <1>5. \A f \in Frames : InStack(f)' => InStack(f) \/ f = g \/ f = h
    <2>1. k + 1 \in Nat \ {0} /\ 1 \in Nat \ {0}
      OBVIOUS
    <2> QED BY <1>1, <1>3, <1>4, <2>1, CallsAfter
  <1>6. g.phase = "import" /\ g.pkg = p
    BY <1>2, <1>3
  <1>7. Top \in Frames /\ InStack(Top) /\ Top.pkg = p
    BY <1>1, <1>2, TopFacts DEF InStack
  <1>8. \A f \in Frames : InStack(f)' /\ f.phase = "import" =>
            \/ f.pkg \notin scope_map
            \/ \E e \in Frames : InStack(e) /\ e.pkg = f.pkg /\ e.phase = "import"
    BY <1>1, <1>4, <1>5, <1>6, <1>7
  <1>9. \A f \in Frames : InStack(f)' /\ f.phase = "build" => InStack(f)
    BY <1>4, <1>5, <1>6
  <1>10. \A r \in Ranks, q \in Reached : \A i \in 1..Len(DeclsOf(q)) :
            HasAll(DeclsOf(q)[i]) /\ Witness(r, q, i) =>
               \A f \in Frames : InStack(f)' /\ f.phase = "build" /\ f.pkg = q =>
                  r[DeclsOf(q)[i]] < f.scan \/ (r[DeclsOf(q)[i]] = f.scan /\ i < f.i)
    BY <1>9 DEF Witness
  <1> QED BY <1>1, <1>8, <1>10, NeedMove

\* The first scan of a package finds its types unwritten.
LEMMA NeedScanSymbols == IInv /\ NeedInv /\ ScanSymbols => NeedInv'
  <1> SUFFICES ASSUME IInv, NeedInv, ScanSymbols PROVE NeedInv'
    OBVIOUS
  <1>1. /\ stack # <<>> /\ Top.phase = "import" /\ stack' = Advance("build", 1, 1)
        /\ UNCHANGED <<program, view, illegal, scope_map>>
    BY DEF ScanSymbols, At, Goto
  <1>2. PICK p \in Pkgs : p = Top.pkg
    BY <1>1, TopFacts
  <1>3. PICK g \in Frames : g = [pkg |-> Top.pkg, phase |-> "build", i |-> 1, scan |-> 1]
    <2>1. [pkg |-> p, phase |-> "build", i |-> 1, scan |-> 1] \in Frames
      BY DEF Frames
    <2> QED BY <1>2, <2>1
  <1>4. \A f \in Frames : InStack(f)' => InStack(f) \/ f = g
    BY <1>1, <1>3, CallsAfter
  <1>5. g.pkg = p /\ g.phase = "build"
    BY <1>2, <1>3
  <1>6. Untouched => \A i \in 1..Len(DeclsOf(p)) : ~HasAll(DeclsOf(p)[i])
    <2> SUFFICES ASSUME Untouched, NEW i \in 1..Len(DeclsOf(p)) PROVE ~HasAll(DeclsOf(p)[i])
      OBVIOUS
    <2>1. Top \in Frames /\ InStack(Top)
      BY <1>1, TopFacts DEF InStack
    <2>2. DeclsOf(p)[i] \in Declares(p) /\ DeclsOf(p)[i] \in Schemas
      BY ProgramFacts DEF Declares, IInv, TypeOK
    <2>3. view[DeclsOf(p)[i]] = {}
      BY <1>1, <1>2, <2>1, <2>2 DEF Untouched
    <2>4. DeclsOf(p)[i] \in Ancestry(DeclsOf(p)[i])
      BY <2>2, AncestryLeast DEF IInv, TypeOK
    <2> QED BY <2>3, <2>4 DEF HasAll
  <1>7. \A f \in Frames : InStack(f)' /\ f.phase = "import" => InStack(f)
    BY <1>4, <1>5
  <1>8. Untouched => \A r \in Ranks, q \in Reached : \A i \in 1..Len(DeclsOf(q)) :
            HasAll(DeclsOf(q)[i]) /\ Witness(r, q, i) =>
               \A f \in Frames : InStack(f)' /\ f.phase = "build" /\ f.pkg = q =>
                  r[DeclsOf(q)[i]] < f.scan \/ (r[DeclsOf(q)[i]] = f.scan /\ i < f.i)
    BY <1>4, <1>5, <1>6 DEF Witness
  <1>9. \A f \in Frames : InStack(f)' /\ f.phase = "import" =>
            \/ f.pkg \notin scope_map
            \/ \E e \in Frames : InStack(e) /\ e.pkg = f.pkg /\ e.phase = "import"
    BY <1>7
  <1> QED BY <1>1, <1>8, <1>9, NeedMove

\* What became complete in a scan did so before the next one.
LEMMA NeedNextScan == IInv /\ NeedInv /\ NextScan => NeedInv'
  <1> SUFFICES ASSUME IInv, NeedInv, NextScan PROVE NeedInv'
    OBVIOUS
  <1>1. /\ stack # <<>> /\ Top.phase = "build" /\ stack' = Advance("build", 1, Top.scan + 1)
        /\ UNCHANGED <<program, view, illegal, scope_map>>
    BY DEF NextScan, At, Goto
  <1>2. PICK p \in Pkgs, k \in Nat \ {0}, sc \in Nat \ {0} : p = Top.pkg /\ k = Top.i /\ sc = Top.scan
    BY <1>1, TopFacts
  <1>3. PICK g \in Frames : g = [pkg |-> Top.pkg, phase |-> "build", i |-> 1, scan |-> sc + 1]
    <2>1. [pkg |-> p, phase |-> "build", i |-> 1, scan |-> sc + 1] \in Frames
      BY DEF Frames
    <2> QED BY <1>2, <2>1
  <1>4. \A f \in Frames : InStack(f)' => InStack(f) \/ f = g
    <2>1. 1 \in Nat \ {0} /\ sc + 1 \in Nat \ {0} /\ stack' = Advance("build", 1, sc + 1)
      BY <1>1, <1>2
    <2> QED BY <1>1, <1>3, <2>1, CallsAfter
  <1>5. g.pkg = p /\ g.phase = "build" /\ g.scan = sc + 1
    BY <1>2, <1>3
  <1>6. \A f \in Frames : InStack(f)' /\ f.phase = "import" =>
            \/ f.pkg \notin scope_map
            \/ \E e \in Frames : InStack(e) /\ e.pkg = f.pkg /\ e.phase = "import"
    BY <1>4, <1>5
  <1>7. ASSUME NEW r \in Ranks, NEW q \in Reached, NEW i \in 1..Len(DeclsOf(q)), Witness(r, q, i),
               NEW f \in Frames, InStack(f)', f.phase = "build", f.pkg = q
        PROVE  r[DeclsOf(q)[i]] < f.scan \/ (r[DeclsOf(q)[i]] = f.scan /\ i < f.i)
    <2>1. CASE InStack(f)
      BY <1>7, <2>1 DEF Witness
    <2>2. CASE f = g
      <3>1. Top \in Frames /\ InStack(Top) /\ Top.pkg = q
        BY <1>1, <1>2, <1>5, <1>7, <2>2, TopFacts DEF InStack
      <3>2. r[DeclsOf(q)[i]] < sc \/ r[DeclsOf(q)[i]] = sc
        BY <1>1, <1>2, <1>7, <3>1 DEF Witness
      <3>3. r[DeclsOf(q)[i]] \in Int
        <4>1. DeclsOf(q) \in Seq(Schemas)
          BY ProgramFacts, ReachedFacts DEF IInv, TypeOK
        <4> QED BY <4>1 DEF Ranks, MAX_SCOPE_SCAN_COUNT
      <3> QED BY <1>5, <2>2, <3>2, <3>3
    <2> QED BY <1>4, <1>7, <2>1, <2>2
  <1> QED BY <1>1, <1>6, <1>7, NeedMove

\* A call that returns leaves only calls that were there.
LEMMA NeedCheckStatements == IInv /\ NeedInv /\ CheckStatements => NeedInv'
  <1> SUFFICES ASSUME IInv, NeedInv, CheckStatements PROVE NeedInv'
    OBVIOUS
  <1>t. stack \in Seq(Frames)
    BY DEF IInv, TypeOK
  <1>1. /\ stack # <<>> /\ stack' = SubSeq(stack, 1, Len(stack) - 1)
        /\ UNCHANGED <<program, view, illegal, scope_map>>
    BY DEF CheckStatements, At
  <1>2. \A f \in Frames : InStack(f)' => InStack(f)
    <2>1. Len(stack) \in Nat /\ Len(stack) - 1 \in Nat
      BY <1>1, <1>t
    <2> DEFINE m == Len(stack) - 1
    <2>2. m \in Nat /\ m <= Len(stack)
      BY <2>1
    <2>3. Len(SubSeq(stack, 1, m)) = m /\ \A n \in 1..m : SubSeq(stack, 1, m)[n] = stack[n] /\ n \in 1..Len(stack)
      <3> HIDE DEF m
      <3> QED BY <1>t, <2>1, <2>2
    <2> QED BY <1>1, <2>3 DEF InStack
  <1>3. \A f \in Frames : InStack(f)' /\ f.phase = "import" =>
            \/ f.pkg \notin scope_map
            \/ \E e \in Frames : InStack(e) /\ e.pkg = f.pkg /\ e.phase = "import"
    BY <1>2
  <1>4. \A r \in Ranks, q \in Reached : \A i \in 1..Len(DeclsOf(q)) :
            HasAll(DeclsOf(q)[i]) /\ Witness(r, q, i) =>
               \A f \in Frames : InStack(f)' /\ f.phase = "build" /\ f.pkg = q =>
                  r[DeclsOf(q)[i]] < f.scan \/ (r[DeclsOf(q)[i]] = f.scan /\ i < f.i)
    BY <1>2 DEF Witness
  <1> QED BY <1>1, <1>3, <1>4, NeedMove

\* Without mixins a type is its schema and the type its parent has now.
LEMMA BuildsFromParent ==
  ASSUME IInv, TypesTyped, BuildSchema, NoMixins, illegal' = {},
         NEW p \in Pkgs, p = Top.pkg, NEW s \in Schemas, s = DeclsOf(p)[Top.i]
  PROVE  /\ program.parent[s] = NoSchema => view'[s] = {s}
         /\ program.parent[s] # NoSchema => view'[s] = {s} \cup view[program.parent[s]]
         /\ \A u \in Schemas : u # s => view'[u] = view[u]
  <1> DEFINE base == ParentType(p, s)
             mixin == MixinTypes(p, s)
             own == {s} \cup UNION {attrs[u] : u \in mixin}
             missing == (program.parent[s] # NoSchema /\ base = {}) \/ mixin # program.mixins[s]
  <1>1. /\ view' = [view EXCEPT ![s] = own \cup UNION {view[u] : u \in base}]
        /\ illegal' = IF missing THEN illegal \cup {s} ELSE illegal
    BY DEF BuildSchema
  <1>2. ~missing
    BY <1>1
  <1>3. mixin = {}
    BY DEF MixinTypes, NoMixins
  <1>4. own = {s}
    BY <1>3
  <1>5. \A u \in base : u = program.parent[s] /\ u \in Schemas
    BY DEF ParentType, Visible, IInv, TypeOK
  <1>6. program.parent[s] = NoSchema => base = {}
    BY <1>5, SchemaAssumption DEF SchemaAssumption
  <1>7. program.parent[s] # NoSchema => base = {program.parent[s]}
    <2> SUFFICES ASSUME program.parent[s] # NoSchema PROVE base = {program.parent[s]}
      OBVIOUS
    <2>1. base # {}
      BY <1>2
    <2> HIDE DEF base
    <2> QED BY <1>5, <2>1
  <1> HIDE DEF base, mixin, own, missing
  <1>8. view'[s] = {s} \cup UNION {view[u] : u \in base}
    BY <1>1, <1>4 DEF TypesTyped
  <1>9. \A u \in Schemas : u # s => view'[u] = view[u]
    BY <1>1 DEF TypesTyped
  <1> QED BY <1>6, <1>7, <1>8, <1>9

\* Without mixins the ancestry is the schema and that of its parent.
LEMMA AncestryParent ==
  ASSUME program \in Programs, NoMixins, NEW s \in Schemas
  PROVE  /\ program.parent[s] = NoSchema => Ancestry(s) = {s}
         /\ program.parent[s] # NoSchema => Ancestry(s) = {s} \cup Ancestry(program.parent[s])
  <1>1. Ancestry(s) = {s} \cup UNION {Ancestry(u) : u \in Parts(s)}
    BY AncestryParts
  <1>2. program.parent[s] = NoSchema => Parts(s) = {}
    BY DEF Parts, NoMixins
  <1>3. program.parent[s] # NoSchema => Parts(s) = {program.parent[s]}
    BY DEF Parts, NoMixins
  <1> QED BY <1>1, <1>2, <1>3

\* A type becomes complete only if its parent's is, and then in this scan.
LEMMA NeedBuildSchema == DeclaredOnce /\ IInv /\ TypesTyped /\ NeedInv /\ BuildSchema => NeedInv'
  <1> SUFFICES ASSUME DeclaredOnce, IInv, TypesTyped, NeedInv, BuildSchema,
                      NoMixins', Sound', illegal' = {}
               PROVE  /\ \A s \in Known' : (view[s] \subseteq Ancestry(s))'
                      /\ Untouched' /\ \E r \in Ranks : Witnessed(r)'
    BY DEF NeedInv
  <1>t. program \in Programs
    BY DEF IInv, TypeOK
  <1>0. /\ stack # <<>> /\ Top.phase = "build" /\ Top.i <= Len(DeclsOf(Top.pkg))
        /\ Top.scan <= MAX_SCOPE_SCAN_COUNT
        /\ stack' = Advance("build", Top.i + 1, Top.scan)
        /\ UNCHANGED <<program, scope_map>> /\ illegal \subseteq illegal'
    BY DEF BuildSchema, At, Goto
  <1>1. PICK p \in Pkgs, k \in Nat \ {0}, sc \in Nat \ {0} : p = Top.pkg /\ k = Top.i /\ sc = Top.scan
    BY <1>0, TopFacts
  <1>n. DeclsOf(p) \in Seq(Schemas) /\ Len(DeclsOf(p)) \in Nat /\ k \in 1..Len(DeclsOf(p)) /\ p \in Reached
    BY <1>0, <1>1, <1>t, ProgramFacts, TopFacts
  <1>2. PICK s \in Schemas : s = DeclsOf(p)[k]
    BY <1>n
  <1>k. /\ Known' = Known /\ Sound /\ NoMixins
        /\ \A q \in Pkgs : Declares(q)' = Declares(q) /\ Declares(q) \subseteq Schemas
        /\ Known \subseteq Schemas
        /\ \A q \in Reached : \A i \in 1..Len(DeclsOf(q)) : DeclsOf(q)[i] \in Known
    BY <1>0, <1>t, KnownFixed
  <1>a. \A u \in Schemas : Ancestry(u)' = Ancestry(u)
    BY <1>0, AncestryFixed
  <1>3. /\ \A u \in Known : view[u] \subseteq Ancestry(u)
        /\ Untouched
        /\ \E r \in Ranks : Witnessed(r)
    BY <1>0, <1>k DEF NeedInv
  <1>4. /\ program.parent[s] = NoSchema => view'[s] = {s}
        /\ program.parent[s] # NoSchema => view'[s] = {s} \cup view[program.parent[s]]
        /\ \A u \in Schemas : u # s => view'[u] = view[u]
    <2>1. s = DeclsOf(p)[Top.i]
      BY <1>1, <1>2
    <2> QED BY <1>1, <1>k, <2>1, BuildsFromParent
  <1>5. /\ program.parent[s] = NoSchema => Ancestry(s) = {s}
        /\ program.parent[s] # NoSchema => Ancestry(s) = {s} \cup Ancestry(program.parent[s])
    BY <1>t, <1>k, AncestryParent
  <1>6. s \in Known /\ (program.parent[s] # NoSchema => program.parent[s] \in Known)
    BY <1>2, <1>n, <1>k DEF Sound, Closed
  <1>7. \A u \in Known' : (view[u] \subseteq Ancestry(u))'
    <2>1. view'[s] \subseteq Ancestry(s)
      BY <1>3, <1>4, <1>5, <1>6
    <2> QED BY <1>3, <1>4, <1>a, <1>k, <2>1
  <1>8. HasAll(s)' <=> program.parent[s] = NoSchema \/ HasAll(program.parent[s])
    <2>1. CASE program.parent[s] = NoSchema
      BY <1>4, <1>5, <1>a, <2>1 DEF HasAll
    <2>2. CASE program.parent[s] # NoSchema
      <3>1. PICK u \in Known : u = program.parent[s]
        BY <1>6, <2>2
      <3>2. s \notin Ancestry(u) /\ view[u] \subseteq Ancestry(u)
        BY <1>3, <1>6, <1>k, <2>2, <3>1 DEF Sound
      <3>3. view'[s] = {s} \cup view[u] /\ Ancestry(s)' = {s} \cup Ancestry(u)
        BY <1>4, <1>5, <1>a, <2>2, <3>1
      <3> QED BY <2>2, <3>1, <3>2, <3>3 DEF HasAll
    <2> QED BY <2>1, <2>2
  <1>9. PICK r \in Ranks : Witnessed(r)
    BY <1>3
  <1>10. \A u \in Schemas : u # s => (HasAll(u)' <=> HasAll(u))
    BY <1>4, <1>a DEF HasAll
  <1>11. HasAll(s) => HasAll(s)'
    BY <1>2, <1>8, <1>9, <1>n DEF Witnessed, Witness
  <1>12. PICK g \in Frames : g = [pkg |-> Top.pkg, phase |-> "build", i |-> k + 1, scan |-> sc]
    <2>1. [pkg |-> p, phase |-> "build", i |-> k + 1, scan |-> sc] \in Frames
      BY DEF Frames
    <2> QED BY <1>1, <2>1
  <1>13. /\ \A f \in Frames : InStack(f)' => InStack(f) \/ f = g
         /\ g.pkg = p /\ g.phase = "build" /\ g.scan = sc /\ g.i = k + 1
    <2>1. k + 1 \in Nat \ {0} /\ stack' = Advance("build", k + 1, sc)
      BY <1>0, <1>1
    <2>2. \A f \in Frames : InStack(f)' => InStack(f) \/ f = g
      BY <1>0, <1>12, <2>1, CallsAfter
    <2>3. g.pkg = p /\ g.phase = "build" /\ g.scan = sc /\ g.i = k + 1
      BY <1>1, <1>12
    <2> QED BY <2>2, <2>3
  <1>14. \A f \in Frames : InStack(f) /\ f.pkg = p => f = Top
    <2> SUFFICES ASSUME NEW f \in Frames, InStack(f), f.pkg = p PROVE f = Top
      OBVIOUS
    <2>1. PICK n \in 1..Len(stack) : stack[n] = f
      BY DEF InStack
    <2>2. Len(stack) \in 1..Len(stack) /\ Top = stack[Len(stack)]
      BY <1>0, TopFacts
    <2> QED BY <1>1, <2>1, <2>2 DEF IInv, Walk
  <1>15. Untouched'
    <2> SUFFICES ASSUME NEW q \in Pkgs,
                        q \notin scope_map' \/ \E f \in Frames : InStack(f)' /\ f.pkg = q /\ f.phase = "import",
                        NEW u \in Declares(q)
                 PROVE  view'[u] = {}
      BY <1>k DEF Untouched
    <2>1. q \notin scope_map \/ \E f \in Frames : InStack(f) /\ f.pkg = q /\ f.phase = "import"
      BY <1>0, <1>13
    <2>2. q # p
      BY <1>0, <1>1, <1>14, <2>1, TopFacts
    <2>3. PICK j \in 1..Len(DeclsOf(q)) : u = DeclsOf(q)[j]
      BY DEF Declares
    <2>4. u # s
      BY <1>2, <1>n, <2>2, <2>3, OneDeclaration
    <2>5. view[u] = {} /\ u \in Schemas
      BY <1>3, <1>k, <2>1 DEF Untouched
    <2> QED BY <1>4, <2>4, <2>5
  <1>r. r[s] \in 1..3 /\ sc \in Int /\ \A u \in Schemas : r[u] \in 1..3
    BY DEF Ranks, MAX_SCOPE_SCAN_COUNT
  <1>d. /\ Reached' = Reached /\ Reached \subseteq Pkgs
        /\ \A q \in Reached : DeclsOf(q)' = DeclsOf(q) /\ DeclsOf(q) \in Seq(Schemas)
    BY <1>0, <1>t, ProgramFixed, ReachedFacts, ProgramFacts
  <1>h. \A u \in Schemas : HasAll(u) => HasAll(u)'
    BY <1>10, <1>11
  \* The declarations that were complete, for any r2 that agrees with r on them.
  <1>16. ASSUME NEW r2 \in Ranks, \A u \in Schemas : HasAll(u) => r2[u] = r[u],
                NEW q \in Reached, NEW i \in 1..Len(DeclsOf(q)), HasAll(DeclsOf(q)[i])
         PROVE  Witness(r2, q, i)'
    <2>1. PICK x \in Schemas : x = DeclsOf(q)[i]
      BY <1>d
    <2>2. Witness(r, q, i) /\ r2[x] = r[x]
      BY <1>9, <1>16, <2>1 DEF Witnessed
    <2>3. program.parent[x] \in Schemas \cup {NoSchema} /\ (program.parent[x] # NoSchema => HasAll(program.parent[x]))
      BY <1>t, <2>1, <2>2, InheritanceFacts DEF Witness
    <2>4. program'.parent[x] # NoSchema => HasAll(program.parent[x])'
      BY <1>0, <1>h, <2>3
    <2>5. \A j \in 1..Len(DeclsOf(q)) : DeclsOf(q)[j] = program.parent[x] =>
             r2[DeclsOf(q)[j]] < r2[x] \/ (r2[DeclsOf(q)[j]] = r2[x] /\ j < i)
      <3> SUFFICES ASSUME NEW j \in 1..Len(DeclsOf(q)), DeclsOf(q)[j] = program.parent[x]
                   PROVE  r2[DeclsOf(q)[j]] < r2[x] \/ (r2[DeclsOf(q)[j]] = r2[x] /\ j < i)
        OBVIOUS
      <3>1. PICK y \in Schemas : y = DeclsOf(q)[j]
        BY <1>d
      <3>2. HasAll(y) /\ r2[y] = r[y]
        BY <1>16, <2>3, <3>1, SchemaAssumption DEF SchemaAssumption
      <3>3. r[y] < r[x] \/ (r[y] = r[x] /\ j < i)
        BY <2>1, <2>2, <3>1 DEF Witness
      <3> QED BY <2>2, <3>1, <3>2, <3>3
    <2>6. \A f \in Frames : InStack(f)' /\ f.phase = "build" /\ f.pkg = q =>
             r2[x] < f.scan \/ (r2[x] = f.scan /\ i < f.i)
      <3> SUFFICES ASSUME NEW f \in Frames, InStack(f)', f.phase = "build", f.pkg = q
                   PROVE  r2[x] < f.scan \/ (r2[x] = f.scan /\ i < f.i)
        OBVIOUS
      <3>1. CASE InStack(f)
        BY <2>1, <2>2, <3>1 DEF Witness
      <3>2. CASE f = g
        <4>1. Top \in Frames /\ InStack(Top) /\ Top.pkg = q
          BY <1>0, <1>1, <1>13, <3>2, TopFacts DEF InStack
        <4>2. r[x] < sc \/ (r[x] = sc /\ i < k)
          BY <1>0, <1>1, <2>1, <2>2, <4>1 DEF Witness
        <4>3. i < k => i < k + 1
          BY <1>d
        <4> QED BY <1>13, <2>2, <3>2, <4>2, <4>3
      <3> QED BY <1>13, <3>1, <3>2
    <2> QED BY <1>0, <1>d, <2>1, <2>4, <2>5, <2>6 DEF Witness
  <1>17. CASE HasAll(s) \/ ~HasAll(s)'
    <2>1. \A u \in Schemas : HasAll(u)' => HasAll(u)
      BY <1>10, <1>17
    <2>2. Witnessed(r)'
      <3> SUFFICES ASSUME NEW q \in Reached, NEW i \in 1..Len(DeclsOf(q)), HasAll(DeclsOf(q)[i])'
                   PROVE  Witness(r, q, i)'
        BY <1>d DEF Witnessed
      <3>1. PICK x \in Schemas : x = DeclsOf(q)[i]
        BY <1>d
      <3>2. HasAll(x)
        BY <1>d, <2>1, <3>1
      <3> QED BY <1>16, <3>1, <3>2
    <2> QED BY <1>7, <1>15, <2>2
  <1>18. CASE ~HasAll(s) /\ HasAll(s)'
    <2>1. PICK r2 \in Ranks : r2[s] = sc /\ \A u \in Schemas : u # s => r2[u] = r[u]
      <3>1. sc \in 1..3
        BY <1>0, <1>1 DEF MAX_SCOPE_SCAN_COUNT
      <3>2. [r EXCEPT ![s] = sc] \in Ranks
        BY <3>1 DEF Ranks, MAX_SCOPE_SCAN_COUNT
      <3>3. [r EXCEPT ![s] = sc][s] = sc /\ \A u \in Schemas : u # s => [r EXCEPT ![s] = sc][u] = r[u]
        BY DEF Ranks
      <3> QED BY <3>2, <3>3
    <2>2. \A u \in Schemas : HasAll(u) => r2[u] = r[u]
      BY <1>18, <2>1
    <2>3. ASSUME NEW i \in 1..Len(DeclsOf(p)), DeclsOf(p)[i] = s PROVE i = k
      BY <1>2, <1>n, <2>3, OneDeclaration
    <2>4. Witness(r2, p, k)'
      <3>1. program.parent[s] \in Schemas \cup {NoSchema} /\ (program.parent[s] # NoSchema => HasAll(program.parent[s]))
        BY <1>t, <1>8, <1>18, InheritanceFacts
      <3>2. program'.parent[s] # NoSchema => HasAll(program.parent[s])'
        BY <1>0, <1>h, <3>1
      <3>3. \A j \in 1..Len(DeclsOf(p)) : DeclsOf(p)[j] = program.parent[s] =>
               r2[DeclsOf(p)[j]] < r2[s] \/ (r2[DeclsOf(p)[j]] = r2[s] /\ j < k)
        <4> SUFFICES ASSUME NEW j \in 1..Len(DeclsOf(p)), DeclsOf(p)[j] = program.parent[s]
                     PROVE  r2[DeclsOf(p)[j]] < r2[s] \/ (r2[DeclsOf(p)[j]] = r2[s] /\ j < k)
          OBVIOUS
        <4>1. PICK y \in Schemas : y = DeclsOf(p)[j]
          BY <1>n
        <4>2. HasAll(y) /\ r2[y] = r[y]
          BY <2>2, <3>1, <4>1, SchemaAssumption DEF SchemaAssumption
        <4>3. Witness(r, p, j)
          BY <1>9, <1>n, <4>1, <4>2 DEF Witnessed
        <4>4. Top \in Frames /\ InStack(Top)
          BY <1>0, TopFacts DEF InStack
        <4>5. r[y] < sc \/ (r[y] = sc /\ j < k)
          BY <1>0, <1>1, <4>1, <4>3, <4>4 DEF Witness
        <4> QED BY <2>1, <4>1, <4>2, <4>5
      <3>4. \A f \in Frames : InStack(f)' /\ f.phase = "build" /\ f.pkg = p =>
               r2[s] < f.scan \/ (r2[s] = f.scan /\ k < f.i)
        <4> SUFFICES ASSUME NEW f \in Frames, InStack(f)', f.phase = "build", f.pkg = p
                     PROVE  r2[s] < f.scan \/ (r2[s] = f.scan /\ k < f.i)
          OBVIOUS
        <4>1. PICK n \in 1..Len(stack') : stack'[n] = f
          BY DEF InStack
        <4>2. Walk'
          BY BuildSchemaStep DEF IInv
        <4>3. Len(stack) \in 1..Len(stack') /\ stack'[Len(stack)] = g
          <5>1. k + 1 \in Nat \ {0} /\ stack \in Seq(Frames) /\ stack' = Advance("build", k + 1, sc)
            BY <1>0, <1>1 DEF IInv, TypeOK
          <5> QED BY <1>0, <1>12, <5>1, AdvanceFacts
        <4>4. f = g
          BY <1>13, <4>1, <4>2, <4>3 DEF Walk
        <4> QED BY <1>13, <2>1, <4>4
      <3> QED BY <1>0, <1>2, <1>d, <1>n, <3>2, <3>3, <3>4 DEF Witness
    <2>5. Witnessed(r2)'
      <3> SUFFICES ASSUME NEW q \in Reached, NEW i \in 1..Len(DeclsOf(q)), HasAll(DeclsOf(q)[i])'
                   PROVE  Witness(r2, q, i)'
        BY <1>d DEF Witnessed
      <3>1. PICK x \in Schemas : x = DeclsOf(q)[i]
        BY <1>d
      <3>2. CASE x # s
        <4>1. HasAll(x)
          BY <1>10, <1>d, <3>1, <3>2
        <4> QED BY <1>16, <2>2, <3>1, <4>1
      <3>3. CASE x = s
        <4>1. q = p /\ i = k
          <5>1. DeclsOf(p)[k] = DeclsOf(q)[i] /\ q \in Pkgs
            BY <1>2, <1>d, <3>1, <3>3
          <5> QED BY <1>n, <5>1, OneDeclaration
        <4> QED BY <2>4, <4>1
      <3> QED BY <3>2, <3>3
    <2> QED BY <1>7, <1>15, <2>5
  <1> QED BY <1>17, <1>18

\* Symbols are of known schemas, and so are the parents that are found.
LEMMA GraphKnownStep == IInv /\ GraphKnown /\ [Next]_vars => GraphKnown'
  <1> SUFFICES ASSUME IInv, GraphKnown, [Next]_vars PROVE GraphKnown'
    OBVIOUS
  <1>t. program \in Programs /\ declared \in SUBSET Schemas
    BY DEF IInv, TypeOK
  <1>1. CASE UNCHANGED <<program, declared, dep_graph>>
    <2>1. Known' = Known
      BY <1>1, <1>t, KnownFixed
    <2> QED BY <1>1, <2>1 DEF GraphKnown
  <1>2. CASE ImportUser
    <2>1. UNCHANGED <<program, declared>> /\ stack # <<>>
      BY <1>2 DEF ImportUser, At
    <2>2. Known' = Known
      BY <1>t, <2>1, KnownFixed
    <2>3. PICK p \in Pkgs, q \in Pkgs : dep_graph' = dep_graph \cup {<<p, q>>}
      BY <1>2, <2>1, TopFacts DEF ImportUser, AddDependency
    <2>4. q \notin Schemas
      BY SchemaAssumption DEF SchemaAssumption
    <2> QED BY <2>1, <2>2, <2>3, <2>4 DEF GraphKnown
  <1>3. CASE ScanSymbols
    <2>1. UNCHANGED <<program, dep_graph>> /\ stack # <<>> /\ declared' = declared \cup Declares(Top.pkg)
      BY <1>3 DEF ScanSymbols, At
    <2>2. Known' = Known
      BY <1>t, <2>1, KnownFixed
    <2>3. PICK p \in Reached : p = Top.pkg
      BY <2>1, TopFacts
    <2>4. \A i \in 1..Len(DeclsOf(p)) : DeclsOf(p)[i] \in Known
      BY <1>t, <2>1, KnownFixed
    <2>5. Declares(p) \subseteq Known
      BY <2>4 DEF Declares
    <2> QED BY <2>1, <2>2, <2>3, <2>5 DEF GraphKnown
  <1>4. CASE BuildSchema
    <2>1. UNCHANGED <<program, declared>>
      BY <1>4 DEF BuildSchema
    <2>2. Known' = Known
      BY <1>t, <2>1, KnownFixed
    <2>3. PICK s, p : AddInheritance(s, ParentType(p, s))
      BY <1>4 DEF BuildSchema
    <2>4. CASE dep_graph' = dep_graph
      BY <2>1, <2>2, <2>4 DEF GraphKnown
    <2>5. CASE dep_graph' # dep_graph
      <3>1. ParentType(p, s) # {} /\ dep_graph' = dep_graph \cup {<<s, program.parent[s]>>}
        BY <2>3, <2>5 DEF AddInheritance, AddDependency
      <3>2. program.parent[s] \in Known
        BY <3>1 DEF ParentType, Visible, GraphKnown
      <3> QED BY <2>1, <2>2, <3>1, <3>2 DEF GraphKnown
    <2> QED BY <2>4, <2>5
  <1>5. CASE ImportModule \/ NextScan \/ CheckStatements \/ UNCHANGED vars
    <2>1. UNCHANGED <<program, declared, dep_graph>>
      BY <1>5 DEF ImportModule, NextScan, CheckStatements, vars
    <2> QED BY <1>1, <2>1
  <1> QED BY <1>2, <1>3, <1>4, <1>5 DEF Next

\* A check without reports was of a program without cycles and unknown parents.
LEMMA DoneSound ==
  ASSUME IInv, GraphKnown, Done, circular = {}, illegal = {}, NoMixins
  PROVE  Sound
  <1>t. program \in Programs
    BY DEF IInv, TypeOK
  <1>k. Known \subseteq Schemas
    <2>1. \A p \in Reached : DeclsOf(p) \in Seq(Schemas)
      BY <1>t, ReachedFacts, ProgramFacts
    <2> QED BY <2>1 DEF Known, Declares
  <1>1. \A s \in Known : program.parent[s] # NoSchema =>
           program.parent[s] \in Known /\ <<s, program.parent[s]>> \in InheritEdges
    <2> SUFFICES ASSUME NEW s \in Known, program.parent[s] # NoSchema
                 PROVE  program.parent[s] \in Known /\ <<s, program.parent[s]>> \in InheritEdges
      OBVIOUS
    <2>1. PICK p \in Reached \cap Loaded : s \in Declares(p)
      BY DEF Known
    <2>2. PICK u \in Schemas : u = program.parent[s]
      BY <1>k, <1>t, InheritanceFacts
    <2>3. PICK j \in 1..Len(DeclsOf(p)) : s = DeclsOf(p)[j]
      BY <2>1 DEF Declares
    <2>4. p \in Pkgs /\ AllLinked(p) /\ Len(DeclsOf(p)) \in Nat
      BY <1>t, <2>1, DoneFacts, ReachedFacts, ProgramFacts DEF IInv, Progress
    <2>5. <<s, u>> \in dep_graph
      <3>1. j < Len(DeclsOf(p)) + 1 /\ program.parent[DeclsOf(p)[j]] \in Schemas
        BY <2>2, <2>3, <2>4
      <3>2. Linked(p, Len(DeclsOf(p)) + 1)
        BY <2>4 DEF AllLinked
      <3>3. <<DeclsOf(p)[j], program.parent[DeclsOf(p)[j]]>> \in dep_graph
        BY <3>1, <3>2 DEF Linked
      <3> QED BY <2>2, <2>3, <3>3
    <2>6. u \in Known
      BY <1>k, <2>5 DEF GraphKnown
    <2> QED BY <1>k, <2>1, <2>2, <2>6, EdgeFacts
  <1>2. Closed(Known)
    BY <1>1, <1>k DEF Closed, NoMixins
  <1>3. ASSUME NEW s \in Known, program.parent[s] # NoSchema, s \in Ancestry(program.parent[s])
        PROVE  FALSE
    <2> DEFINE S == {x \in Known : s \in Ancestry(x)}
    <2>1. ASSUME NEW x \in S PROVE \E y \in S : <<x, y>> \in InheritEdges
      <3>1. x \in Known /\ x \in Schemas /\ s \in Ancestry(x)
        BY <1>k
      <3>2. program.parent[x] # NoSchema /\ s \in Ancestry(program.parent[x])
        <4>1. CASE x = s
          BY <1>3, <4>1
        <4>2. CASE x # s
          BY <1>t, <3>1, <4>2, AncestryParent
        <4> QED BY <4>1, <4>2
      <3> QED BY <1>1, <3>1, <3>2
    <2>2. program.parent[s] \in S
      BY <1>1, <1>3
    <2> HIDE DEF S
    <2>3. S \subseteq {e[1] : e \in InheritEdges}
      <3> SUFFICES ASSUME NEW x \in S PROVE x \in {e[1] : e \in InheritEdges}
        OBVIOUS
      <3>1. PICK y \in S : <<x, y>> \in InheritEdges
        BY <2>1
      <3>2. <<x, y>>[1] = x
        OBVIOUS
      <3> QED BY <3>1, <3>2
    <2>4. IsCyclic(InheritEdges)
      BY <2>1, <2>2, <2>3 DEF IsCyclic
    <2> QED BY <2>4, InvCycles DEF ReportsCycles
  <1> QED BY <1>2, <1>3 DEF Sound

\* When every type is complete, the scans in which they became so show it.
LEMMA InvNeeded ==
  ASSUME IInv, GraphKnown, NeedInv, Done, circular = {}, illegal = {}, NoMixins,
         \A p \in Reached \cap Loaded : \A s \in Declares(p) : view[s] = Ancestry(s)
  PROVE  Scannable
  <1>t. program \in Programs
    BY DEF IInv, TypeOK
  <1>1. Sound
    BY DoneSound
  <1>2. PICK r \in Ranks : Witnessed(r)
    BY <1>1 DEF NeedInv
  <1>3. CompleteAfter(r)
    <2> SUFFICES ASSUME NEW p \in Reached \cap Loaded, NEW i \in 1..Len(Decls[p]), NEW j \in 1..Len(Decls[p]),
                        Decls[p][j] \in Parts(Decls[p][i])
                 PROVE  \/ r[Decls[p][j]] < r[Decls[p][i]]
                        \/ r[Decls[p][j]] = r[Decls[p][i]] /\ j < i
      BY DEF CompleteAfter
    <2>1. DeclsOf(p) = Decls[p]
      BY DEF DeclsOf
    <2>2. HasAll(DeclsOf(p)[i])
      BY <2>1 DEF HasAll, Declares
    <2>3. Witness(r, p, i)
      BY <1>2, <2>1, <2>2 DEF Witnessed
    <2>4. Decls[p][j] = program.parent[Decls[p][i]]
      <3>1. Decls[p][i] \in Schemas
        BY <1>t, <2>1, ProgramFacts, ReachedFacts
      <3> QED BY <3>1 DEF Parts, NoMixins
    <2> QED BY <2>1, <2>3, <2>4 DEF Witness
  <1> QED BY <1>2, <1>3 DEF Scannable, Ranks

\* Nothing is complete at first.
LEMMA NeedInit == Init => NeedInv /\ GraphKnown
  <1> SUFFICES ASSUME Init PROVE NeedInv /\ GraphKnown
    OBVIOUS
  <1>t. program \in Programs
    BY DEF Init
  <1>1. \A s \in Schemas : view[s] = {} /\ s \in Ancestry(s)
    BY <1>t, AncestryLeast DEF Init
  <1>d. \A p \in Pkgs : DeclsOf(p) \in Seq(Schemas)
    BY <1>t, ProgramFacts
  <1>2. \A p \in Pkgs : Declares(p) \subseteq Schemas
    BY <1>d DEF Declares
  <1>3. Reached \subseteq Pkgs /\ Known \subseteq Schemas
    BY <1>t, <1>2, ReachedFacts DEF Known
  <1>4. Untouched
    BY <1>1, <1>2 DEF Untouched
  <1>5. PICK r \in Ranks : TRUE
    <2>1. [s \in Schemas |-> 1] \in Ranks
      BY DEF Ranks, MAX_SCOPE_SCAN_COUNT
    <2> QED BY <2>1
  <1>6. Witnessed(r)
    <2> SUFFICES ASSUME NEW p \in Reached, NEW i \in 1..Len(DeclsOf(p)) PROVE ~HasAll(DeclsOf(p)[i])
      BY DEF Witnessed
    <2>1. DeclsOf(p)[i] \in Schemas
      BY <1>3, <1>d
    <2> QED BY <1>1, <2>1 DEF HasAll
  <1>7. GraphKnown
    BY DEF Init, GraphKnown
  <1> QED BY <1>1, <1>3, <1>4, <1>6, <1>7 DEF NeedInv

\* Every step of check keeps it.
LEMMA NeedStep == DeclaredOnce /\ IInv /\ SeesInv /\ NeedInv /\ [Next]_vars => NeedInv'
  <1>1. IInv /\ NeedInv /\ UNCHANGED vars => NeedInv'
    <2> SUFFICES ASSUME IInv, NeedInv, UNCHANGED vars PROVE NeedInv'
      OBVIOUS
    <2>1. \A f \in Frames : InStack(f)' => InStack(f)
      BY DEF vars, InStack
    <2>2. UNCHANGED <<program, view>> /\ illegal \subseteq illegal' /\ scope_map \subseteq scope_map'
      BY DEF vars
    <2>3. \A f \in Frames : InStack(f)' /\ f.phase = "import" =>
             \/ f.pkg \notin scope_map
             \/ \E e \in Frames : InStack(e) /\ e.pkg = f.pkg /\ e.phase = "import"
      BY <2>1
    <2>4. \A r \in Ranks, q \in Reached : \A i \in 1..Len(DeclsOf(q)) :
             HasAll(DeclsOf(q)[i]) /\ Witness(r, q, i) =>
                \A f \in Frames : InStack(f)' /\ f.phase = "build" /\ f.pkg = q =>
                   r[DeclsOf(q)[i]] < f.scan \/ (r[DeclsOf(q)[i]] = f.scan /\ i < f.i)
      BY <2>1 DEF Witness
    <2> QED BY <2>2, <2>3, <2>4, NeedMove
  <1>2. SeesInv => TypesTyped
    BY DEF SeesInv
  <1> QED
    BY <1>1, <1>2, NeedImports, NeedScanSymbols, NeedBuildSchema, NeedNextScan, NeedCheckStatements DEF Next

\* The two directions together.
LEMMA InvDecides == IInv /\ SeesInv /\ GraphKnown /\ NeedInv => ScansDecide
  <1> SUFFICES ASSUME IInv, SeesInv, GraphKnown, NeedInv, Done, circular = {}, illegal = {}
               PROVE  LET complete == \A p \in Reached \cap Loaded : \A s \in Declares(p) : view[s] = Ancestry(s)
                      IN  /\ Scannable /\ PlainMixins => complete
                          /\ complete /\ (\A s \in Schemas : program.mixins[s] = {}) => Scannable
    BY DEF ScansDecide
  <1> DEFINE complete == \A p \in Reached \cap Loaded : \A s \in Declares(p) : view[s] = Ancestry(s)
  <1>1. Scannable /\ PlainMixins => complete
    BY InvSees DEF SeesAllAncestors
  <1>2. complete /\ (\A s \in Schemas : program.mixins[s] = {}) => Scannable
    <2> SUFFICES ASSUME complete, \A s \in Schemas : program.mixins[s] = {} PROVE Scannable
      OBVIOUS
    <2>1. NoMixins
      BY DEF NoMixins
    <2> QED BY <2>1, InvNeeded
  <1> QED BY <1>1, <1>2

\* With one declaration per schema: the three scans complete exactly the programs
\* (of those without mixins) in which no chain of parents runs against the order
\* of the declarations more than twice.
THEOREM Decides ==
  ASSUME DeclaredOnce
  PROVE  Spec => []ScansDecide
  <1> DEFINE SI == IInv /\ SeesInv /\ GraphKnown /\ NeedInv
  <1>1. Init => SI
    BY InvInit, SeesInit, NeedInit
  <1>2. SI /\ [Next]_vars => SI'
    BY InvStep, SeesStep, GraphKnownStep, NeedStep
  <1>3. SI => ScansDecide
    BY InvDecides
  <1> QED BY <1>1, <1>2, <1>3, PTL DEF Spec
=============================================================================
