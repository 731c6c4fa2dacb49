---------------------------- MODULE PackageCache ----------------------------
(***************************************************************************)
(* The package cache under <root>/.kclvm/cache and the builds that share   *)
(* it: exec_program parses the sources, KclvmAssembler::gen_libs takes     *)
(* each imported package through load_pkg_cache / assemble /               *)
(* save_pkg_cache under the lock of its object file, and KclvmLinker reads *)
(* the objects after the locks are gone.  Several processes build in the   *)
(* same root, a user edits the sources, and a build may stop anywhere.     *)
(*                                                                         *)
(* A source text is a number (its version); MD5 is taken to be injective.  *)
(* The main package is left out: its object lives in a private directory.  *)
(***************************************************************************)
EXTENDS Integers, FiniteSets

CONSTANTS Procs,            \* processes that run exec_program in one root
          Pkgs,             \* the imported packages of the program
          Kind,             \* where each package's sources are
          Versions,         \* the source texts a package can have
          First,            \* the text every package starts with
          EditsDuringBuild, \* may the user save a file while a build is running
          Reverts,          \* may an edit bring back an earlier text
          MaxEdits, MaxAborts, MaxBuilds   \* bounds

\* "internal": under root; "registered": external, in external_pkgs;
\* "vendored": external, found in a vendor directory only.
ASSUME KindAssumption == Kind \in [Pkgs -> {"internal", "registered", "vendored"}]
ASSUME VersionAssumption == Versions \subseteq Nat \ {0} /\ First \in Versions
ASSUME SwitchAssumption == EditsDuringBuild \in BOOLEAN /\ Reverts \in BOOLEAN
ASSUME NullAssumption == "no process" \notin Procs /\ "no package" \notin Pkgs
ASSUME BoundAssumption == MaxEdits \in Nat /\ MaxAborts \in Nat /\ MaxBuilds \in Nat

Absent == 0     \* no such file, or no entry in the info map
Torn == -1      \* an object file that is only partly written
NoProc == "no process"
NoPkg == "no package"

VARIABLES
    \* the file system
    source,     \* text of each package's .k files
    object,     \* the object file <cache>/<pkgpath>.o
    entry,      \* does the cache file <cache>/<pkgpath> (path of the object) exist
    info,       \* the map in <cache>/info: the recorded md5 of each package
    objLock,    \* holder of <pkgpath>.o.lock
    infoLock,   \* holder of info.lock
    \* each process
    pc,
    cur,        \* the package in hand
    left,       \* packages gen_libs has still to handle
    parsed,     \* the text of each package in the program's AST
    md5,        \* local `cache_info` of write_info_cache
    copy,       \* local `cache` of write_info_cache
    linked,     \* what the linker found in each object file
    \* history and bounds
    seen,       \* texts each package has had since the build parsed it
    recorded,   \* the md5 last recorded for each package
    edits, aborts, builds

files == <<source, object, entry, info>>
locks == <<objLock, infoLock>>
locals == <<cur, left, parsed, md5, copy, linked>>
counters == <<edits, aborts, builds>>
vars == <<files, locks, pc, locals, seen, recorded, counters>>

Init ==
    /\ source = [p \in Pkgs |-> First]
    /\ object = [p \in Pkgs |-> Absent]
    /\ entry = [p \in Pkgs |-> FALSE]
    /\ info = [p \in Pkgs |-> Absent]
    /\ objLock = [p \in Pkgs |-> NoProc]
    /\ infoLock = NoProc
    /\ pc = [b \in Procs |-> "idle"]
    /\ cur = [b \in Procs |-> NoPkg]
    /\ left = [b \in Procs |-> {}]
    /\ parsed = [b \in Procs |-> [p \in Pkgs |-> Absent]]
    /\ md5 = [b \in Procs |-> Absent]
    /\ copy = [b \in Procs |-> [p \in Pkgs |-> Absent]]
    /\ linked = [b \in Procs |-> [p \in Pkgs |-> Absent]]
    /\ seen = [b \in Procs |-> [p \in Pkgs |-> {}]]
    /\ recorded = [p \in Pkgs |-> Absent]
    /\ edits = 0 /\ aborts = 0 /\ builds = 0

Goto(b, from, to) == pc[b] = from /\ pc' = [pc EXCEPT ![b] = to]

----------------------------------------------------------------------------
(* One build. *)

\* exec_program: load_program reads every package's files.
Parse(b) ==
    /\ builds < MaxBuilds
    /\ Goto(b, "idle", "next")
    /\ parsed' = [parsed EXCEPT ![b] = source]
    /\ seen' = [seen EXCEPT ![b] = [p \in Pkgs |-> {source[p]}]]
    /\ left' = [left EXCEPT ![b] = Pkgs]
    /\ builds' = builds + 1
    /\ UNCHANGED <<files, locks, cur, md5, copy, linked, recorded, edits, aborts>>

LockObjectNoWait(b, p) ==
    /\ p \in left[b]
    /\ Goto(b, "next", "load")
    /\ objLock' = [objLock EXCEPT ![p] = b]
    /\ cur' = [cur EXCEPT ![b] = p]
    /\ left' = [left EXCEPT ![b] = @ \ {p}]
    /\ UNCHANGED <<files, infoLock, parsed, md5, copy, linked, seen, recorded,
                   counters>>
\* The lock taken before a package's cache is looked at.
LockObject(b, p) ==
    /\ p \in left[b]
    /\ objLock[p] = NoProc
    /\ Goto(b, "next", "load")
    /\ objLock' = [objLock EXCEPT ![p] = b]
    /\ cur' = [cur EXCEPT ![b] = p]
    /\ left' = [left EXCEPT ![b] = @ \ {p}]
    /\ UNCHANGED <<files, infoLock, parsed, md5, copy, linked, seen, recorded,
                   counters>>

\* get_cache_info: the digest of the files as they are at the time of the call.
Md5OfSource(p) == source[p]

RealPathExists(p) == Kind[p] = "internal"

\* The md5 comparison is made when the package's directory exists under root
\* or its name is in external_pkgs.
Checked(p) == RealPathExists(p) \/ Kind[p] = "registered"

HitIgnoresMd5(p) == entry[p] /\ object[p] # Absent
\* load_pkg_cache gives a path and that object file exists.
Hit(p) ==
    /\ entry[p]
    /\ Checked(p) => info[p] = Md5OfSource(p)
    /\ object[p] # Absent

LoadPkgCache(b) ==
    /\ pc[b] = "load"
    /\ pc' = [pc EXCEPT ![b] = IF Hit(cur[b]) THEN "unlock" ELSE "clean"]
    /\ UNCHANGED <<files, locks, locals, seen, recorded, counters>>

\* assemble: clean_path, then emit_code creates the file and fills it.
CleanObject(b) ==
    /\ Goto(b, "clean", "emit")
    /\ object' = [object EXCEPT ![cur[b]] = Absent]
    /\ UNCHANGED <<source, entry, info, locks, locals, seen, recorded, counters>>

BeginEmit(b) ==
    /\ Goto(b, "emit", "emitting")
    /\ object' = [object EXCEPT ![cur[b]] = Torn]
    /\ UNCHANGED <<source, entry, info, locks, locals, seen, recorded, counters>>

EndEmit(b) ==
    /\ Goto(b, "emitting", "save")
    /\ object' = [object EXCEPT ![cur[b]] = parsed[b][cur[b]]]
    /\ UNCHANGED <<source, entry, info, locks, locals, seen, recorded, counters>>

\* save_pkg_cache: write_info_cache is called only if the real path exists;
\* it hashes the files as they are now, before it takes the info lock.
HashSource(b) ==
    /\ \/ /\ Goto(b, "save", "lockinfo")
          /\ RealPathExists(cur[b])
          /\ md5' = [md5 EXCEPT ![b] = Md5OfSource(cur[b])]
       \/ /\ Goto(b, "save", "entry")
          /\ ~RealPathExists(cur[b])
          /\ UNCHANGED md5
    /\ UNCHANGED <<files, locks, cur, left, parsed, copy, linked, seen, recorded,
                   counters>>

LockInfoSkipped(b) ==
    /\ Goto(b, "lockinfo", "writeinfo")
    /\ copy' = [copy EXCEPT ![b] = info]
    /\ UNCHANGED <<files, locks, cur, left, parsed, md5, linked, seen, recorded,
                   counters>>
\* Lock the info file and read the map.
LockInfo(b) ==
    /\ infoLock = NoProc
    /\ Goto(b, "lockinfo", "writeinfo")
    /\ infoLock' = b
    /\ copy' = [copy EXCEPT ![b] = info]
    /\ UNCHANGED <<files, objLock, cur, left, parsed, md5, linked, seen, recorded,
                   counters>>

\* Insert the md5, write a temporary file, rename it over info, unlock.
WriteInfo(b) ==
    /\ Goto(b, "writeinfo", "entry")
    /\ info' = [copy[b] EXCEPT ![cur[b]] = md5[b]]
    /\ infoLock' = NoProc
    /\ recorded' = [recorded EXCEPT ![cur[b]] = md5[b]]
    /\ UNCHANGED <<source, object, entry, objLock, locals, seen, counters>>

\* save_data_to_file: the cache file appears by a rename (its own lock is
\* only ever taken under the object's lock, so nobody waits for it).
SaveEntry(b) ==
    /\ Goto(b, "entry", "unlock")
    /\ entry' = [entry EXCEPT ![cur[b]] = TRUE]
    /\ UNCHANGED <<source, object, info, locks, locals, seen, recorded, counters>>

UnlockObjectForgets(b) ==
    /\ Goto(b, "unlock", "next")
    /\ cur' = [cur EXCEPT ![b] = NoPkg]
    /\ UNCHANGED <<files, locks, left, parsed, md5, copy, linked, seen, recorded,
                   counters>>
UnlockObject(b) ==
    /\ Goto(b, "unlock", "next")
    /\ objLock' = [objLock EXCEPT ![cur[b]] = NoProc]
    /\ cur' = [cur EXCEPT ![b] = NoPkg]
    /\ UNCHANGED <<files, infoLock, left, parsed, md5, copy, linked, seen,
                   recorded, counters>>

\* link_all_libs reads the object files; no lock is held any more.
Link(b) ==
    /\ left[b] = {}
    /\ Goto(b, "next", "linked")
    /\ linked' = [linked EXCEPT ![b] = object]
    /\ UNCHANGED <<files, locks, cur, left, parsed, md5, copy, seen, recorded,
                   counters>>

\* The locals of the build go away with the process or the call.
ForgetLocals(b) ==
    /\ cur' = [cur EXCEPT ![b] = NoPkg]
    /\ left' = [left EXCEPT ![b] = {}]
    /\ parsed' = [parsed EXCEPT ![b] = [p \in Pkgs |-> Absent]]
    /\ md5' = [md5 EXCEPT ![b] = Absent]
    /\ copy' = [copy EXCEPT ![b] = [p \in Pkgs |-> Absent]]
    /\ linked' = [linked EXCEPT ![b] = [p \in Pkgs |-> Absent]]
    /\ seen' = [seen EXCEPT ![b] = [p \in Pkgs |-> {}]]

\* The library is run and removed; the process is free for another build.
Run(b) ==
    /\ Goto(b, "linked", "idle")
    /\ ForgetLocals(b)
    /\ UNCHANGED <<files, locks, recorded, counters>>

\* The process is killed, or gen_libs returns early through `?` or a panic:
\* the operating system, or the drop of LockFile, releases its locks.
Abort(b) ==
    /\ aborts < MaxAborts
    /\ pc[b] \notin {"idle", "linked"}
    /\ pc' = [pc EXCEPT ![b] = "idle"]
    /\ objLock' = [p \in Pkgs |-> IF objLock[p] = b THEN NoProc ELSE objLock[p]]
    /\ infoLock' = IF infoLock = b THEN NoProc ELSE infoLock
    /\ ForgetLocals(b)
    /\ aborts' = aborts + 1
    /\ UNCHANGED <<files, recorded, edits, builds>>

Build(b) ==
    \/ Parse(b) \/ (\E p \in Pkgs : LockObject(b, p)) \/ LoadPkgCache(b)
    \/ CleanObject(b) \/ BeginEmit(b) \/ EndEmit(b) \/ HashSource(b) \/ LockInfo(b)
    \/ WriteInfo(b) \/ SaveEntry(b) \/ UnlockObject(b) \/ Link(b) \/ Run(b)

\* The user saves another text of a package.
Edit(p, v) ==
    /\ edits < MaxEdits
    /\ v # source[p]
    /\ Reverts \/ v > source[p]
    /\ EditsDuringBuild \/ \A b \in Procs : pc[b] = "idle"
    /\ source' = [source EXCEPT ![p] = v]
    /\ seen' = [b \in Procs |-> [seen[b] EXCEPT ![p] = IF pc[b] = "idle" THEN @ ELSE @ \cup {v}]]
    /\ edits' = edits + 1
    /\ UNCHANGED <<object, entry, info, locks, pc, locals, recorded, aborts, builds>>

Next ==
    \/ \E b \in Procs : Build(b) \/ Abort(b)
    \/ \E p \in Pkgs, v \in Versions : Edit(p, v)

Spec == Init /\ [][Next]_vars

\* A process that runs keeps running and a free lock is eventually obtained by
\* everybody who waits for it (flock wakes its waiters); nobody is obliged to
\* start a build, to edit or to abort.
Fairness == \A b \in Procs : SF_vars(Build(b) /\ pc[b] # "idle")
FairSpec == Spec /\ Fairness

----------------------------------------------------------------------------
(* Properties. *)

Holding == {"load", "clean", "emit", "emitting", "save", "lockinfo", "writeinfo",
            "entry", "unlock"}

\* Files hold texts or nothing, and a process between lock and unlock of a
\* package has that package in hand and is the one holder of its lock.
TypeOK ==
    /\ source \in [Pkgs -> Versions]
    /\ object \in [Pkgs -> Versions \cup {Absent, Torn}]
    /\ entry \in [Pkgs -> BOOLEAN]
    /\ info \in [Pkgs -> Versions \cup {Absent}]
    /\ objLock \in [Pkgs -> Procs \cup {NoProc}]
    /\ infoLock \in Procs \cup {NoProc}
    /\ pc \in [Procs -> {"idle", "next", "load", "clean", "emit", "emitting", "save",
                         "lockinfo", "writeinfo", "entry", "unlock", "linked"}]
    /\ cur \in [Procs -> Pkgs \cup {NoPkg}]
    /\ left \in [Procs -> SUBSET Pkgs]
    /\ parsed \in [Procs -> [Pkgs -> Versions \cup {Absent}]]
    /\ md5 \in [Procs -> Versions \cup {Absent}]
    /\ copy \in [Procs -> [Pkgs -> Versions \cup {Absent}]]
    /\ linked \in [Procs -> [Pkgs -> Versions \cup {Absent, Torn}]]
    /\ seen \in [Procs -> [Pkgs -> SUBSET Versions]]
    /\ recorded \in [Pkgs -> Versions \cup {Absent}]
    /\ \A b \in Procs : pc[b] \in Holding => cur[b] \in Pkgs /\ objLock[cur[b]] = b

\* The linker finds every object file in place and complete, although the locks
\* of gen_libs are released before it runs.
LinksWholeObjects ==
    \A b \in Procs : pc[b] = "linked" => \A p \in Pkgs : linked[b][p] \notin {Absent, Torn}

\* A build runs code of a text its package had while the build was going on:
\* the cache never brings back the object of some other text.
LinksCurrentSource ==
    \A b \in Procs : pc[b] = "linked" =>
       \A p \in Pkgs : linked[b][p] \in Versions => linked[b][p] \in seen[b][p]

\* write_info_cache loses no entry: the info file maps every package to the md5
\* recorded last, although concurrent builds rewrite the whole map.
NoLostInfo == info = recorded

\* Every build that has started comes to an end: the object locks and the info
\* lock never leave two builds waiting for each other.
BuildsFinish == \A b \in Procs : pc[b] # "idle" ~> pc[b] = "idle"

\* The builds whose locks b may be waiting for, whichever package it takes next.
BlockedBy(b) ==
    {c \in Procs : \/ pc[b] = "next" /\ \E p \in left[b] : objLock[p] = c
                   \/ pc[b] = "lockinfo" /\ infoLock = c}
\* What b does next: it has no lock and may wait for an object's, it has an
\* object's and waits for that of the info file, or it has one and waits for none.
Stage(b) ==
    IF pc[b] \in {"idle", "next", "linked"} THEN 0 ELSE IF pc[b] = "lockinfo" THEN 1 ELSE 2

\* A build waits only for builds at a later stage: waits form no circle, and a
\* chain of them ends at a build that can take its next step.
WaitsForFurther == \A b \in Procs : \A c \in BlockedBy(b) : Stage(c) > Stage(b)

----------------------------------------------------------------------------
(* The discipline under which the cache is sound, and why (see             *)
(* PackageCacheProofs): every package under root, no edit while a build is *)
(* running, and no return to an earlier text.                              *)

Disciplined ==
    /\ \A p \in Pkgs : Kind[p] = "internal"
    /\ ~EditsDuringBuild
    /\ ~Reverts

\* The cache vouches only for the present text: when a package's entry exists
\* and its recorded md5 is that of the source, its object was compiled from it.
AcceptsOnlyCurrent ==
    \A p \in Pkgs : entry[p] /\ info[p] = source[p] => object[p] = source[p]

Cached(p) == entry[p] /\ info[p] = source[p] /\ object[p] = source[p]

\* What a running build knows about the package in hand and those it is done with.
BuildInv(b) ==
    /\ pc[b] # "idle" => parsed[b] = source /\ seen[b] = [p \in Pkgs |-> {source[p]}]
    /\ pc[b] \in {"clean", "emit", "emitting"}
          => ~(entry[cur[b]] /\ info[cur[b]] = source[cur[b]])
    /\ pc[b] \in {"save", "lockinfo", "writeinfo", "entry"}
          => object[cur[b]] = source[cur[b]]
    /\ pc[b] \in {"lockinfo", "writeinfo"} => md5[b] = source[cur[b]]
    /\ pc[b] = "entry" => info[cur[b]] = source[cur[b]]
    /\ pc[b] = "unlock" => Cached(cur[b])
    /\ pc[b] # "idle" => \A p \in Pkgs \ left[b] : p # cur[b] => Cached(p)
    /\ pc[b] \in {"idle", "next", "linked"} => cur[b] = NoPkg
    /\ pc[b] = "linked" => linked[b] = source

\* Recorded texts are never newer than the source, so an edit to a newer text
\* makes the cache miss.
CacheInv ==
    /\ AcceptsOnlyCurrent
    /\ \A b \in Procs : BuildInv(b)
    /\ \A p \in Pkgs : info[p] <= source[p]

\* The info lock protects the read-modify-write of the info map.
InfoInv ==
    /\ \A b \in Procs : pc[b] = "writeinfo" => infoLock = b /\ copy[b] = info
    /\ NoLostInfo

\* Every lock is held by a build that is between taking and releasing it.
LockInv ==
    /\ \A p \in Pkgs, b \in Procs : objLock[p] = b => pc[b] \in Holding /\ cur[b] = p
    /\ \A b \in Procs : infoLock = b => pc[b] = "writeinfo"
=============================================================================
