------------------------- MODULE PackageCacheProofs -------------------------
(* Theorems about PackageCache, for every set of processes and packages. *)
EXTENDS PackageCache, TLAPS

Labels == {"idle", "next", "load", "clean", "emit", "emitting", "save",
           "lockinfo", "writeinfo", "entry", "unlock", "linked"}

\* The initial files and locals have their types.
LEMMA TypeInit == Init => TypeOK
  BY VersionAssumption DEF VersionAssumption, Init, TypeOK, Holding

\* Every step of a build, every kill and every edit keeps the types and the
\* exclusion on the object locks.
LEMMA TypeStep == TypeOK /\ [Next]_vars => TypeOK'
  <1> SUFFICES ASSUME TypeOK, [Next]_vars PROVE TypeOK'
    OBVIOUS
  <1> USE VersionAssumption, NullAssumption
      DEF VersionAssumption, NullAssumption, NoProc, NoPkg, files, locks, locals, counters
  <1>1. ASSUME NEW b \in Procs, Parse(b) PROVE TypeOK'
    <2>1. parsed' \in [Procs -> [Pkgs -> Versions \cup {Absent}]]
      <3>1. source \in [Pkgs -> Versions \cup {Absent}] BY DEF TypeOK
      <3> QED BY <1>1, <3>1 DEF Parse, TypeOK
    <2>2. seen' \in [Procs -> [Pkgs -> SUBSET Versions]]
      <3>0. source \in [Pkgs -> Versions] BY DEF TypeOK
      <3>a. \A p \in Pkgs : {source[p]} \in SUBSET Versions BY <3>0
      <3>1. [p \in Pkgs |-> {source[p]}] \in [Pkgs -> SUBSET Versions] BY <3>a
      <3> QED BY <1>1, <3>1 DEF Parse, TypeOK
    <2>3. left' \in [Procs -> SUBSET Pkgs]
      BY <1>1 DEF Parse, TypeOK
    <2>4. pc' \in [Procs -> Labels] /\ \A c \in Procs : pc'[c] \in Holding => pc[c] \in Holding
      BY <1>1 DEF Parse, Goto, TypeOK, Holding, Labels
    <2> QED BY <1>1, <2>1, <2>2, <2>3, <2>4 DEF Parse, TypeOK, Labels
  <1>2. ASSUME NEW b \in Procs, NEW p \in Pkgs, LockObject(b, p) PROVE TypeOK'
    <2>1. /\ pc' \in [Procs -> Labels]
          /\ \A c \in Procs : c # b => pc'[c] = pc[c]
      BY <1>2 DEF LockObject, Goto, TypeOK, Labels
    <2>2. objLock' \in [Pkgs -> Procs \cup {NoProc}] /\ cur' \in [Procs -> Pkgs \cup {NoPkg}]
      BY <1>2 DEF LockObject, TypeOK
    <2>3. left' \in [Procs -> SUBSET Pkgs]
      BY <1>2 DEF LockObject, TypeOK
    <2>4. ASSUME NEW c \in Procs, pc'[c] \in Holding
          PROVE cur'[c] \in Pkgs /\ objLock'[cur'[c]] = c
      <3>1. CASE c = b
        BY <1>2, <3>1 DEF LockObject, TypeOK
      <3>2. CASE c # b
        <4>1. cur'[c] = cur[c] /\ cur[c] \in Pkgs /\ objLock[cur[c]] = c
          BY <1>2, <2>1, <2>4, <3>2 DEF LockObject, TypeOK
        <4>2. cur[c] # p
          BY <1>2, <4>1 DEF LockObject
        <4> QED BY <1>2, <4>1, <4>2 DEF LockObject, TypeOK
      <3> QED BY <3>1, <3>2
    <2> QED BY <1>2, <2>1, <2>2, <2>3, <2>4 DEF LockObject, TypeOK, Labels
  <1>3. ASSUME NEW b \in Procs, LoadPkgCache(b) PROVE TypeOK'
    BY <1>3 DEF LoadPkgCache, TypeOK, Holding
  <1>4. ASSUME NEW b \in Procs, CleanObject(b) PROVE TypeOK'
    BY <1>4 DEF CleanObject, Goto, TypeOK, Holding
  <1>5. ASSUME NEW b \in Procs, BeginEmit(b) PROVE TypeOK'
    BY <1>5 DEF BeginEmit, Goto, TypeOK, Holding
  <1>6. ASSUME NEW b \in Procs, EndEmit(b) PROVE TypeOK'
    <2>1. pc' \in [Procs -> Labels] /\ \A c \in Procs : pc'[c] \in Holding => pc[c] \in Holding
      BY <1>6 DEF EndEmit, Goto, TypeOK, Holding, Labels
    <2>2. cur[b] \in Pkgs /\ parsed[b] \in [Pkgs -> Versions \cup {Absent}]
      BY <1>6 DEF EndEmit, Goto, TypeOK, Holding
    <2>3. object' \in [Pkgs -> Versions \cup {Absent, Torn}]
      BY <1>6, <2>2, ZenonT(30) DEF EndEmit, TypeOK
    <2> QED BY <1>6, <2>1, <2>3 DEF EndEmit, TypeOK, Labels
  <1>7. ASSUME NEW b \in Procs, HashSource(b) PROVE TypeOK'
    <2>1. pc' \in [Procs -> Labels] /\ \A c \in Procs : pc'[c] \in Holding => pc[c] \in Holding
      BY <1>7, ZenonT(30) DEF HashSource, Goto, TypeOK, Holding, Labels
    <2>2. pc[b] = "save" /\ cur[b] \in Pkgs
      BY <1>7 DEF HashSource, Goto, TypeOK, Holding
    <2>3. md5' \in [Procs -> Versions \cup {Absent}]
      <3>1. source[cur[b]] \in Versions /\ md5 \in [Procs -> Versions \cup {Absent}]
        BY <2>2 DEF TypeOK
      <3> QED BY <1>7, <3>1 DEF HashSource, Md5OfSource
    <2> QED BY <1>7, <2>1, <2>3 DEF HashSource, TypeOK, Labels
  <1>8. ASSUME NEW b \in Procs, LockInfo(b) PROVE TypeOK'
    <2>1. pc' \in [Procs -> Labels] /\ \A c \in Procs : pc'[c] \in Holding => pc[c] \in Holding
      BY <1>8 DEF LockInfo, Goto, TypeOK, Holding, Labels
    <2>2. copy' \in [Procs -> [Pkgs -> Versions \cup {Absent}]]
      BY <1>8 DEF LockInfo, TypeOK
    <2> QED BY <1>8, <2>1, <2>2 DEF LockInfo, TypeOK, Labels
  <1>9. ASSUME NEW b \in Procs, WriteInfo(b) PROVE TypeOK'
    BY <1>9 DEF WriteInfo, Goto, TypeOK, Holding
  <1>10. ASSUME NEW b \in Procs, SaveEntry(b) PROVE TypeOK'
    BY <1>10 DEF SaveEntry, Goto, TypeOK, Holding
  <1>11. ASSUME NEW b \in Procs, UnlockObject(b) PROVE TypeOK'
    BY <1>11 DEF UnlockObject, Goto, TypeOK, Holding
  <1>12. ASSUME NEW b \in Procs, Link(b) PROVE TypeOK'
    BY <1>12 DEF Link, Goto, TypeOK, Holding
  <1>13. ASSUME NEW b \in Procs, Run(b) PROVE TypeOK'
    BY <1>13 DEF Run, ForgetLocals, Goto, TypeOK, Holding
  <1>14. ASSUME NEW b \in Procs, Abort(b) PROVE TypeOK'
    BY <1>14 DEF Abort, ForgetLocals, TypeOK, Holding
  <1>15. ASSUME NEW p \in Pkgs, NEW v \in Versions, Edit(p, v) PROVE TypeOK'
    <2>1. source' \in [Pkgs -> Versions]
      BY <1>15 DEF Edit, TypeOK
    <2>2. seen' \in [Procs -> [Pkgs -> SUBSET Versions]]
      <3>1. ASSUME NEW c \in Procs
            PROVE  [seen[c] EXCEPT ![p] = IF pc[c] = "idle" THEN @ ELSE @ \cup {v}]
                     \in [Pkgs -> SUBSET Versions]
        <4>1. seen[c] \in [Pkgs -> SUBSET Versions] BY DEF TypeOK
        <4>2. seen[c][p] \in SUBSET Versions /\ (seen[c][p] \cup {v}) \in SUBSET Versions
          BY <4>1
        <4> QED BY <4>1, <4>2
      <3> QED BY <1>15, <3>1 DEF Edit
    <2> QED BY <1>15, <2>1, <2>2 DEF Edit, TypeOK, Holding
  <1>16. CASE UNCHANGED vars
    BY <1>16 DEF vars, TypeOK, Holding
  <1> QED
    BY <1>1, <1>2, <1>3, <1>4, <1>5, <1>6, <1>7, <1>8, <1>9, <1>10, <1>11, <1>12,
       <1>13, <1>14, <1>15, <1>16 DEF Next, Build

\* Every file of the cache keeps its type and a build past LockObject is the
\* one holder of its package's lock.
THEOREM TypeCorrect == Spec => []TypeOK
  BY TypeInit, TypeStep, PTL DEF Spec

----------------------------------------------------------------------------
(* The info map. *)

\* The info map starts empty and so does its history.
LEMMA InfoInit == Init => InfoInv
  BY DEF Init, InfoInv, NoLostInfo

\* Only the holder of the info lock writes the map, from a copy that is current.
LEMMA InfoStep == TypeOK /\ InfoInv /\ [Next]_vars => InfoInv'
  <1> SUFFICES ASSUME TypeOK, InfoInv, [Next]_vars PROVE InfoInv'
    OBVIOUS
  <1> USE DEF files, locks, locals, counters
  <1>1. ASSUME NEW b \in Procs, LockInfo(b) PROVE InfoInv'
    BY <1>1, NullAssumption DEF NullAssumption, NoProc, LockInfo, Goto, TypeOK, InfoInv, NoLostInfo
  <1>2. ASSUME NEW b \in Procs, WriteInfo(b) PROVE InfoInv'
    <2>1. copy[b] = info /\ infoLock = b
      BY <1>2 DEF WriteInfo, Goto, InfoInv
    <2>2. info' = recorded'
      BY <1>2, <2>1 DEF WriteInfo, InfoInv, NoLostInfo
    <2>3. ASSUME NEW c \in Procs, pc'[c] = "writeinfo" PROVE FALSE
      <3>1. c # b /\ pc[c] = "writeinfo"
        BY <1>2, <2>3 DEF WriteInfo, Goto, TypeOK
      <3> QED BY <2>1, <3>1 DEF InfoInv
    <2> QED BY <2>2, <2>3 DEF InfoInv, NoLostInfo
  <1>3. ASSUME NEW b \in Procs, Abort(b) PROVE InfoInv'
    <2>1. ASSUME NEW c \in Procs, pc'[c] = "writeinfo"
          PROVE  infoLock' = c /\ copy'[c] = info
      <3>1. c # b /\ pc[c] = "writeinfo"
        BY <1>3, <2>1 DEF Abort, TypeOK
      <3>2. infoLock = c /\ copy[c] = info
        BY <3>1 DEF InfoInv
      <3> QED BY <1>3, <3>1, <3>2 DEF Abort, ForgetLocals, TypeOK
    <2> QED BY <1>3, <2>1 DEF Abort, InfoInv, NoLostInfo
  <1>4. ASSUME NEW b \in Procs, Run(b) PROVE InfoInv'
    <2>1. ASSUME NEW c \in Procs, pc'[c] = "writeinfo"
          PROVE  infoLock' = c /\ copy'[c] = info
      <3>1. c # b /\ pc[c] = "writeinfo"
        BY <1>4, <2>1 DEF Run, Goto, TypeOK
      <3> QED BY <1>4, <3>1 DEF Run, ForgetLocals, TypeOK, InfoInv
    <2> QED BY <1>4, <2>1 DEF Run, InfoInv, NoLostInfo
  <1>5. ASSUME NEW b \in Procs, NEW p \in Pkgs, LockObject(b, p) PROVE InfoInv'
    BY <1>5 DEF LockObject, Goto, TypeOK, InfoInv, NoLostInfo
  <1>6. ASSUME NEW p \in Pkgs, NEW v \in Versions, Edit(p, v) PROVE InfoInv'
    BY <1>6 DEF Edit, InfoInv, NoLostInfo
  <1>7. CASE UNCHANGED vars
    BY <1>7 DEF vars, InfoInv, NoLostInfo
  <1>8. ASSUME NEW b \in Procs,
               Parse(b) \/ LoadPkgCache(b) \/ CleanObject(b) \/ BeginEmit(b) \/ EndEmit(b)
                 \/ HashSource(b) \/ SaveEntry(b) \/ UnlockObject(b) \/ Link(b)
        PROVE InfoInv'
    <2>1. UNCHANGED <<info, recorded, infoLock, copy>>
      BY <1>8 DEF Parse, LoadPkgCache, CleanObject, BeginEmit, EndEmit, HashSource,
                  SaveEntry, UnlockObject, Link
    <2>2. \A c \in Procs : pc'[c] = "writeinfo" => pc[c] = "writeinfo"
      BY <1>8 DEF Parse, LoadPkgCache, CleanObject, BeginEmit, EndEmit, HashSource,
                  SaveEntry, UnlockObject, Link, Goto, TypeOK
    <2> QED BY <2>1, <2>2 DEF InfoInv, NoLostInfo
  <1> QED
    BY <1>1, <1>2, <1>3, <1>4, <1>5, <1>6, <1>7, <1>8 DEF Next, Build

\* Concurrent builds that rewrite the info map never lose each other's entries.
THEOREM InfoCorrect == Spec => []NoLostInfo
  <1>1. InfoInv => NoLostInfo
    BY DEF InfoInv
  <1> QED
    BY TypeInit, TypeStep, InfoInit, InfoStep, <1>1, PTL DEF Spec

----------------------------------------------------------------------------
(* Soundness of the cache under the discipline. *)

\* Two builds that are both between lock and unlock hold different packages.
LEMMA Exclusive ==
  ASSUME TypeOK, NEW b \in Procs, NEW c \in Procs, b # c,
         pc[b] \in Holding, pc[c] \in Holding
  PROVE  cur[b] \in Pkgs /\ cur[c] \in Pkgs /\ cur[b] # cur[c]
  BY DEF TypeOK

\* An empty cache vouches for nothing.
LEMMA CacheInit == Init => CacheInv
  BY VersionAssumption
  DEF VersionAssumption, Init, CacheInv, AcceptsOnlyCurrent, BuildInv, Cached, Absent

\* A step of b that touches only the package in b's hand leaves what another
\* build c knows intact.
LEMMA Frame ==
  ASSUME TypeOK, CacheInv, NEW b \in Procs, NEW c \in Procs, b # c,
         pc[b] \in Holding,
         UNCHANGED source, pc'[c] = pc[c], UNCHANGED cur, left'[c] = left[c],
         parsed'[c] = parsed[c], md5'[c] = md5[c], linked'[c] = linked[c],
         seen'[c] = seen[c],
         \A q \in Pkgs : q # cur[b] =>
            object'[q] = object[q] /\ entry'[q] = entry[q] /\ info'[q] = info[q],
         Cached(cur[b]) => Cached(cur[b])'
  PROVE  BuildInv(c)'
  <1>1. BuildInv(c)
    BY DEF CacheInv
  <1>2. pc[c] \in Holding => cur[c] \in Pkgs /\ cur[c] # cur[b]
    BY Exclusive
  <1>3. ASSUME NEW q \in Pkgs, Cached(q) PROVE Cached(q)'
    <2>1. CASE q = cur[b]
      BY <1>3, <2>1
    <2>2. CASE q # cur[b]
      BY <1>3, <2>2 DEF Cached
    <2> QED BY <2>1, <2>2
  <1>4. pc[c] \in Holding => UNCHANGED <<object[cur[c]], entry[cur[c]], info[cur[c]]>>
    BY <1>2
  <1> QED
    BY <1>1, <1>2, <1>3, <1>4 DEF BuildInv, Holding

\* Under the discipline every step keeps the cache's entries true of the sources.
LEMMA CacheStep ==
  ASSUME Disciplined, TypeOK, InfoInv, CacheInv, [Next]_vars
  PROVE  CacheInv'
  <1> USE DEF files, locks, locals, counters
  <1>v. \A p \in Pkgs : source[p] \in Nat /\ source[p] # Absent /\ info[p] \in Int
    <2>1. \A p \in Pkgs : source[p] \in Versions /\ info[p] \in Versions \cup {Absent}
      BY DEF TypeOK
    <2>2. \A v \in Versions : v \in Nat /\ v # 0 /\ v \in Int
      BY VersionAssumption DEF VersionAssumption
    <2>3. Absent = 0 /\ Absent \in Int
      BY DEF Absent
    <2> QED BY <2>1, <2>2, <2>3
  <1>1. ASSUME NEW b \in Procs, Parse(b) PROVE CacheInv'
    <2>1. BuildInv(b)'
      BY <1>1 DEF Parse, Goto, TypeOK, CacheInv, BuildInv
    <2>2. ASSUME NEW c \in Procs, c # b PROVE BuildInv(c)'
      BY <1>1, <2>2 DEF Parse, Goto, TypeOK, CacheInv, BuildInv, Cached
    <2> QED BY <1>1, <2>1, <2>2 DEF Parse, CacheInv, AcceptsOnlyCurrent
  <1>2. ASSUME NEW b \in Procs, NEW p \in Pkgs, LockObject(b, p) PROVE CacheInv'
    <2>1. BuildInv(b)'
      <3>1. pc[b] = "next" /\ cur[b] = NoPkg /\ BuildInv(b)
        BY <1>2 DEF LockObject, Goto, CacheInv, BuildInv
      <3>2. pc'[b] = "load" /\ cur'[b] = p /\ left'[b] = left[b] \ {p}
        BY <1>2 DEF LockObject, Goto, TypeOK
      <3>3. \A q \in Pkgs : q # NoPkg
        BY NullAssumption DEF NullAssumption, NoPkg
      <3>4. \A q \in Pkgs \ left'[b] : q # cur'[b] => Cached(q)'
        BY <1>2, <3>1, <3>2, <3>3 DEF LockObject, BuildInv, Cached
      <3> QED BY <1>2, <3>1, <3>2, <3>4 DEF LockObject, BuildInv
    <2>2. ASSUME NEW c \in Procs, c # b PROVE BuildInv(c)'
      BY <1>2, <2>2 DEF LockObject, Goto, TypeOK, CacheInv, BuildInv, Cached
    <2> QED BY <1>2, <2>1, <2>2 DEF LockObject, CacheInv, AcceptsOnlyCurrent
  <1>3. ASSUME NEW b \in Procs, LoadPkgCache(b) PROVE CacheInv'
    <2>0. pc[b] = "load" /\ cur[b] \in Pkgs
      BY <1>3 DEF LoadPkgCache, TypeOK, Holding
    <2>h. Hit(cur[b]) => Cached(cur[b])
      BY <2>0 DEF Hit, Md5OfSource, Checked, RealPathExists, Disciplined, Cached, CacheInv, AcceptsOnlyCurrent
    <2>m. ~Hit(cur[b]) => ~(entry[cur[b]] /\ info[cur[b]] = source[cur[b]])
      BY <2>0, <1>v DEF Hit, Md5OfSource, CacheInv, AcceptsOnlyCurrent
    <2>1. BuildInv(b)'
      BY <1>3, <2>0, <2>h, <2>m DEF LoadPkgCache, TypeOK, CacheInv, BuildInv, Cached
    <2>2. ASSUME NEW c \in Procs, c # b PROVE BuildInv(c)'
      BY <1>3, <2>2 DEF LoadPkgCache, TypeOK, CacheInv, BuildInv, Cached
    <2> QED BY <1>3, <2>1, <2>2 DEF LoadPkgCache, CacheInv, AcceptsOnlyCurrent
  <1>4. ASSUME NEW b \in Procs, CleanObject(b) \/ BeginEmit(b) PROVE CacheInv'
    <2>0. pc[b] \in {"clean", "emit"} /\ pc[b] \in Holding /\ cur[b] \in Pkgs
      BY <1>4 DEF CleanObject, BeginEmit, Goto, TypeOK, Holding
    <2>m. ~(entry[cur[b]] /\ info[cur[b]] = source[cur[b]])
      BY <2>0 DEF CacheInv, BuildInv
    <2>u. \A q \in Pkgs : q # cur[b] => object'[q] = object[q]
      BY <1>4 DEF CleanObject, BeginEmit, TypeOK
    <2>1. BuildInv(b)'
      <3>1. pc'[b] \in {"emit", "emitting"} /\ BuildInv(b)
        BY <1>4 DEF CleanObject, BeginEmit, Goto, TypeOK, CacheInv
      <3>2. \A q \in Pkgs \ left[b] : q # cur[b] => Cached(q)'
        BY <1>4, <2>0, <2>u, <3>1 DEF CleanObject, BeginEmit, BuildInv, Cached
      <3> QED BY <1>4, <2>0, <2>m, <3>1, <3>2 DEF CleanObject, BeginEmit, BuildInv
    <2>2. ASSUME NEW c \in Procs, c # b PROVE BuildInv(c)'
      <3>1. ~Cached(cur[b])
        BY <2>m DEF Cached
      <3>2. pc'[c] = pc[c]
        BY <1>4, <2>2 DEF CleanObject, BeginEmit, Goto, TypeOK
      <3> QED BY <1>4, <2>0, <2>u, <2>2, <3>1, <3>2, Frame DEF CleanObject, BeginEmit
    <2>3. AcceptsOnlyCurrent'
      BY <1>4, <2>m, <2>u DEF CleanObject, BeginEmit, CacheInv, AcceptsOnlyCurrent
    <2> QED BY <1>4, <2>1, <2>2, <2>3 DEF CleanObject, BeginEmit, CacheInv
  <1>5. ASSUME NEW b \in Procs, EndEmit(b) PROVE CacheInv'
    <2>0. pc[b] = "emitting" /\ pc[b] \in Holding /\ cur[b] \in Pkgs
      BY <1>5 DEF EndEmit, Goto, TypeOK, Holding
    <2>p. parsed[b] = source
      BY <2>0 DEF CacheInv, BuildInv
    <2>u. object' = [object EXCEPT ![cur[b]] = source[cur[b]]]
      BY <1>5, <2>p DEF EndEmit
    <2>v. object'[cur[b]] = source[cur[b]] /\ \A q \in Pkgs : q # cur[b] => object'[q] = object[q]
      BY <2>0, <2>u DEF TypeOK
    <2>1. BuildInv(b)'
      <3>1. pc'[b] = "save" /\ BuildInv(b)
        BY <1>5 DEF EndEmit, Goto, TypeOK, CacheInv
      <3>2. \A q \in Pkgs \ left[b] : q # cur[b] => Cached(q)'
        BY <1>5, <2>0, <2>v, <3>1 DEF EndEmit, BuildInv, Cached
      <3> QED BY <1>5, <2>0, <2>v, <3>1, <3>2 DEF EndEmit, BuildInv
    <2>2. ASSUME NEW c \in Procs, c # b PROVE BuildInv(c)'
      <3>1. Cached(cur[b]) => Cached(cur[b])'
        BY <1>5, <2>v DEF EndEmit, Cached
      <3>2. pc'[c] = pc[c]
        BY <1>5, <2>2 DEF EndEmit, Goto, TypeOK
      <3> QED BY <1>5, <2>0, <2>v, <2>2, <3>1, <3>2, Frame DEF EndEmit
    <2>3. AcceptsOnlyCurrent'
      BY <1>5, <2>v DEF EndEmit, CacheInv, AcceptsOnlyCurrent
    <2> QED BY <1>5, <2>1, <2>2, <2>3 DEF EndEmit, CacheInv
  <1>6. ASSUME NEW b \in Procs, HashSource(b) PROVE CacheInv'
    <2>0. pc[b] = "save" /\ cur[b] \in Pkgs
      BY <1>6 DEF HashSource, Goto, TypeOK, Holding
    <2>r. Goto(b, "save", "lockinfo") /\ md5' = [md5 EXCEPT ![b] = source[cur[b]]]
      BY <1>6, <2>0 DEF HashSource, Md5OfSource, RealPathExists, Disciplined
    <2>1. BuildInv(b)'
      BY <1>6, <2>0, <2>r DEF HashSource, Goto, TypeOK, CacheInv, BuildInv, Cached
    <2>2. ASSUME NEW c \in Procs, c # b PROVE BuildInv(c)'
      BY <1>6, <2>r, <2>2 DEF HashSource, Goto, TypeOK, CacheInv, BuildInv, Cached
    <2> QED BY <1>6, <2>1, <2>2 DEF HashSource, CacheInv, AcceptsOnlyCurrent
  <1>7. ASSUME NEW b \in Procs, LockInfo(b) PROVE CacheInv'
    <2>1. ASSUME NEW c \in Procs PROVE BuildInv(c)'
      BY <1>7, <2>1 DEF LockInfo, Goto, TypeOK, CacheInv, BuildInv, Cached
    <2> QED BY <1>7, <2>1 DEF LockInfo, CacheInv, AcceptsOnlyCurrent
  <1>8. ASSUME NEW b \in Procs, WriteInfo(b) PROVE CacheInv'
    <2>0. pc[b] = "writeinfo" /\ pc[b] \in Holding /\ cur[b] \in Pkgs
      BY <1>8 DEF WriteInfo, Goto, TypeOK, Holding
    <2>p. copy[b] = info /\ md5[b] = source[cur[b]] /\ object[cur[b]] = source[cur[b]]
      BY <2>0 DEF CacheInv, BuildInv, InfoInv
    <2>v. info'[cur[b]] = source[cur[b]] /\ \A q \in Pkgs : q # cur[b] => info'[q] = info[q]
      BY <1>8, <2>0, <2>p DEF WriteInfo, TypeOK
    <2>1. BuildInv(b)'
      BY <1>8, <2>0, <2>p, <2>v DEF WriteInfo, Goto, TypeOK, CacheInv, BuildInv, Cached
    <2>2. ASSUME NEW c \in Procs, c # b PROVE BuildInv(c)'
      <3>1. Cached(cur[b]) => Cached(cur[b])'
        BY <1>8, <2>v DEF WriteInfo, Cached
      <3>2. pc'[c] = pc[c]
        BY <1>8, <2>2 DEF WriteInfo, Goto, TypeOK
      <3> QED BY <1>8, <2>0, <2>v, <2>2, <3>1, <3>2, Frame DEF WriteInfo
    <2>3. AcceptsOnlyCurrent'
      BY <1>8, <2>p, <2>v DEF WriteInfo, CacheInv, AcceptsOnlyCurrent
    <2>4. \A p \in Pkgs : info'[p] <= source'[p]
      BY <1>8, <2>v, <1>v DEF WriteInfo, CacheInv
    <2> QED BY <2>1, <2>2, <2>3, <2>4 DEF CacheInv
  <1>9. ASSUME NEW b \in Procs, SaveEntry(b) PROVE CacheInv'
    <2>0. pc[b] = "entry" /\ pc[b] \in Holding /\ cur[b] \in Pkgs
      BY <1>9 DEF SaveEntry, Goto, TypeOK, Holding
    <2>p. object[cur[b]] = source[cur[b]] /\ info[cur[b]] = source[cur[b]]
      BY <2>0 DEF CacheInv, BuildInv
    <2>v. entry'[cur[b]] /\ \A q \in Pkgs : q # cur[b] => entry'[q] = entry[q]
      BY <1>9, <2>0 DEF SaveEntry, TypeOK
    <2>c. Cached(cur[b])'
      BY <1>9, <2>p, <2>v DEF SaveEntry, Cached
    <2>1. BuildInv(b)'
      BY <1>9, <2>0, <2>c, <2>v DEF SaveEntry, Goto, TypeOK, CacheInv, BuildInv, Cached
    <2>2. ASSUME NEW c \in Procs, c # b PROVE BuildInv(c)'
      <3>2. pc'[c] = pc[c]
        BY <1>9, <2>2 DEF SaveEntry, Goto, TypeOK
      <3> QED BY <1>9, <2>0, <2>v, <2>c, <2>2, <3>2, Frame DEF SaveEntry
    <2>3. AcceptsOnlyCurrent'
      BY <1>9, <2>p, <2>v DEF SaveEntry, CacheInv, AcceptsOnlyCurrent
    <2> QED BY <1>9, <2>1, <2>2, <2>3 DEF SaveEntry, CacheInv
  <1>10. ASSUME NEW b \in Procs, UnlockObject(b) PROVE CacheInv'
    <2>1. BuildInv(b)'
      BY <1>10 DEF UnlockObject, Goto, TypeOK, CacheInv, BuildInv, Cached
    <2>2. ASSUME NEW c \in Procs, c # b PROVE BuildInv(c)'
      BY <1>10, <2>2 DEF UnlockObject, Goto, TypeOK, CacheInv, BuildInv, Cached
    <2> QED BY <1>10, <2>1, <2>2 DEF UnlockObject, CacheInv, AcceptsOnlyCurrent
  <1>11. ASSUME NEW b \in Procs, Link(b) PROVE CacheInv'
    <2>0. pc[b] = "next" /\ left[b] = {} /\ cur[b] = NoPkg
      BY <1>11 DEF Link, Goto, CacheInv, BuildInv
    <2>a. \A q \in Pkgs : q # NoPkg
      BY NullAssumption DEF NullAssumption, NoPkg
    <2>c. \A q \in Pkgs : object[q] = source[q]
      BY <2>0, <2>a DEF CacheInv, BuildInv, Cached
    <2>e. object = source
      BY <2>c DEF TypeOK
    <2>1. BuildInv(b)'
      BY <1>11, <2>0, <2>e DEF Link, Goto, TypeOK, CacheInv, BuildInv, Cached
    <2>2. ASSUME NEW c \in Procs, c # b PROVE BuildInv(c)'
      BY <1>11, <2>2 DEF Link, Goto, TypeOK, CacheInv, BuildInv, Cached
    <2> QED BY <1>11, <2>1, <2>2 DEF Link, CacheInv, AcceptsOnlyCurrent
  <1>12. ASSUME NEW b \in Procs, Run(b) \/ Abort(b) PROVE CacheInv'
    <2>1. BuildInv(b)'
      BY <1>12 DEF Run, Abort, ForgetLocals, Goto, TypeOK, BuildInv
    <2>2. ASSUME NEW c \in Procs, c # b PROVE BuildInv(c)'
      <3>1. pc'[c] = pc[c] /\ cur'[c] = cur[c] /\ left'[c] = left[c] /\ parsed'[c] = parsed[c]
            /\ md5'[c] = md5[c] /\ linked'[c] = linked[c] /\ seen'[c] = seen[c]
        BY <1>12, <2>2 DEF Run, Abort, ForgetLocals, Goto, TypeOK
      <3>2. UNCHANGED files /\ BuildInv(c)
        BY <1>12 DEF Run, Abort, CacheInv
      <3> QED BY <3>1, <3>2 DEF BuildInv, Cached
    <2> QED BY <1>12, <2>1, <2>2 DEF Run, Abort, CacheInv, AcceptsOnlyCurrent
  <1>13. ASSUME NEW p \in Pkgs, NEW v \in Versions, Edit(p, v) PROVE CacheInv'
    <2>0. v > source[p] /\ v \in Nat /\ \A b \in Procs : pc[b] = "idle"
      BY <1>13, VersionAssumption DEF VersionAssumption, Edit, Disciplined
    <2>1. ASSUME NEW b \in Procs PROVE BuildInv(b)'
      BY <1>13, <2>0 DEF Edit, CacheInv, BuildInv
    <2>2. \A q \in Pkgs : source'[q] = IF q = p THEN v ELSE source[q]
      BY <1>13 DEF Edit, TypeOK
    <2>3. \A q \in Pkgs : info'[q] <= source'[q]
      BY <1>13, <2>0, <2>2, <1>v DEF Edit, CacheInv
    <2>4. AcceptsOnlyCurrent'
      BY <1>13, <2>0, <2>2, <1>v DEF Edit, CacheInv, AcceptsOnlyCurrent
    <2> QED BY <2>1, <2>3, <2>4 DEF CacheInv
  <1>14. CASE UNCHANGED vars
    BY <1>14 DEF vars, CacheInv, AcceptsOnlyCurrent, BuildInv, Cached
  <1> QED
    BY <1>1, <1>2, <1>3, <1>4, <1>5, <1>6, <1>7, <1>8, <1>9, <1>10, <1>11, <1>12,
       <1>13, <1>14 DEF Next, Build

\* Under the discipline the object files that load_pkg_cache accepts were
\* compiled from the source on disk, and every build links, for every package,
\* a complete object of a text the package had during that build, however
\* many builds run concurrently and wherever they are killed.
THEOREM CacheSound ==
  ASSUME Disciplined
  PROVE  Spec => [](AcceptsOnlyCurrent /\ LinksWholeObjects /\ LinksCurrentSource)
  <1>1. TypeOK /\ InfoInv /\ CacheInv /\ [Next]_vars => CacheInv'
    BY CacheStep
  <1>2. TypeOK /\ CacheInv => AcceptsOnlyCurrent /\ LinksWholeObjects /\ LinksCurrentSource
    <2> SUFFICES ASSUME TypeOK, CacheInv
                 PROVE AcceptsOnlyCurrent /\ LinksWholeObjects /\ LinksCurrentSource
      OBVIOUS
    <2>1. ASSUME NEW b \in Procs, pc[b] = "linked", NEW p \in Pkgs
          PROVE  /\ linked[b][p] = source[p] /\ source[p] \in Versions
                 /\ linked[b][p] \in seen[b][p]
      <3>1. linked[b] = source /\ seen[b] = [q \in Pkgs |-> {source[q]}]
        BY <2>1 DEF CacheInv, BuildInv
      <3> QED BY <3>1 DEF TypeOK
    <2>2. \A v \in Versions : v \notin {Absent, Torn}
      BY VersionAssumption DEF VersionAssumption, Absent, Torn
    <2> QED BY <2>1, <2>2 DEF CacheInv, LinksWholeObjects, LinksCurrentSource
  <1> QED
    BY TypeInit, TypeStep, InfoInit, InfoStep, CacheInit, <1>1, <1>2, PTL DEF Spec

\* Under the same discipline no build links a half-written object, whoever else
\* is building and whoever was killed: the lock and the info map are enough.
THEOREM LinksWhole ==
  ASSUME Disciplined
  PROVE  Spec => []LinksWholeObjects
  BY CacheSound, PTL

----------------------------------------------------------------------------
(* The locks. *)

\* No lock is held at first.
LEMMA LockInit == Init => LockInv
  <1>1. NoProc \notin Procs
    BY NullAssumption DEF NullAssumption, NoProc
  <1>2. Init => infoLock = NoProc /\ \A p \in Pkgs : objLock[p] = NoProc
    BY DEF Init
  <1> QED BY <1>1, <1>2 DEF LockInv

\* A step of b that moves b from one label to another between lock and unlock.
LEMMA LockKept ==
  ASSUME TypeOK, LockInv, NEW b \in Procs, UNCHANGED <<objLock, infoLock, cur>>,
         \A c \in Procs : c # b => pc'[c] = pc[c],
         pc'[b] \in Holding \/ pc[b] \notin Holding, pc[b] # "writeinfo"
  PROVE  LockInv'
  BY DEF LockInv, TypeOK

\* Every step of a build, every kill and every edit keeps locks with their builds.
LEMMA LockStep == TypeOK /\ LockInv /\ [Next]_vars => LockInv'
  <1> SUFFICES ASSUME TypeOK, LockInv, [Next]_vars PROVE LockInv'
    OBVIOUS
  <1> USE DEF files, locks, locals, counters
  <1>n. NoProc \notin Procs
    BY NullAssumption DEF NullAssumption, NoProc
  <1>1. ASSUME NEW b \in Procs, NEW p \in Pkgs, LockObject(b, p) PROVE LockInv'
    <2>1. /\ pc[b] = "next" /\ pc' = [pc EXCEPT ![b] = "load"] /\ objLock[p] = NoProc
          /\ objLock' = [objLock EXCEPT ![p] = b] /\ cur' = [cur EXCEPT ![b] = p] /\ UNCHANGED infoLock
      BY <1>1 DEF LockObject, Goto
    <2>2. ASSUME NEW q \in Pkgs, NEW c \in Procs, objLock'[q] = c PROVE pc'[c] \in Holding /\ cur'[c] = q
      <3>1. CASE q = p
        BY <2>1, <2>2, <3>1 DEF TypeOK, Holding
      <3>2. CASE q # p
        <4>1. objLock[q] = c
          BY <2>1, <2>2, <3>2 DEF TypeOK
        <4>2. pc[c] \in Holding /\ cur[c] = q
          BY <4>1 DEF LockInv
        <4>3. c # b
          BY <2>1, <4>2 DEF Holding
        <4> QED BY <2>1, <4>2, <4>3 DEF TypeOK
      <3> QED BY <3>1, <3>2
    <2>3. \A c \in Procs : infoLock' = c => pc'[c] = "writeinfo"
      BY <2>1 DEF LockInv, TypeOK
    <2> QED BY <2>2, <2>3 DEF LockInv
  <1>2. ASSUME NEW b \in Procs, LockInfo(b) PROVE LockInv'
    <2>1. /\ pc[b] = "lockinfo" /\ pc' = [pc EXCEPT ![b] = "writeinfo"]
          /\ infoLock' = b /\ UNCHANGED <<objLock, cur>>
      BY <1>2 DEF LockInfo, Goto
    <2> QED BY <2>1 DEF LockInv, TypeOK, Holding
  <1>3. ASSUME NEW b \in Procs, WriteInfo(b) PROVE LockInv'
    <2>1. /\ pc[b] = "writeinfo" /\ pc' = [pc EXCEPT ![b] = "entry"]
          /\ infoLock' = NoProc /\ UNCHANGED <<objLock, cur>>
      BY <1>3 DEF WriteInfo, Goto
    <2> QED BY <2>1, <1>n DEF LockInv, TypeOK, Holding
  <1>4. ASSUME NEW b \in Procs, UnlockObject(b) PROVE LockInv'
    <2>1. /\ pc[b] = "unlock" /\ pc' = [pc EXCEPT ![b] = "next"] /\ UNCHANGED infoLock
          /\ objLock' = [objLock EXCEPT ![cur[b]] = NoProc] /\ cur' = [cur EXCEPT ![b] = NoPkg]
      BY <1>4 DEF UnlockObject, Goto
    <2>2. ASSUME NEW q \in Pkgs, NEW c \in Procs, objLock'[q] = c PROVE pc'[c] \in Holding /\ cur'[c] = q
      <3>1. cur[b] \in Pkgs
        BY <2>1 DEF TypeOK, Holding
      <3>2. q # cur[b] /\ objLock[q] = c
        BY <2>1, <2>2, <3>1, <1>n DEF TypeOK
      <3>3. pc[c] \in Holding /\ cur[c] = q
        BY <3>2 DEF LockInv
      <3> QED BY <2>1, <3>2, <3>3 DEF TypeOK
    <2>3. \A c \in Procs : infoLock' = c => pc'[c] = "writeinfo"
      BY <2>1 DEF LockInv, TypeOK
    <2> QED BY <2>2, <2>3 DEF LockInv
  <1>5. ASSUME NEW b \in Procs, Abort(b) PROVE LockInv'
    <2>1. /\ pc' = [pc EXCEPT ![b] = "idle"] /\ cur' = [cur EXCEPT ![b] = NoPkg]
          /\ objLock' = [p \in Pkgs |-> IF objLock[p] = b THEN NoProc ELSE objLock[p]]
          /\ infoLock' = IF infoLock = b THEN NoProc ELSE infoLock
      BY <1>5 DEF Abort, ForgetLocals
    <2>2. ASSUME NEW q \in Pkgs, NEW c \in Procs, objLock'[q] = c PROVE pc'[c] \in Holding /\ cur'[c] = q
      <3>1. c # b /\ objLock[q] = c
        BY <2>1, <2>2, <1>n
      <3>2. pc[c] \in Holding /\ cur[c] = q
        BY <3>1 DEF LockInv
      <3> QED BY <2>1, <3>1, <3>2 DEF TypeOK
    <2>3. \A c \in Procs : infoLock' = c => pc'[c] = "writeinfo"
      BY <2>1, <1>n DEF LockInv, TypeOK
    <2> QED BY <2>2, <2>3 DEF LockInv
  <1>6. ASSUME NEW b \in Procs, Run(b) PROVE LockInv'
    <2>1. /\ pc[b] = "linked" /\ pc' = [pc EXCEPT ![b] = "idle"]
          /\ cur' = [cur EXCEPT ![b] = NoPkg] /\ UNCHANGED <<objLock, infoLock>>
      BY <1>6 DEF Run, Goto, ForgetLocals
    <2> QED BY <2>1 DEF LockInv, TypeOK, Holding
  <1>7. ASSUME NEW b \in Procs,
               \/ Parse(b) \/ LoadPkgCache(b) \/ CleanObject(b) \/ BeginEmit(b) \/ EndEmit(b)
               \/ HashSource(b) \/ SaveEntry(b) \/ Link(b)
        PROVE  LockInv'
    <2>1. UNCHANGED <<objLock, infoLock, cur>>
      BY <1>7 DEF Parse, LoadPkgCache, CleanObject, BeginEmit, EndEmit, HashSource, SaveEntry, Link
    <2>2. \E l \in Labels : pc' = [pc EXCEPT ![b] = l]
      BY <1>7 DEF Parse, LoadPkgCache, CleanObject, BeginEmit, EndEmit, HashSource, SaveEntry, Link, Goto, Labels
    <2>3. \A c \in Procs : c # b => pc'[c] = pc[c]
      BY <2>2 DEF TypeOK
    <2>4. pc'[b] \in Holding \/ pc[b] \notin Holding
      BY <1>7 DEF Parse, LoadPkgCache, CleanObject, BeginEmit, EndEmit, HashSource, SaveEntry, Link, Goto, TypeOK, Holding
    <2>5. pc[b] # "writeinfo"
      BY <1>7 DEF Parse, LoadPkgCache, CleanObject, BeginEmit, EndEmit, HashSource, SaveEntry, Link, Goto
    <2> QED BY <2>1, <2>3, <2>4, <2>5, LockKept
  <1>8. ASSUME NEW p \in Pkgs, NEW v \in Versions, Edit(p, v) PROVE LockInv'
    BY <1>8 DEF Edit, LockInv
  <1>9. CASE UNCHANGED vars
    BY <1>9 DEF vars, LockInv
  <1> QED BY <1>1, <1>2, <1>3, <1>4, <1>5, <1>6, <1>7, <1>8, <1>9 DEF Next, Build

\* A build that holds an object's lock has nothing more to wait for than the info
\* lock, and the build that holds that one waits for nothing.
LEMMA LockInvWaits == TypeOK /\ LockInv => WaitsForFurther
  <1> SUFFICES ASSUME TypeOK, LockInv, NEW b \in Procs, NEW c \in BlockedBy(b) PROVE Stage(c) > Stage(b)
    BY DEF WaitsForFurther
  <1>1. CASE pc[b] = "next" /\ \E p \in left[b] : objLock[p] = c
    <2>1. PICK p \in Pkgs : objLock[p] = c
      BY <1>1 DEF TypeOK
    <2>2. c \in Procs /\ pc[c] \in Holding
      BY <2>1 DEF LockInv, BlockedBy
    <2>3. Stage(b) = 0 /\ Stage(c) \in {1, 2}
      BY <1>1, <2>2 DEF Stage, Holding
    <2> QED BY <2>3
  <1>2. CASE pc[b] = "lockinfo" /\ infoLock = c
    <2>1. pc[c] = "writeinfo"
      BY <1>2 DEF LockInv, BlockedBy
    <2>2. Stage(b) = 1 /\ Stage(c) = 2
      BY <1>2, <2>1 DEF Stage
    <2> QED BY <2>2
  <1> QED BY <1>1, <1>2 DEF BlockedBy

\* Builds never wait for each other in a circle, for any number of processes and
\* packages, whatever is edited and killed when.
THEOREM NoCircularWait == Spec => []WaitsForFurther
  BY TypeInit, TypeStep, LockInit, LockStep, LockInvWaits, PTL DEF Spec
=============================================================================
