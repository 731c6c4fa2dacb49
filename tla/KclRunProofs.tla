---------------------------- MODULE KclRunProofs ----------------------------
(***************************************************************************)
(* Theorems about KclRun, for every set of callers, number of calls and    *)
(* size of the buffers.                                                    *)
(***************************************************************************)
EXTENDS KclRun, FiniteSetTheorems, TLAPS

Outer == {"other", "load", "build", "new", "sethook", "collect", "classify", "plan", "reply"}
Inner == {"configure", "main", "restore"}
Pcs == {"idle", "aborted"} \cup Outer \cup Inner

CallSet == [id : Nat, entry : Entries, none : BOOLEAN, n : Int, got : Nat, len : Nat,
            ran : {"no", "value", "panic"}, kind : {"ok", "error", "unwound", "aborted"}]
InfoSet == [panic : Nat, none : BOOLEAN]

TypeOK ==
    /\ pc \in [Callers -> Pcs]
    /\ hook \in Hooks
    /\ saved \in [Callers -> Seq(Hooks)]
    /\ current \in Nat
    /\ live \in SUBSET Nat
    /\ ctx \in [Callers -> Nat]
    /\ info \in Seq(InfoSet)
    /\ nextCtx \in Nat
    /\ call \in [Callers -> CallSet]
    /\ calls \in Nat

\* Calls do not overlap.
Alone == \A c, d \in Callers : pc[c] # "idle" /\ pc[d] # "idle" => c = d

\* The saved hooks, outermost first: the process's own, then the silent one.
Saves(q, n) == Len(q) = n /\ (n >= 1 => q[1] = "default") /\ (n >= 2 => q[2] = "silent")

\* The entry point and the call of _kcl_run nest: each hook saved is the one
\* that was in force outside.
HookInv ==
    /\ (\A c \in Callers : pc[c] = "idle") => hook = "default"
    /\ \A c \in Callers :
         /\ pc[c] = "idle" => Saves(saved[c], 0)
         /\ pc[c] \in Outer => IF call[c].entry = "capi"
                               THEN hook = "default" /\ Saves(saved[c], 0)
                               ELSE hook = "silent" /\ Saves(saved[c], 1)
         /\ pc[c] \in Inner => /\ hook = "context"
                               /\ Saves(saved[c], IF call[c].entry = "capi" THEN 1 ELSE 2)

\* Addresses below nextCtx have been allocated; between allocation and delete
\* the current context is the caller's own.  A call that has allocated none yet,
\* or has deleted its own, owes the process one context less than one per call.
ContextInv ==
    /\ nextCtx = Len(info) + 1
    /\ live \subseteq 1..Len(info)
    /\ current \in live \cup {0}
    /\ Cardinality(live) <= calls
    /\ \A c \in Callers :
         /\ pc[c] \in {"sethook", "configure", "main", "restore", "collect"} =>
              current = ctx[c] /\ current # 0
         /\ pc[c] \in {"other", "load", "build", "new", "classify", "plan"} =>
              Cardinality(live) + 1 <= calls
         /\ pc[c] = "main" => info[current].none = call[c].none

Sized(len) == IF len <= BufLen THEN len ELSE -len

\* What is known of a call's answer, by where the call is.
ReplyInv ==
    \A c \in Callers :
        LET r == call[c] IN
        /\ pc[c] # "idle" => r.id > 0
        /\ pc[c] \notin {"idle", "aborted"} => r.kind \in {"ok", "error"}
        /\ pc[c] \in {"other", "load", "build", "new", "sethook", "configure", "main"} =>
             r.ran = "no" /\ r.got = 0 /\ r.n = 0
        /\ pc[c] \in {"restore", "collect"} =>
             \/ r.ran = "value" /\ r.n = Sized(r.len) /\ r.got = 0
             \/ r.ran = "panic" /\ r.len > 0 /\ info[current].panic = r.id
        /\ pc[c] = "classify" =>
             /\ r.n = Sized(r.len)
             /\ \/ r.ran = "value" /\ r.got = 0
                \/ r.ran = "panic" /\ r.len > 0 /\ r.got = r.id
        /\ pc[c] = "plan" => r.ran = "value" /\ r.len <= BufLen /\ r.n = Sized(r.len)
        /\ pc[c] = "reply" => r.n = IF r.ran = "no" THEN 0 ELSE Sized(r.len)
        /\ pc[c] \in {"reply", "idle", "aborted"} =>
             /\ r.ran = "value" /\ r.len > BufLen => r.kind # "ok"
             /\ r.ran = "panic" => r.kind # "ok"
             /\ r.ran = "panic" /\ r.len <= BufLen => r.kind = "error" /\ r.got = r.id
        /\ pc[c] \in {"idle", "aborted"} =>
             (r.kind \in {"unwound", "aborted"} <=>
                r.entry = "capi" /\ r.ran # "no" /\ r.len = ResultSize)

IInv == TypeOK /\ Alone /\ HookInv /\ ContextInv /\ ReplyInv

-----------------------------------------------------------------------------
(* Only the caller that steps moves, and every other one is idle.           *)

\* The entry points are entered one call at a time.
LEMMA Others ==
  ASSUME TypeOK, Alone, NEW c \in Callers, Step(c)
  PROVE  /\ \A d \in Callers \ {c} :
              /\ pc[d] = "idle" /\ pc'[d] = "idle"
              /\ saved'[d] = saved[d] /\ ctx'[d] = ctx[d] /\ call'[d] = call[d]
         /\ Alone'
  <1>1. \A d \in Callers \ {c} : pc[d] = "idle"
    BY DEF Alone, Step, Begin, MayEnter, OtherMethod, LoadProgram, Execute, NewContext, SetHook,
           Configure, MainReturns, MainPanics, RestoreHook, Collect, Classify, Plan, Reply, Unanswered
  <1>2. \A d \in Callers \ {c} : pc'[d] = pc[d]
    BY DEF TypeOK, Step, Begin, OtherMethod, LoadProgram, Execute, NewContext, SetHook, Stage, Fails,
           Configure, MainReturns, MainPanics, RestoreHook, Collect, Classify, Plan, Reply, Unanswered
  <1>3. \A d \in Callers \ {c} : saved'[d] = saved[d]
    BY DEF TypeOK, Step, Begin, OtherMethod, LoadProgram, Execute, NewContext, SetHook, Stage,
           EnterCli, EnterJsonRpc, EnterCapi, EnterQuietly, LeaveQuietly,
           Configure, MainReturns, MainPanics, RestoreHook, Collect, Classify, Plan, Reply, Unanswered
  <1>4. \A d \in Callers \ {c} : ctx'[d] = ctx[d]
    BY DEF TypeOK, Step, Begin, OtherMethod, LoadProgram, Execute, NewContext, SetHook, Stage,
           Configure, MainReturns, MainPanics, RestoreHook, Collect, Classify, Plan, Reply, Unanswered
  <1>5. \A d \in Callers \ {c} : call'[d] = call[d]
    BY DEF TypeOK, Step, Begin, OtherMethod, LoadProgram, Execute, NewContext, SetHook, Stage, Fails,
           Configure, MainReturns, MainPanics, RestoreHook, Collect, Classify, Plan, Reply, Unanswered
  <1> QED
    BY <1>1, <1>2, <1>3, <1>4, <1>5 DEF Alone

\* Outside _kcl_run a panic is reported to no context.
LEMMA Quietly ==
  ASSUME TypeOK, HookInv, NEW c \in Callers, pc[c] \in Outer, RunHook(c)
  PROVE  ContextFrame
  <1>1. hook # "context"
    BY DEF HookInv
  <1> QED
    BY <1>1 DEF RunHook

\* Inside it the hook writes the call's panic to the current context.
LEMMA Reported ==
  ASSUME TypeOK, HookInv, ContextInv, NEW c \in Callers, pc[c] = "main", RunHook(c)
  PROVE  /\ UNCHANGED <<current, live, nextCtx>>
         /\ info' = [info EXCEPT ![current] = [info[current] EXCEPT !.panic = call[c].id]]
  <1>1. hook = "context" /\ current # 0
    BY DEF HookInv, ContextInv, Inner
  <1> QED
    BY <1>1 DEF RunHook, UpdateCurrent

\* The settings of the call go to the current context.
LEMMA Configured ==
  ASSUME TypeOK, ContextInv, NEW c \in Callers, Configure(c)
  PROVE  /\ UNCHANGED <<current, live, nextCtx>>
         /\ info' = [info EXCEPT ![current] = [info[current] EXCEPT !.none = call[c].none]]
  <1>1. current # 0
    BY DEF Configure, ContextInv
  <1> QED
    BY <1>1 DEF Configure, UpdateCurrent

\* Planning allocates a context when there is none, and else changes nothing.
LEMMA Planned ==
  ASSUME TypeOK, ContextInv, UpdateCurrent(LAMBDA i : i)
  PROVE  \/ /\ current = 0
            /\ current' = nextCtx /\ live' = live \cup {nextCtx}
            /\ info' = Append(info, NoInfo) /\ nextCtx' = nextCtx + 1
         \/ current # 0 /\ ContextFrame
  <1>1. CASE current = 0
    BY <1>1 DEF UpdateCurrent
  <1>2. CASE current # 0
    <2>1. info' = [info EXCEPT ![current] = info[current]] /\ UNCHANGED <<current, live, nextCtx>>
      BY <1>2 DEF UpdateCurrent
    <2>2. info' = info
      BY <2>1 DEF TypeOK
    <2> QED
      BY <1>2, <2>1, <2>2 DEF ContextFrame
  <1> QED
    BY <1>1, <1>2

-----------------------------------------------------------------------------
(* Types. *)

\* Saving and restoring hooks.
LEMMA SaveHook ==
  ASSUME NEW q \in Seq(Hooks), NEW h \in Hooks, NEW n \in {0, 1}, Saves(q, n),
         h = IF n = 0 THEN "default" ELSE "silent"
  PROVE  Append(q, h) \in Seq(Hooks) /\ Saves(Append(q, h), n + 1)
  BY DEF Saves

\* The hook restored is the one that was in force when it was saved.
LEMMA RestoreSaved ==
  ASSUME NEW q \in Seq(Hooks), NEW n \in {1, 2}, Saves(q, n)
  PROVE  /\ Last(q) = IF n = 1 THEN "default" ELSE "silent"
         /\ Last(q) \in Hooks
         /\ Front(q) \in Seq(Hooks) /\ Saves(Front(q), n - 1)
  BY DEF Saves, Last, Front, Hooks

\* The process starts with its own hook, no context and no call.
LEMMA TypeInit == Init => TypeOK
  BY DEF Init, TypeOK, Pcs, Hooks, CallSet, InfoSet, NewCall, Entries

\* An error answer is an answer.
LEMMA FailsType ==
  ASSUME TypeOK, NEW c \in Callers, Fails(c)
  PROVE  pc' \in [Callers -> Pcs] /\ call' \in [Callers -> CallSet]
  <1>1. [call[c] EXCEPT !.kind = "error"] \in CallSet
    BY DEF TypeOK, CallSet
  <1>2. call' = [call EXCEPT ![c] = [call[c] EXCEPT !.kind = "error"]]
    BY DEF Fails
  <1> QED
    BY <1>1, <1>2 DEF Fails, TypeOK, Pcs, Outer

\* A stage of the front end keeps the types.
LEMMA StageType ==
  ASSUME TypeOK, HookInv, NEW c \in Callers, NEW next \in Pcs, pc[c] \in Outer, Stage(c, next)
  PROVE  TypeOK' /\ ContextFrame /\ UNCHANGED <<hook, saved, ctx, calls>>
  <1>1. ContextFrame /\ UNCHANGED <<hook, saved, ctx, calls>>
    BY Quietly DEF Stage
  <1>2. pc' \in [Callers -> Pcs] /\ call' \in [Callers -> CallSet]
    BY FailsType DEF Stage, TypeOK
  <1> QED
    BY <1>1, <1>2 DEF TypeOK, ContextFrame

\* Every step of a call keeps the types.
LEMMA TypeStep ==
  ASSUME TypeOK, HookInv, ContextInv, NEW c \in Callers, Step(c)
  PROVE  TypeOK'
  <1> USE KclRunAssumption DEF KclRunAssumption
  <1>a. pc \in [Callers -> Pcs] /\ ctx \in [Callers -> Nat] /\ calls \in Nat
    BY DEF TypeOK
  <1>b. hook \in Hooks /\ saved \in [Callers -> Seq(Hooks)]
    BY DEF TypeOK
  <1>c. current \in Nat /\ live \in SUBSET Nat /\ info \in Seq(InfoSet) /\ nextCtx \in Nat
    BY DEF TypeOK
  <1>d. call \in [Callers -> CallSet] /\ call[c] \in CallSet
    BY DEF TypeOK
  <1>e. ASSUME NEW r \in CallSet, call' = [call EXCEPT ![c] = r] PROVE call' \in [Callers -> CallSet]
    BY <1>d, <1>e
  <1>f. ASSUME NEW p \in Pcs, pc' = [pc EXCEPT ![c] = p] PROVE pc' \in [Callers -> Pcs]
    BY <1>a, <1>f
  <1>g. Outer \subseteq Pcs /\ Inner \subseteq Pcs /\ "idle" \in Pcs
    BY DEF Pcs
  <1>h. ASSUME NEW i \in InfoSet, current \in 1..Len(info), info' = [info EXCEPT ![current] = i]
        PROVE  info' \in Seq(InfoSet)
    BY <1>c, <1>h
  <1>1. CASE Begin(c)
    <2>1. PICK e \in Entries, m \in Methods, none \in BOOLEAN :
            /\ call' = [call EXCEPT ![c] = NewCall(calls + 1, e, none)]
            /\ pc' = [pc EXCEPT ![c] = IF m = "ExecProgram" THEN "load" ELSE "other"]
      BY <1>1 DEF Begin
    <2>2. NewCall(calls + 1, e, none) \in CallSet
      BY <1>a DEF NewCall, CallSet
    <2>3. (IF m = "ExecProgram" THEN "load" ELSE "other") \in Pcs
      BY DEF Pcs, Outer
    <2>4. Append(saved[c], hook) \in Seq(Hooks) /\ "silent" \in Hooks
      BY <1>b DEF Hooks
    <2>5. saved' \in [Callers -> Seq(Hooks)] /\ hook' \in Hooks
      BY <1>1, <1>b, <2>4 DEF Begin, EnterCli, EnterJsonRpc, EnterCapi, EnterQuietly
    <2>6. UNCHANGED <<ctx, current, live, info, nextCtx>> /\ calls' = calls + 1
      BY <1>1 DEF Begin, ContextFrame
    <2>7. call' \in [Callers -> CallSet] /\ pc' \in [Callers -> Pcs]
      BY <1>e, <1>f, <2>1, <2>2, <2>3
    <2> QED
      BY <1>a, <1>c, <2>5, <2>6, <2>7 DEF TypeOK
  <1>2. CASE OtherMethod(c)
    BY <1>2, <1>g, StageType DEF OtherMethod, Outer
  <1>3. CASE LoadProgram(c)
    BY <1>3, <1>g, StageType DEF LoadProgram, Outer
  <1>4. CASE Execute(c)
    BY <1>4, <1>g, StageType DEF Execute, Outer
  <1>5. CASE NewContext(c)
    <2>1. NoInfo \in InfoSet
      BY DEF NoInfo, InfoSet
    <2>2. pc' \in [Callers -> Pcs]
      BY <1>5, <1>f, <1>g DEF NewContext, Outer
    <2> QED
      BY <1>5, <1>a, <1>b, <1>c, <1>d, <2>1, <2>2 DEF NewContext, ContextNew, TypeOK
  <1>6. CASE SetHook(c)
    <2>1. pc' \in [Callers -> Pcs]
      BY <1>6, <1>f, <1>g DEF SetHook, Inner
    <2>2. saved' \in [Callers -> Seq(Hooks)] /\ hook' \in Hooks
      BY <1>6, <1>b DEF SetHook, Hooks
    <2> QED
      BY <1>6, <1>a, <1>c, <1>d, <2>1, <2>2 DEF SetHook, TypeOK, ContextFrame
  <1>7. CASE Configure(c)
    <2>1. current \in 1..Len(info) /\ info[current] \in InfoSet /\ call[c].none \in BOOLEAN
      BY <1>7, <1>c, <1>d DEF Configure, ContextInv, CallSet
    <2>2. [info[current] EXCEPT !.none = call[c].none] \in InfoSet
      BY <2>1 DEF InfoSet
    <2>3. info' \in Seq(InfoSet) /\ UNCHANGED <<current, live, nextCtx>>
      BY <1>7, <1>h, <2>1, <2>2, Configured
    <2>4. pc' \in [Callers -> Pcs]
      BY <1>7, <1>f, <1>g DEF Configure, Inner
    <2> QED
      BY <1>7, <1>a, <1>b, <1>c, <1>d, <2>3, <2>4 DEF Configure, TypeOK
  <1>8. CASE MainReturns(c)
    <2>1. PICK len \in 0..MaxLen :
            call' = [call EXCEPT ![c] = [call[c] EXCEPT !.ran = "value", !.len = len,
                                             !.n = IF len <= BufLen THEN len ELSE -len]]
      BY <1>8, <1>d DEF MainReturns
    <2>2. (IF len <= BufLen THEN len ELSE -len) \in Int /\ len \in Nat
      OBVIOUS
    <2>3. [call[c] EXCEPT !.ran = "value", !.len = len,
                          !.n = IF len <= BufLen THEN len ELSE -len] \in CallSet
      BY <1>d, <2>2 DEF CallSet
    <2>4. call' \in [Callers -> CallSet]
      BY <1>e, <2>1, <2>3
    <2>5. pc' \in [Callers -> Pcs]
      BY <1>8, <1>f, <1>g DEF MainReturns, Inner
    <2> QED
      BY <1>8, <1>a, <1>b, <1>c, <2>4, <2>5 DEF MainReturns, TypeOK, ContextFrame
  <1>9. CASE MainPanics(c)
    <2>1. PICK len \in 1..MaxLen :
            call' = [call EXCEPT ![c] = [call[c] EXCEPT !.ran = "panic", !.len = len]]
      BY <1>9, <1>d DEF MainPanics
    <2>a. len \in Nat
      OBVIOUS
    <2>2. [call[c] EXCEPT !.ran = "panic", !.len = len] \in CallSet
      BY <1>d, <2>a DEF CallSet
    <2>3. call' \in [Callers -> CallSet]
      BY <1>e, <2>1, <2>2
    <2>4. current \in 1..Len(info) /\ info[current] \in InfoSet /\ call[c].id \in Nat
      BY <1>9, <1>c, <1>d DEF MainPanics, ContextInv, CallSet
    <2>5. [info[current] EXCEPT !.panic = call[c].id] \in InfoSet
      BY <2>4 DEF InfoSet
    <2>6. UNCHANGED <<current, live, nextCtx>>
          /\ info' = [info EXCEPT ![current] = [info[current] EXCEPT !.panic = call[c].id]]
      BY <1>9, Reported DEF MainPanics
    <2>7. info' \in Seq(InfoSet)
      BY <1>h, <2>4, <2>5, <2>6
    <2>8. pc' \in [Callers -> Pcs]
      BY <1>9, <1>f, <1>g DEF MainPanics, Inner
    <2> QED
      BY <1>9, <1>a, <1>b, <1>c, <2>3, <2>6, <2>7, <2>8 DEF MainPanics, TypeOK
  <1>10. CASE RestoreHook(c)
    <2>1. saved[c] \in Seq(Hooks) /\ (Saves(saved[c], 1) \/ Saves(saved[c], 2))
      BY <1>10, <1>b DEF RestoreHook, HookInv, Inner
    <2>2. Last(saved[c]) \in Hooks /\ Front(saved[c]) \in Seq(Hooks)
      BY <2>1, RestoreSaved
    <2>3. saved' \in [Callers -> Seq(Hooks)] /\ hook' \in Hooks
      BY <1>10, <1>b, <2>2 DEF RestoreHook
    <2>4. pc' \in [Callers -> Pcs]
      BY <1>10, <1>f, <1>g DEF RestoreHook, Outer
    <2> QED
      BY <1>10, <1>a, <1>c, <1>d, <2>3, <2>4 DEF RestoreHook, TypeOK, ContextFrame
  <1>11. CASE Collect(c)
    <2>1. current \in 1..Len(info) /\ info[current] \in InfoSet /\ current # 0
      BY <1>11, <1>c DEF Collect, ContextInv
    <2>2. info[current].panic \in Nat
      BY <2>1 DEF InfoSet
    <2>3. ASSUME call[c].ran = "value" PROVE call' \in [Callers -> CallSet]
      BY <1>11, <1>d, <2>3 DEF Collect
    <2>4. ASSUME call[c].ran # "value" PROVE call' \in [Callers -> CallSet]
      <3>1. call' = [call EXCEPT ![c] = [call[c] EXCEPT
                      !.n = IF call[c].len <= BufLen THEN call[c].len ELSE -call[c].len,
                      !.got = info[current].panic]]
        BY <1>11, <1>d, <2>1, <2>4 DEF Collect
      <3>2. call[c].len \in Nat
        BY <1>d DEF CallSet
      <3>3. (IF call[c].len <= BufLen THEN call[c].len ELSE -call[c].len) \in Int
        BY <3>2
      <3>4. [call[c] EXCEPT !.n = IF call[c].len <= BufLen THEN call[c].len ELSE -call[c].len,
                            !.got = info[current].panic] \in CallSet
        BY <1>d, <2>2, <3>3 DEF CallSet
      <3> QED
        BY <1>e, <3>1, <3>4
    <2>5. pc' \in [Callers -> Pcs]
      BY <1>11, <1>f, <1>g DEF Collect, Outer
    <2>6. call' \in [Callers -> CallSet]
      BY <1>11, <1>d, <2>3, <2>4 DEF Collect
    <2> QED
      BY <1>11, <1>a, <1>b, <1>c, <2>5, <2>6 DEF Collect, ContextDelete, TypeOK
  <1>12. CASE Classify(c)
    <2>1. ContextFrame
      BY <1>12, Quietly DEF Classify, Outer
    <2>2. pc' \in [Callers -> Pcs] /\ call' \in [Callers -> CallSet]
      BY <1>12, <1>d, <1>f, <1>g, FailsType DEF Classify, Outer
    <2> QED
      BY <1>12, <1>a, <1>b, <1>c, <2>1, <2>2 DEF Classify, TypeOK, ContextFrame
  <1>13. CASE Plan(c)
    <2>1. pc' \in [Callers -> Pcs] /\ call' \in [Callers -> CallSet]
      BY <1>13, <1>d, <1>f, <1>g, FailsType DEF Plan, Outer
    <2>2. NoInfo \in InfoSet
      BY DEF NoInfo, InfoSet
    <2>3. ContextFrame \/ (current' = nextCtx /\ live' = live \cup {nextCtx}
                           /\ info' = Append(info, NoInfo) /\ nextCtx' = nextCtx + 1)
      BY <1>13, Planned DEF Plan
    <2>4. current' \in Nat /\ live' \in SUBSET Nat /\ info' \in Seq(InfoSet) /\ nextCtx' \in Nat
      <3>1. Append(info, NoInfo) \in Seq(InfoSet) /\ nextCtx + 1 \in Nat
        BY <1>c, <2>2
      <3> QED
        BY <1>c, <2>3, <3>1 DEF ContextFrame
    <2> QED
      BY <1>13, <1>a, <1>b, <2>1, <2>4 DEF Plan, TypeOK
  <1>14. CASE Reply(c)
    <2>1. saved[c] \in Seq(Hooks) /\ (call[c].entry # "capi" => Saves(saved[c], 1))
      BY <1>14, <1>b DEF Reply, HookInv, Outer
    <2>2. saved' \in [Callers -> Seq(Hooks)] /\ hook' \in Hooks
      BY <1>14, <1>b, <2>1, RestoreSaved DEF Reply, LeaveQuietly
    <2>3. pc' \in [Callers -> Pcs]
      BY <1>14, <1>f, <1>g DEF Reply
    <2> QED
      BY <1>14, <1>a, <1>c, <1>d, <2>2, <2>3 DEF Reply, TypeOK, ContextFrame
  <1>15. CASE Unanswered(c)
    <2>1. PICK k \in {"unwound", "aborted"} :
            /\ call' = [call EXCEPT ![c] = [call[c] EXCEPT !.kind = k]]
            /\ pc' = [pc EXCEPT ![c] = IF k = "aborted" THEN "aborted" ELSE "idle"]
      BY <1>15, <1>d DEF Unanswered
    <2>2. [call[c] EXCEPT !.kind = k] \in CallSet
      BY <1>d DEF CallSet
    <2>3. pc' \in [Callers -> Pcs] /\ call' \in [Callers -> CallSet]
      BY <1>e, <1>f, <2>1, <2>2 DEF Pcs
    <2>4. ContextFrame
      BY <1>15, Quietly DEF Unanswered, Outer
    <2> QED
      BY <1>15, <1>a, <1>b, <1>c, <2>3, <2>4 DEF Unanswered, TypeOK, ContextFrame
  <1> QED
    BY <1>1, <1>2, <1>3, <1>4, <1>5, <1>6, <1>7, <1>8, <1>9, <1>10, <1>11, <1>12, <1>13, <1>14, <1>15 DEF Step

-----------------------------------------------------------------------------
(* The panic hook. *)

\* Every hook that is installed on the way down is taken off on the way up.
LEMMA HookStep ==
  ASSUME TypeOK, Alone, HookInv, NEW c \in Callers, Step(c)
  PROVE  HookInv'
  <1>a. saved \in [Callers -> Seq(Hooks)] /\ saved[c] \in Seq(Hooks) /\ hook \in Hooks
        /\ pc \in [Callers -> Pcs] /\ call \in [Callers -> CallSet]
    BY DEF TypeOK
  <1>b. SUFFICES /\ pc'[c] = "idle" => hook' = "default" /\ Saves(saved'[c], 0)
                 /\ pc'[c] \in Outer => IF call'[c].entry = "capi"
                                        THEN hook' = "default" /\ Saves(saved'[c], 0)
                                        ELSE hook' = "silent" /\ Saves(saved'[c], 1)
                 /\ pc'[c] \in Inner => /\ hook' = "context"
                                        /\ Saves(saved'[c], IF call'[c].entry = "capi" THEN 1 ELSE 2)
    BY Others DEF HookInv, Outer, Inner
  <1>c. ASSUME pc[c] \in Outer, pc'[c] \in Outer, call'[c].entry = call[c].entry, UNCHANGED <<hook, saved>>
        PROVE  /\ pc'[c] \notin {"idle"} \cup Inner
               /\ IF call'[c].entry = "capi" THEN hook' = "default" /\ Saves(saved'[c], 0)
                  ELSE hook' = "silent" /\ Saves(saved'[c], 1)
    BY <1>c DEF HookInv, Outer, Inner
  <1>d. ASSUME Fails(c) PROVE pc'[c] = "reply" /\ call'[c].entry = call[c].entry
    BY <1>a, <1>d DEF Fails, CallSet
  <1>1. CASE Begin(c)
    <2>1. PICK e \in Entries, m \in Methods, none \in BOOLEAN :
            /\ call' = [call EXCEPT ![c] = NewCall(calls + 1, e, none)]
            /\ pc' = [pc EXCEPT ![c] = IF m = "ExecProgram" THEN "load" ELSE "other"]
      BY <1>1 DEF Begin
    <2>2. pc'[c] \in {"load", "other"} /\ call'[c].entry = e
      BY <1>a, <2>1 DEF NewCall
    <2>3. hook = "default" /\ Saves(saved[c], 0)
      BY <1>1 DEF Begin, MayEnter, HookInv
    <2>4. IF call'[c].entry = "capi" THEN hook' = hook /\ saved' = saved
          ELSE hook' = "silent" /\ saved' = [saved EXCEPT ![c] = Append(saved[c], hook)]
      BY <1>1, <2>2 DEF Begin, EnterCli, EnterJsonRpc, EnterCapi, EnterQuietly
    <2>5. Saves(Append(saved[c], hook), 0 + 1)
      BY <1>a, <2>3, SaveHook
    <2>6. IF call'[c].entry = "capi" THEN hook' = "default" /\ Saves(saved'[c], 0)
          ELSE hook' = "silent" /\ Saves(saved'[c], 1)
      <3>1. 0 + 1 = 1
        OBVIOUS
      <3>2. CASE call'[c].entry = "capi"
        BY <2>3, <2>4, <3>2
      <3>3. CASE call'[c].entry # "capi"
        <4>1. hook' = "silent" /\ saved'[c] = Append(saved[c], hook)
          BY <1>a, <2>4, <3>3
        <4> QED
          BY <2>5, <3>1, <3>3, <4>1
      <3> QED
        BY <3>2, <3>3
    <2> QED
      BY <2>2, <2>6 DEF Outer, Inner
  <1>2. CASE OtherMethod(c) \/ LoadProgram(c) \/ Execute(c)
    <2>1. PICK next \in {"reply", "build", "new"} : Stage(c, next) /\ pc[c] \in {"other", "load", "build"}
      BY <1>2 DEF OtherMethod, LoadProgram, Execute
    <2>2. pc'[c] \in Outer /\ call'[c].entry = call[c].entry /\ UNCHANGED <<hook, saved>>
      BY <1>a, <1>d, <2>1 DEF Stage, Outer
    <2> QED
      BY <1>c, <2>1, <2>2 DEF Outer
  <1>3. CASE NewContext(c)
    <2>1. pc[c] \in Outer /\ pc'[c] \in Outer /\ call' = call /\ UNCHANGED <<hook, saved>>
      BY <1>a, <1>3 DEF NewContext, Outer
    <2> QED
      BY <1>c, <2>1
  <1>4. CASE SetHook(c)
    <2>1. pc'[c] = "configure" /\ hook' = "context" /\ call' = call
          /\ saved'[c] = Append(saved[c], hook)
      BY <1>a, <1>4 DEF SetHook
    <2>2. IF call[c].entry = "capi" THEN hook = "default" /\ Saves(saved[c], 0)
          ELSE hook = "silent" /\ Saves(saved[c], 1)
      BY <1>4 DEF SetHook, HookInv, Outer
    <2>3. Saves(saved'[c], IF call[c].entry = "capi" THEN 0 + 1 ELSE 1 + 1)
      BY <1>a, <2>1, <2>2, SaveHook
    <2> QED
      BY <2>1, <2>3 DEF Outer, Inner
  <1>5. CASE Configure(c)
    <2>1. pc[c] \in Inner /\ pc'[c] = "main" /\ call' = call /\ UNCHANGED <<hook, saved>>
      BY <1>a, <1>5 DEF Configure, Inner
    <2> QED
      BY <2>1 DEF HookInv, Outer, Inner
  <1>6. CASE MainReturns(c) \/ MainPanics(c)
    <2>1. pc[c] \in Inner /\ pc'[c] = "restore" /\ UNCHANGED <<hook, saved>>
      BY <1>a, <1>6 DEF MainReturns, MainPanics, Inner
    <2>2. call'[c].entry = call[c].entry
      <3>1. CASE MainReturns(c)
        BY <1>a, <3>1 DEF MainReturns, CallSet
      <3>2. CASE MainPanics(c)
        BY <1>a, <3>2 DEF MainPanics, CallSet
      <3> QED
        BY <1>6, <3>1, <3>2
    <2> QED
      BY <2>1, <2>2 DEF HookInv, Outer, Inner
  <1>7. CASE RestoreHook(c)
    <2>1. pc'[c] = "collect" /\ call' = call /\ hook' = Last(saved[c]) /\ saved'[c] = Front(saved[c])
      BY <1>a, <1>7 DEF RestoreHook
    <2>2. Saves(saved[c], IF call[c].entry = "capi" THEN 1 ELSE 2)
      BY <1>7 DEF RestoreHook, HookInv, Inner
    <2>3. IF call[c].entry = "capi" THEN hook' = "default" /\ Saves(saved'[c], 1 - 1)
          ELSE hook' = "silent" /\ Saves(saved'[c], 2 - 1)
      BY <1>a, <2>1, <2>2, RestoreSaved
    <2> QED
      BY <2>1, <2>3 DEF Outer, Inner
  <1>8. CASE Collect(c)
    <2>1. pc[c] \in Outer /\ pc'[c] \in Outer /\ UNCHANGED <<hook, saved>>
      BY <1>a, <1>8 DEF Collect, Outer
    <2>2. call'[c].entry = call[c].entry
      BY <1>a, <1>8 DEF Collect, CallSet
    <2> QED
      BY <1>c, <2>1, <2>2
  <1>9. CASE Classify(c) \/ Plan(c)
    <2>1. pc[c] \in Outer /\ UNCHANGED <<hook, saved>>
      BY <1>9 DEF Classify, Plan, Outer
    <2>2. pc'[c] \in Outer /\ call'[c].entry = call[c].entry
      BY <1>a, <1>d, <1>9 DEF Classify, Plan, Outer
    <2> QED
      BY <1>c, <2>1, <2>2
  <1>10. CASE Reply(c)
    <2>1. pc'[c] = "idle"
      BY <1>a, <1>10 DEF Reply
    <2>2. CASE call[c].entry = "capi"
      BY <1>10, <2>1, <2>2 DEF Reply, HookInv, Outer, Inner
    <2>3. CASE call[c].entry # "capi"
      <3>1. Saves(saved[c], 1)
        BY <1>10, <2>3 DEF Reply, HookInv, Outer
      <3>2. hook' = Last(saved[c]) /\ saved'[c] = Front(saved[c])
        BY <1>a, <1>10, <2>3 DEF Reply, LeaveQuietly
      <3>3. hook' = "default" /\ Saves(saved'[c], 1 - 1)
        BY <1>a, <3>1, <3>2, RestoreSaved
      <3> QED
        BY <2>1, <3>3 DEF Outer, Inner
    <2> QED
      BY <2>2, <2>3
  <1>11. CASE Unanswered(c)
    <2>1. pc'[c] \in {"idle", "aborted"} /\ UNCHANGED <<hook, saved>>
      BY <1>a, <1>11 DEF Unanswered
    <2>2. hook = "default" /\ Saves(saved[c], 0)
      BY <1>11 DEF Unanswered, HookInv, Outer
    <2> QED
      BY <2>1, <2>2 DEF Outer, Inner
  <1> QED
    BY <1>1, <1>2, <1>3, <1>4, <1>5, <1>6, <1>7, <1>8, <1>9, <1>10, <1>11 DEF Step

-----------------------------------------------------------------------------
(* The contexts. *)

\* A context more, or less, changes their number by at most one.
LEMMA ContextCount ==
  ASSUME TypeOK, ContextInv
  PROVE  /\ IsFiniteSet(live) /\ Cardinality(live) \in Nat
         /\ Cardinality(live \cup {nextCtx}) = Cardinality(live) + 1
         /\ \A x \in live : Cardinality(live \ {x}) = Cardinality(live) - 1
  <1>1. Len(info) \in Nat /\ nextCtx \notin live
    BY DEF TypeOK, ContextInv
  <1>2. IsFiniteSet(1..Len(info))
    BY <1>1, FS_Interval
  <1>3. IsFiniteSet(live)
    BY <1>2, FS_Subset DEF ContextInv
  <1> QED
    BY <1>1, <1>3, FS_CardinalityType, FS_AddElement, FS_RemoveElement

\* Addresses are given in order.
LEMMA NextAddress ==
  ASSUME NEW n \in Nat, NEW S, S \subseteq 1..n
  PROVE  S \cup {n + 1} \subseteq 1..(n + 1)
  <1> SUFFICES ASSUME NEW x \in S \cup {n + 1} PROVE x \in 1..(n + 1)
    OBVIOUS
  <1>1. x \in 1..n \/ x = n + 1
    OBVIOUS
  <1> QED
    BY <1>1

\* The pointer to the current context is null or valid, and a call's own from
\* kclvm_context_new to the delete.
LEMMA ContextStep ==
  ASSUME TypeOK, Alone, HookInv, ContextInv, NEW c \in Callers, Step(c)
  PROVE  ContextInv'
  <1>a. pc \in [Callers -> Pcs] /\ ctx \in [Callers -> Nat] /\ calls \in Nat
        /\ call \in [Callers -> CallSet]
    BY DEF TypeOK
  <1>b. current \in Nat /\ live \in SUBSET Nat /\ info \in Seq(InfoSet) /\ nextCtx \in Nat
        /\ Len(info) \in Nat
    BY DEF TypeOK
  <1>c. ASSUME /\ nextCtx' = Len(info') + 1
               /\ live' \subseteq 1..Len(info')
               /\ current' \in live' \cup {0}
               /\ Cardinality(live') <= calls'
               /\ pc'[c] \in {"sethook", "configure", "main", "restore", "collect"} =>
                    current' = ctx'[c] /\ current' # 0
               /\ pc'[c] \in {"other", "load", "build", "new", "classify", "plan"} =>
                    Cardinality(live') + 1 <= calls'
               /\ pc'[c] = "main" => info'[current'].none = call'[c].none
        PROVE  ContextInv'
    BY <1>c, Others DEF ContextInv
  <1>d. Cardinality(live) \in Nat
    BY ContextCount
  <1>e. ASSUME ContextFrame, UNCHANGED <<ctx, calls>>, call'[c].none = call[c].none,
               \/ pc[c] \in {"other", "load", "build", "new", "classify", "plan"}
                  /\ pc'[c] \in {"other", "load", "build", "new", "classify", "plan", "reply"}
               \/ pc[c] \in {"sethook", "main", "restore"} /\ pc'[c] \in {"configure", "restore", "collect"}
               \/ pc[c] = "reply" /\ pc'[c] = "idle"
        PROVE  ContextInv'
    BY <1>c, <1>e DEF ContextInv, ContextFrame
  <1>f. ASSUME Fails(c) PROVE pc'[c] = "reply" /\ call'[c].none = call[c].none
    BY <1>a, <1>f DEF Fails, CallSet
  <1>1. CASE Begin(c)
    <2>1. pc'[c] \in {"load", "other"} /\ calls' = calls + 1 /\ ContextFrame
      BY <1>a, <1>1 DEF Begin
    <2>2. Cardinality(live) + 1 <= calls'
      BY <1>a, <1>d, <2>1 DEF ContextInv
    <2> QED
      BY <1>a, <1>c, <1>d, <2>1, <2>2 DEF ContextInv, ContextFrame
  <1>2. CASE OtherMethod(c) \/ LoadProgram(c) \/ Execute(c)
    <2>1. PICK next \in {"reply", "build", "new"} : Stage(c, next) /\ pc[c] \in {"other", "load", "build"}
      BY <1>2 DEF OtherMethod, LoadProgram, Execute
    <2>2. ContextFrame /\ UNCHANGED <<ctx, calls>>
      BY <2>1, Quietly DEF Stage, Outer
    <2>3. pc'[c] \in {"reply", "build", "new"} /\ call'[c].none = call[c].none
      BY <1>a, <1>f, <2>1 DEF Stage
    <2> QED
      BY <1>e, <2>1, <2>2, <2>3
  <1>3. CASE NewContext(c)
    <2>1. /\ pc[c] = "new" /\ pc'[c] = "sethook" /\ ctx'[c] = nextCtx /\ current' = nextCtx
          /\ live' = live \cup {nextCtx} /\ info' = Append(info, NoInfo) /\ nextCtx' = nextCtx + 1
          /\ calls' = calls
      BY <1>a, <1>3 DEF NewContext, ContextNew
    <2>2. Cardinality(live') <= calls'
      BY <1>a, <1>d, <2>1, ContextCount DEF ContextInv
    <2>3. Len(info') = Len(info) + 1
      BY <1>b, <2>1
    <2>4. nextCtx' = Len(info') + 1 /\ live' \subseteq 1..Len(info') /\ nextCtx # 0
      <3>1. nextCtx = Len(info) + 1 /\ live \subseteq 1..Len(info)
        BY DEF ContextInv
      <3>2. live \cup {Len(info) + 1} \subseteq 1..(Len(info) + 1)
        BY <1>b, <3>1, NextAddress
      <3> QED
        BY <1>b, <2>1, <2>3, <3>1, <3>2
    <2>5. current' \in live' \cup {0} /\ current' = ctx'[c] /\ current' # 0
      BY <2>1, <2>4
    <2> QED
      BY <1>c, <2>1, <2>2, <2>4, <2>5
  <1>4. CASE SetHook(c) \/ MainReturns(c) \/ RestoreHook(c)
    <2>1. ContextFrame /\ UNCHANGED <<ctx, calls>>
      BY <1>4 DEF SetHook, MainReturns, RestoreHook
    <2>2. pc[c] \in {"sethook", "main", "restore"} /\ pc'[c] \in {"configure", "restore", "collect"}
      BY <1>a, <1>4 DEF SetHook, MainReturns, RestoreHook
    <2>3. call'[c].none = call[c].none
      <3>1. CASE SetHook(c) \/ RestoreHook(c)
        BY <3>1 DEF SetHook, RestoreHook
      <3>2. CASE MainReturns(c)
        BY <1>a, <3>2 DEF MainReturns, CallSet
      <3> QED
        BY <1>4, <3>1, <3>2
    <2> QED
      BY <1>e, <2>1, <2>2, <2>3
  <1>5. CASE Configure(c)
    <2>1. pc[c] = "configure" /\ pc'[c] = "main" /\ UNCHANGED <<ctx, calls, call>>
      BY <1>a, <1>5 DEF Configure
    <2>2. current \in 1..Len(info) /\ info[current] \in InfoSet
      BY <1>b, <2>1 DEF ContextInv
    <2>3. /\ UNCHANGED <<current, live, nextCtx>>
          /\ info' = [info EXCEPT ![current] = [info[current] EXCEPT !.none = call[c].none]]
      BY <1>5, Configured
    <2>4. Len(info') = Len(info) /\ info'[current] = [info[current] EXCEPT !.none = call[c].none]
      BY <1>b, <2>2, <2>3
    <2>5. info'[current].none = call[c].none
      BY <2>2, <2>4 DEF InfoSet
    <2> QED
      BY <1>c, <2>1, <2>3, <2>4, <2>5 DEF ContextInv
  <1>6. CASE MainPanics(c)
    <2>1. pc[c] = "main" /\ pc'[c] = "restore" /\ UNCHANGED <<ctx, calls>>
      BY <1>a, <1>6 DEF MainPanics
    <2>2. current \in 1..Len(info)
      BY <1>b, <2>1 DEF ContextInv
    <2>3. /\ UNCHANGED <<current, live, nextCtx>>
          /\ info' = [info EXCEPT ![current] = [info[current] EXCEPT !.panic = call[c].id]]
      BY <1>6, Reported DEF MainPanics
    <2>4. Len(info') = Len(info)
      BY <1>b, <2>2, <2>3
    <2> QED
      BY <1>c, <2>1, <2>3, <2>4 DEF ContextInv
  <1>7. CASE Collect(c)
    <2>1. /\ pc[c] = "collect" /\ pc'[c] = "classify" /\ UNCHANGED <<ctx, calls, info, nextCtx>>
          /\ live' = live \ {ctx[c]} /\ current' = 0
      BY <1>a, <1>7 DEF Collect, ContextDelete
    <2>2. ctx[c] \in live
      BY <2>1 DEF ContextInv
    <2>3. Cardinality(live') = Cardinality(live) - 1
      BY <2>1, <2>2, ContextCount
    <2>4. nextCtx' = Len(info') + 1 /\ live' \subseteq 1..Len(info') /\ current' \in live' \cup {0}
      BY <2>1 DEF ContextInv
    <2>5. Cardinality(live') <= calls' /\ Cardinality(live') + 1 <= calls'
      BY <1>a, <1>d, <2>1, <2>3 DEF ContextInv
    <2> QED
      BY <1>c, <2>1, <2>4, <2>5
  <1>8. CASE Classify(c)
    <2>1. ContextFrame /\ UNCHANGED <<ctx, calls>> /\ pc[c] = "classify"
      BY <1>8, Quietly DEF Classify, Outer
    <2>2. pc'[c] \in {"reply", "plan"} /\ call'[c].none = call[c].none
      BY <1>a, <1>f, <1>8 DEF Classify
    <2> QED
      BY <1>e, <2>1, <2>2
  <1>9. CASE Plan(c)
    <2>1. pc[c] = "plan" /\ pc'[c] = "reply" /\ UNCHANGED <<ctx, calls>> /\ call'[c].none = call[c].none
      BY <1>a, <1>f, <1>9 DEF Plan
    <2>2. CASE ContextFrame
      BY <1>e, <2>1, <2>2
    <2>3. CASE /\ current' = nextCtx /\ live' = live \cup {nextCtx}
               /\ info' = Append(info, NoInfo) /\ nextCtx' = nextCtx + 1
      <3>1. Cardinality(live') <= calls'
        BY <1>a, <1>d, <2>1, <2>3, ContextCount DEF ContextInv
      <3>2. Len(info') = Len(info) + 1
        BY <1>b, <2>3
      <3>3. nextCtx' = Len(info') + 1 /\ live' \subseteq 1..Len(info')
        <4>1. nextCtx = Len(info) + 1 /\ live \subseteq 1..Len(info)
          BY DEF ContextInv
        <4>2. live \cup {Len(info) + 1} \subseteq 1..(Len(info) + 1)
          BY <1>b, <4>1, NextAddress
        <4> QED
          BY <1>b, <2>3, <3>2, <4>1, <4>2
      <3>4. current' \in live' \cup {0}
        BY <2>3
      <3> QED
        BY <1>c, <2>1, <3>1, <3>3, <3>4
    <2> QED
      BY <1>9, <2>2, <2>3, Planned DEF Plan
  <1>10. CASE Reply(c)
    BY <1>a, <1>e, <1>10 DEF Reply
  <1>11. CASE Unanswered(c)
    <2>1. ContextFrame /\ UNCHANGED <<ctx, calls>> /\ pc[c] = "reply"
      BY <1>11, Quietly DEF Unanswered, Outer
    <2>2. pc'[c] \in {"idle", "aborted"}
      BY <1>a, <1>11 DEF Unanswered
    <2> QED
      BY <1>c, <2>1, <2>2 DEF ContextInv, ContextFrame
  <1> QED
    BY <1>1, <1>2, <1>3, <1>4, <1>5, <1>6, <1>7, <1>8, <1>9, <1>10, <1>11 DEF Step

-----------------------------------------------------------------------------
(* The answer. *)

\* What is known of the answer follows the call through _kcl_run.
LEMMA ReplyStep ==
  ASSUME TypeOK, Alone, HookInv, ContextInv, ReplyInv, NEW c \in Callers, Step(c)
  PROVE  ReplyInv'
  <1> DEFINE Known(p, r, i) ==
        /\ p # "idle" => r.id > 0
        /\ p \notin {"idle", "aborted"} => r.kind \in {"ok", "error"}
        /\ p \in {"other", "load", "build", "new", "sethook", "configure", "main"} =>
             r.ran = "no" /\ r.got = 0 /\ r.n = 0
        /\ p \in {"restore", "collect"} =>
             \/ r.ran = "value" /\ r.n = Sized(r.len) /\ r.got = 0
             \/ r.ran = "panic" /\ r.len > 0 /\ i = r.id
        /\ p = "classify" =>
             /\ r.n = Sized(r.len)
             /\ \/ r.ran = "value" /\ r.got = 0
                \/ r.ran = "panic" /\ r.len > 0 /\ r.got = r.id
        /\ p = "plan" => r.ran = "value" /\ r.len <= BufLen /\ r.n = Sized(r.len)
        /\ p = "reply" => r.n = IF r.ran = "no" THEN 0 ELSE Sized(r.len)
        /\ p \in {"reply", "idle", "aborted"} =>
             /\ r.ran = "value" /\ r.len > BufLen => r.kind # "ok"
             /\ r.ran = "panic" => r.kind # "ok"
             /\ r.ran = "panic" /\ r.len <= BufLen => r.kind = "error" /\ r.got = r.id
        /\ p \in {"idle", "aborted"} =>
             (r.kind \in {"unwound", "aborted"} <=>
                r.entry = "capi" /\ r.ran # "no" /\ r.len = ResultSize)
  <1> USE KclRunAssumption DEF KclRunAssumption
  <1>a. pc \in [Callers -> Pcs] /\ call \in [Callers -> CallSet] /\ call[c] \in CallSet
        /\ calls \in Nat /\ info \in Seq(InfoSet)
    BY DEF TypeOK
  <1>b. /\ call[c].id \in Nat /\ call[c].len \in Nat /\ call[c].n \in Int /\ call[c].got \in Nat
        /\ BufLen \in Nat /\ BufLen < ResultSize
    BY <1>a DEF CallSet, BufLen
  <1>c. Known(pc[c], call[c], info[current].panic)
    BY DEF ReplyInv
  <1>d. ASSUME Known(pc'[c], call'[c], info'[current'].panic) PROVE ReplyInv'
    <2>1. ASSUME NEW d \in Callers \ {c} PROVE Known(pc'[d], call'[d], info'[current'].panic)
      BY <2>1, Others DEF ReplyInv
    <2>2. ASSUME NEW d \in Callers PROVE Known(pc'[d], call'[d], info'[current'].panic)
      BY <1>d, <2>1
    <2> HIDE DEF Known
    <2>3. ReplyInv' <=> \A d \in Callers : Known(pc'[d], call'[d], info'[current'].panic)
      BY DEF ReplyInv, Known
    <2> QED
      BY <2>2, <2>3
  <1>e. ASSUME Fails(c) PROVE pc'[c] = "reply" /\ call'[c] = [call[c] EXCEPT !.kind = "error"]
    BY <1>a, <1>e DEF Fails
  <1>1. CASE Begin(c)
    <2>1. PICK e \in Entries, m \in Methods, none \in BOOLEAN :
            /\ call' = [call EXCEPT ![c] = NewCall(calls + 1, e, none)]
            /\ pc' = [pc EXCEPT ![c] = IF m = "ExecProgram" THEN "load" ELSE "other"]
      BY <1>1 DEF Begin
    <2>2. pc'[c] \in {"load", "other"} /\ call'[c] = NewCall(calls + 1, e, none)
      BY <1>a, <2>1
    <2>3. /\ call'[c].id > 0 /\ call'[c].ran = "no" /\ call'[c].got = 0
          /\ call'[c].n = 0 /\ call'[c].kind = "ok"
      BY <1>a, <2>2 DEF NewCall
    <2> QED
      BY <1>d, <2>2, <2>3
  <1>2. CASE OtherMethod(c) \/ LoadProgram(c) \/ Execute(c)
    <2>1. PICK next \in {"reply", "build", "new"} : Stage(c, next) /\ pc[c] \in {"other", "load", "build"}
      BY <1>2 DEF OtherMethod, LoadProgram, Execute
    <2>2. /\ pc'[c] \in {"reply", "build", "new"}
          /\ call'[c].ran = call[c].ran /\ call'[c].id = call[c].id /\ call'[c].got = call[c].got
          /\ call'[c].n = call[c].n /\ call'[c].kind \in {call[c].kind, "error"}
      BY <1>a, <1>e, <2>1 DEF Stage, CallSet
    <2> QED
      BY <1>c, <1>d, <2>1, <2>2
  <1>3. CASE NewContext(c) \/ SetHook(c) \/ Configure(c)
    <2>1. /\ pc[c] \in {"new", "sethook", "configure"} /\ pc'[c] \in {"sethook", "configure", "main"}
          /\ call' = call
      BY <1>a, <1>3 DEF NewContext, SetHook, Configure
    <2> QED
      BY <1>c, <1>d, <2>1
  <1>4. CASE MainReturns(c)
    <2>1. PICK len \in 0..MaxLen :
            call' = [call EXCEPT ![c] = [call[c] EXCEPT !.ran = "value", !.len = len,
                                             !.n = IF len <= BufLen THEN len ELSE -len]]
      BY <1>a, <1>4 DEF MainReturns
    <2>2. /\ call'[c].ran = "value" /\ call'[c].len = len /\ call'[c].n = Sized(len)
          /\ call'[c].id = call[c].id /\ call'[c].got = call[c].got /\ call'[c].kind = call[c].kind
      BY <1>a, <2>1 DEF Sized, CallSet
    <2>3. pc[c] = "main" /\ pc'[c] = "restore"
      BY <1>a, <1>4 DEF MainReturns
    <2> QED
      BY <1>c, <1>d, <2>2, <2>3
  <1>5. CASE MainPanics(c)
    <2>1. PICK len \in 1..MaxLen :
            call' = [call EXCEPT ![c] = [call[c] EXCEPT !.ran = "panic", !.len = len]]
      BY <1>a, <1>5 DEF MainPanics
    <2>2. /\ call'[c].ran = "panic" /\ call'[c].len = len /\ call'[c].id = call[c].id
          /\ call'[c].kind = call[c].kind
      BY <1>a, <2>1 DEF CallSet
    <2>3. pc[c] = "main" /\ pc'[c] = "restore"
      BY <1>a, <1>5 DEF MainPanics
    <2>4. current \in 1..Len(info) /\ info[current] \in InfoSet
      BY <1>a, <2>3 DEF ContextInv
    <2>5. /\ current' = current
          /\ info' = [info EXCEPT ![current] = [info[current] EXCEPT !.panic = call[c].id]]
      BY <1>5, Reported DEF MainPanics
    <2>6. info'[current'] = [info[current] EXCEPT !.panic = call[c].id]
      BY <1>a, <2>4, <2>5
    <2>7. info'[current'].panic = call[c].id
      BY <2>4, <2>6 DEF InfoSet
    <2> QED
      BY <1>c, <1>d, <2>2, <2>3, <2>7
  <1>6. CASE RestoreHook(c)
    <2>1. pc[c] = "restore" /\ pc'[c] = "collect" /\ UNCHANGED <<call, info, current>>
      BY <1>a, <1>6 DEF RestoreHook, ContextFrame
    <2> QED
      BY <1>c, <1>d, <2>1
  <1>7. CASE Collect(c)
    <2>1. pc[c] = "collect" /\ pc'[c] = "classify" /\ current # 0
      BY <1>a, <1>7 DEF Collect, ContextInv
    <2>2. CASE call[c].ran = "value"
      BY <1>c, <1>d, <1>7, <2>1, <2>2 DEF Collect
    <2>3. CASE call[c].ran # "value"
      <3>1. call' = [call EXCEPT ![c] = [call[c] EXCEPT
                      !.n = IF call[c].len <= BufLen THEN call[c].len ELSE -call[c].len,
                      !.got = info[current].panic]]
        BY <1>7, <1>a, <2>1, <2>3 DEF Collect
      <3>2. /\ call'[c].n = Sized(call[c].len) /\ call'[c].got = info[current].panic
            /\ call'[c].ran = call[c].ran /\ call'[c].len = call[c].len /\ call'[c].id = call[c].id
            /\ call'[c].kind = call[c].kind
        BY <1>a, <3>1 DEF Sized, CallSet
      <3> QED
        BY <1>c, <1>d, <2>1, <2>3, <3>2
    <2> QED
      BY <2>2, <2>3
  <1>8. CASE Classify(c)
    <2>1. pc[c] = "classify"
      BY <1>8 DEF Classify
    <2>2. CASE Fails(c)
      <3>1. /\ pc'[c] = "reply" /\ call'[c].kind = "error" /\ call'[c].ran = call[c].ran
            /\ call'[c].got = call[c].got /\ call'[c].id = call[c].id
            /\ call'[c].n = call[c].n /\ call'[c].len = call[c].len
        BY <1>a, <1>e, <2>2 DEF CallSet
      <3> QED
        BY <1>c, <1>d, <2>1, <3>1
    <2>3. CASE call[c].n = 0 /\ pc' = [pc EXCEPT ![c] = "reply"] /\ UNCHANGED call
      <3>1. pc'[c] = "reply" /\ call[c].ran = "value" /\ call[c].len <= BufLen
        BY <1>a, <1>b, <1>c, <2>1, <2>3 DEF Sized
      <3> QED
        BY <1>b, <1>c, <1>d, <2>1, <2>3, <3>1
    <2>4. CASE call[c].n > 0 /\ call[c].got = 0 /\ pc' = [pc EXCEPT ![c] = "plan"] /\ UNCHANGED call
      <3>1. pc'[c] = "plan" /\ call[c].ran = "value" /\ call[c].len <= BufLen
        BY <1>a, <1>b, <1>c, <2>1, <2>4 DEF Sized
      <3> QED
        BY <1>c, <1>d, <2>1, <2>4, <3>1
    <2> QED
      BY <1>8, <2>2, <2>3, <2>4 DEF Classify
  <1>9. CASE Plan(c)
    <2>1. pc[c] = "plan" /\ pc'[c] = "reply" /\ call'[c].ran = call[c].ran
          /\ call'[c].len = call[c].len /\ call'[c].id = call[c].id
          /\ call'[c].n = call[c].n /\ call'[c].kind \in {call[c].kind, "error"}
      BY <1>a, <1>e, <1>9 DEF Plan, CallSet
    <2> QED
      BY <1>b, <1>c, <1>d, <2>1
  <1>10. CASE Reply(c)
    <2>1. pc[c] = "reply" /\ pc'[c] = "idle" /\ call' = call
          /\ (call[c].entry = "capi" => call[c].n # -ResultSize)
      BY <1>a, <1>10 DEF Reply, NulText
    <2>2. call[c].kind \in {"ok", "error"}
      BY <1>c, <2>1
    <2>3. ~(call[c].entry = "capi" /\ call[c].ran # "no" /\ call[c].len = ResultSize)
      BY <1>b, <1>c, <2>1 DEF Sized
    <2> QED
      BY <1>c, <1>d, <2>1, <2>2, <2>3
  <1>11. CASE Unanswered(c)
    <2>1. PICK k \in {"unwound", "aborted"} :
            /\ call' = [call EXCEPT ![c] = [call[c] EXCEPT !.kind = k]]
            /\ pc' = [pc EXCEPT ![c] = IF k = "aborted" THEN "aborted" ELSE "idle"]
      BY <1>11, <1>a DEF Unanswered
    <2>2. pc[c] = "reply" /\ call[c].entry = "capi" /\ call[c].n = -ResultSize
      BY <1>11 DEF Unanswered, NulText
    <2>3. call[c].ran # "no" /\ call[c].len = ResultSize
      BY <1>a, <1>b, <1>c, <2>2 DEF Sized
    <2>4. pc'[c] \in {"idle", "aborted"}
      BY <1>a, <2>1
    <2>5. /\ call'[c].kind = k /\ call'[c].ran = call[c].ran /\ call'[c].len = call[c].len
          /\ call'[c].entry = call[c].entry /\ call'[c].id = call[c].id /\ call'[c].got = call[c].got
      BY <1>a, <2>1 DEF CallSet
    <2> QED
      BY <1>b, <1>c, <1>d, <2>2, <2>3, <2>4, <2>5
  <1> QED
    BY <1>1, <1>2, <1>3, <1>4, <1>5, <1>6, <1>7, <1>8, <1>9, <1>10, <1>11 DEF Step

-----------------------------------------------------------------------------

\* The process starts idle, with no context.
LEMMA InvInit == Init => IInv
  <1> SUFFICES ASSUME Init PROVE IInv
    OBVIOUS
  <1>1. TypeOK /\ Alone /\ HookInv
    BY TypeInit DEF Init, Alone, HookInv, Saves, Outer, Inner
  <1>2. ContextInv
    BY FS_EmptySet DEF Init, ContextInv
  <1>3. ReplyInv
    BY DEF Init, ReplyInv, NewCall
  <1> QED
    BY <1>1, <1>2, <1>3 DEF IInv

\* Every step keeps the invariant.
LEMMA InvStep == IInv /\ [Next]_vars => IInv'
  <1> SUFFICES ASSUME IInv, [Next]_vars PROVE IInv'
    OBVIOUS
  <1>1. ASSUME NEW c \in Callers, Step(c) PROVE IInv'
    BY <1>1, Others, TypeStep, HookStep, ContextStep, ReplyStep DEF IInv
  <1>2. CASE UNCHANGED vars
    BY <1>2 DEF vars, IInv, TypeOK, Alone, HookInv, ContextInv, ReplyInv
  <1> QED
    BY <1>1, <1>2 DEF Next

\* However the stages of the calls end, by return, error or panic, the current
\* context is always the call's own, an idle process has its own panic hook
\* back, and it is left with at most one context more per call.
THEOREM Undisturbed == Spec => []ProcessUndisturbed
  <1>1. IInv => ProcessUndisturbed
    BY DEF IInv, HookInv, ContextInv, ProcessUndisturbed, OwnContext, HookRestored, ContextLeakBounded
  <1> QED
    BY InvInit, InvStep, <1>1, PTL DEF Spec

\* A program that panics, or whose result or message overflows a buffer of any
\* size, is never answered as a success, and a message that fits is answered and
\* its own; only the C API leaves a call without an answer, and only when the
\* result or message has exactly the buffers' size.
THEOREM Honest == Spec => []HonestReply
  <1>1. IInv => HonestReply
    BY DEF IInv, ReplyInv, HonestReply
  <1> QED
    BY InvInit, InvStep, <1>1, PTL DEF Spec
=============================================================================
