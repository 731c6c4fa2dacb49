------------------------------- MODULE KclRun -------------------------------
(***************************************************************************)
(* One execution of a KCL program inside the host process, from the entry  *)
(* points (kclvm_cli_run, the JSON-RPC service, the C API) through         *)
(* exec_program and the runner to _kcl_run in the runtime, and back.       *)
(*                                                                         *)
(* What makes it delicate is process-wide state: the panic hook, saved and *)
(* replaced twice on the way down and restored twice on the way up, and    *)
(* the pointer _kclvm_context_current, which every runtime function that   *)
(* has to report something dereferences.  Front end, program and planning  *)
(* may each return, fail or panic; results travel through fixed buffers.   *)
(*                                                                         *)
(* The entry points are documented "not thread safe": calls of different   *)
(* callers do not overlap (the guard of Begin).  The host and the program  *)
(* library are taken to share one copy of the runtime.                     *)
(***************************************************************************)
EXTENDS Integers, Sequences, FiniteSets, SequencesExt

CONSTANTS Callers,      \* threads of the host that call an entry point
          MaxCalls,     \* bound: calls made in a behaviour
          ResultSize,   \* RESULT_SIZE, the bytes of each buffer of the runner
          MaxLen        \* bound: length of a result or of an error text

ASSUME KclRunAssumption ==
    /\ MaxCalls \in Nat \ {0}
    /\ ResultSize \in Nat \ {0}
    /\ MaxLen \in Nat /\ MaxLen > ResultSize

VARIABLES
    pc,       \* where each caller is
    hook,     \* the process-wide panic hook
    saved,    \* the prev_hook locals of each caller's frames, outermost first
    current,  \* _kclvm_context_current, 0 when null
    live,     \* the contexts that are allocated
    ctx,      \* the local ctx of each caller's _kcl_run
    info,     \* per context: whose panic its panic_info holds, and cfg.disable_none
    nextCtx,  \* the address of the next context to be allocated
    call,     \* per caller: its call, see NewCall
    calls     \* number of calls begun

vars == <<pc, hook, saved, current, live, ctx, info, nextCtx, call, calls>>

Hooks   == {"default", "silent", "context"}
Entries == {"cli", "jsonrpc", "capi"}
BufLen  == ResultSize - 1
NoInfo  == [panic |-> 0, none |-> FALSE]

(* id: the call; none: its disable_none; n: what _kcl_run returned; got:   *)
(* whose panic info the result buffer holds (0: a value); len: length of   *)
(* the value or panic text; ran: what the program did; kind: the answer.   *)
NewCall(id, e, none) ==
    [id |-> id, entry |-> e, none |-> none, n |-> 0, got |-> 0, len |-> 0,
     ran |-> "no", kind |-> "ok"]

Init ==
    /\ pc = [c \in Callers |-> "idle"]
    /\ hook = "default"
    /\ saved = [c \in Callers |-> <<>>]
    /\ current = 0 /\ live = {} /\ nextCtx = 1
    /\ ctx = [c \in Callers |-> 0]
    /\ info = <<>>
    /\ call = [c \in Callers |-> NewCall(0, "cli", FALSE)]
    /\ calls = 0

-----------------------------------------------------------------------------
(* The context pointer *)

\* kclvm_context_new: allocate, and make it the current one.
ContextNew ==
    /\ current' = nextCtx
    /\ live' = live \cup {nextCtx}
    /\ info' = Append(info, NoInfo)
    /\ nextCtx' = nextCtx + 1

\* kclvm_context_current, allocated on demand, and an update f of it.
UpdateCurrent(f(_)) ==
    IF current = 0
    THEN /\ current' = nextCtx
         /\ live' = live \cup {nextCtx}
         /\ info' = Append(info, f(NoInfo))
         /\ nextCtx' = nextCtx + 1
    ELSE /\ info' = [info EXCEPT ![current] = f(@)]
         /\ UNCHANGED <<current, live, nextCtx>>

\* kclvm_context_delete of the caller's own context resets the pointer too.
ContextDelete(c) ==
    /\ live' = live \ {ctx[c]}
    /\ current' = 0
    /\ UNCHANGED <<info, nextCtx>>

ContextFrame == UNCHANGED <<current, live, info, nextCtx>>

\* The hook a panic runs: _kcl_run's writes to the current context, the
\* silent one of the entry points and the default one write nowhere.
RunHook(c) ==
    IF hook = "context"
    THEN UpdateCurrent(LAMBDA i : [i EXCEPT !.panic = call[c].id])
    ELSE ContextFrame

-----------------------------------------------------------------------------
(* Entry points *)

\* The callers keep their calls apart, as the documentation asks.
MayEnter(c) == \A d \in Callers : pc[d] = "idle"

\* An entry point is a catch_unwind, between replacing the panic hook by one
\* that prints nothing and putting the previous one back ...
EnterQuietly(c) ==
    /\ saved' = [saved EXCEPT ![c] = Append(@, hook)]
    /\ hook' = "silent"

LeaveQuietly(c) ==
    /\ hook' = Last(saved[c])
    /\ saved' = [saved EXCEPT ![c] = Front(@)]

\* ... in kclvm_cli_run and kclvm_cli_main ...
EnterCli(c) == call'[c].entry = "cli" /\ EnterQuietly(c)

\* ... and in the catch! around every method of the JSON-RPC service.
EnterJsonRpc(c) == call'[c].entry = "jsonrpc" /\ EnterQuietly(c)

\* kclvm_service_call of the C API catches panics and leaves the hook alone.
EnterCapi(c) == call'[c].entry = "capi" /\ UNCHANGED <<hook, saved>>

\* A request: ExecProgram, or a method that runs no program.
Methods == {"ExecProgram", "other"}

Begin(c) ==
    /\ calls < MaxCalls /\ MayEnter(c)
    /\ \E e \in Entries, m \in Methods, none \in BOOLEAN :
         /\ call' = [call EXCEPT ![c] = NewCall(calls + 1, e, none)]
         /\ pc' = [pc EXCEPT ![c] = IF m = "ExecProgram" THEN "load" ELSE "other"]
    /\ EnterCli(c) \/ EnterJsonRpc(c) \/ EnterCapi(c)
    /\ calls' = calls + 1
    /\ UNCHANGED ctx /\ ContextFrame

\* The error text of a result of exactly ResultSize bytes is the whole warning
\* buffer, of which at least the last byte was never written and is NUL.
NulText(c) == call[c].n = -ResultSize

\* The answer: the value, or a text that starts with ERROR:.  The JSON of the
\* command line and of the service escapes a NUL.
Reply(c) ==
    /\ pc[c] = "reply"
    /\ \/ call[c].entry # "capi" /\ LeaveQuietly(c)
       \/ call[c].entry = "capi" /\ ~NulText(c) /\ UNCHANGED <<hook, saved>>
    /\ pc' = [pc EXCEPT ![c] = "idle"]
    /\ UNCHANGED <<ctx, call, calls>> /\ ContextFrame

\* The C string of the C API cannot hold one: CString::new fails and its expect
\* panics, outside catch_unwind and in an extern "C" function, where the panic
\* unwinds into the host's frames or the process is aborted.
Unanswered(c) ==
    /\ pc[c] = "reply" /\ call[c].entry = "capi" /\ NulText(c)
    /\ \E k \in {"unwound", "aborted"} :
         /\ call' = [call EXCEPT ![c].kind = k]
         /\ pc' = [pc EXCEPT ![c] = IF k = "aborted" THEN "aborted" ELSE "idle"]
    /\ RunHook(c)
    /\ UNCHANGED <<hook, saved, ctx, calls>>

\* An error answer, by return or by a panic the entry point catches.
Fails(c) ==
    /\ call' = [call EXCEPT ![c].kind = "error"]
    /\ pc' = [pc EXCEPT ![c] = "reply"]

-----------------------------------------------------------------------------
(* exec_program, execute and the runner around _kcl_run *)

\* A stage succeeds, returns an error, or panics under the hook in force.
Stage(c, next) ==
    /\ \/ pc' = [pc EXCEPT ![c] = next] /\ UNCHANGED call /\ ContextFrame
       \/ Fails(c) /\ ContextFrame
       \/ Fails(c) /\ RunHook(c)
    /\ UNCHANGED <<hook, saved, ctx, calls>>

\* Ping, OverrideFile, FormatCode, LintPath, LoadSettingsFiles ...
OtherMethod(c) == pc[c] = "other" /\ Stage(c, "reply")

\* load_program and apply_overrides.
LoadProgram(c) == pc[c] = "load" /\ Stage(c, "build")

\* resolve_program, gen_libs and link_all_libs; the temporary directory is
\* removed when execute is left, however it is left.
Execute(c) == pc[c] = "build" /\ Stage(c, "new")

\* A runner that takes an oversized answer for an empty one.
ClassifyTrusting(c) ==
    /\ pc[c] = "classify"
    /\ \/ call[c].n <= 0 /\ pc' = [pc EXCEPT ![c] = "reply"] /\ UNCHANGED call
       \/ call[c].n > 0 /\ call[c].got = 0 /\ pc' = [pc EXCEPT ![c] = "plan"]
            /\ UNCHANGED call
       \/ call[c].n > 0 /\ call[c].got # 0 /\ Fails(c)
    /\ ContextFrame /\ UNCHANGED <<hook, saved, ctx, calls>>

\* lib_kcl_run reads the buffers: a positive n is the text (wrap_msg_in_result
\* makes panic info an error), a negative one indexes the warning buffer, past
\* whose end the slice panics.
Classify(c) ==
    /\ pc[c] = "classify"
    /\ \/ /\ call[c].n = 0                          \* Ok(""): nothing to plan
          /\ pc' = [pc EXCEPT ![c] = "reply"] /\ UNCHANGED call /\ ContextFrame
       \/ /\ call[c].n > 0 /\ call[c].got = 0
          /\ pc' = [pc EXCEPT ![c] = "plan"] /\ UNCHANGED call /\ ContextFrame
       \/ call[c].n > 0 /\ call[c].got # 0 /\ Fails(c) /\ ContextFrame
       \/ call[c].n < 0 /\ -call[c].n <= ResultSize /\ Fails(c) /\ ContextFrame
       \/ call[c].n < 0 /\ -call[c].n > ResultSize /\ Fails(c) /\ RunHook(c)
    /\ UNCHANGED <<hook, saved, ctx, calls>>

\* filter_by_path may reject the selector; plan reads cfg.disable_none of the
\* current context, which _kcl_run has deleted: it is allocated anew, and stays.
Plan(c) ==
    /\ pc[c] = "plan"
    /\ \/ Fails(c) /\ ContextFrame
       \/ pc' = [pc EXCEPT ![c] = "reply"] /\ UNCHANGED call /\ UpdateCurrent(LAMBDA i : i)
    /\ UNCHANGED <<hook, saved, ctx, calls>>

-----------------------------------------------------------------------------
(* _kcl_run *)

NewContext(c) ==
    /\ pc[c] = "new"
    /\ ContextNew
    /\ ctx' = [ctx EXCEPT ![c] = nextCtx]
    /\ pc' = [pc EXCEPT ![c] = "sethook"]
    /\ UNCHANGED <<hook, saved, call, calls>>

SetHook(c) ==
    /\ pc[c] = "sethook"
    /\ saved' = [saved EXCEPT ![c] = Append(@, hook)]
    /\ hook' = "context"
    /\ pc' = [pc EXCEPT ![c] = "configure"]
    /\ UNCHANGED <<ctx, call, calls>> /\ ContextFrame

\* _kcl_run_in_closure works on the current context, not on the local ctx.
Configure(c) ==
    /\ pc[c] = "configure"
    /\ UpdateCurrent(LAMBDA i : [i EXCEPT !.none = call[c].none])
    /\ pc' = [pc EXCEPT ![c] = "main"]
    /\ UNCHANGED <<hook, saved, ctx, call, calls>>

\* kclvm_main returns a text of some length, which is copied when it fits.
MainReturns(c) ==
    /\ pc[c] = "main"
    /\ \E len \in 0..MaxLen :
         call' = [call EXCEPT ![c].ran = "value", ![c].len = len,
                              ![c].n = IF len <= BufLen THEN len ELSE -len]
    /\ pc' = [pc EXCEPT ![c] = "restore"]
    /\ UNCHANGED <<hook, saved, ctx, calls>> /\ ContextFrame

\* A failed check, a type error or an assertion panics: the hook stores the
\* message in the current context and catch_unwind returns Err.
MainPanics(c) ==
    /\ pc[c] = "main"
    /\ RunHook(c)
    /\ \E len \in 1..MaxLen :
         call' = [call EXCEPT ![c].ran = "panic", ![c].len = len]
    /\ pc' = [pc EXCEPT ![c] = "restore"]
    /\ UNCHANGED <<hook, saved, ctx, calls>>

\* Restoring only when the program returned.
RestoreHookOnSuccess(c) ==
    /\ pc[c] = "restore"
    /\ IF call[c].ran = "value" THEN hook' = Last(saved[c]) ELSE UNCHANGED hook
    /\ saved' = [saved EXCEPT ![c] = Front(@)]
    /\ pc' = [pc EXCEPT ![c] = "collect"]
    /\ UNCHANGED <<ctx, call, calls>> /\ ContextFrame

RestoreHook(c) ==
    /\ pc[c] = "restore"
    /\ hook' = Last(saved[c])
    /\ saved' = [saved EXCEPT ![c] = Front(@)]
    /\ pc' = [pc EXCEPT ![c] = "collect"]
    /\ UNCHANGED <<ctx, call, calls>> /\ ContextFrame

\* The panic info goes to the result buffer (to the warning buffer after a
\* normal end, where only a fitting one is copied); then the context dies.
Collect(c) ==
    /\ pc[c] = "collect"
    /\ IF call[c].ran = "value" THEN UNCHANGED call
       ELSE call' = [call EXCEPT
              ![c].n = IF call[c].len <= BufLen THEN call[c].len ELSE -call[c].len,
              ![c].got = IF current = 0 THEN 0 ELSE info[current].panic]
    /\ ContextDelete(c)
    /\ pc' = [pc EXCEPT ![c] = "classify"]
    /\ UNCHANGED <<hook, saved, ctx, calls>>

-----------------------------------------------------------------------------

Step(c) ==
    \/ Begin(c) \/ OtherMethod(c) \/ LoadProgram(c) \/ Execute(c) \/ NewContext(c) \/ SetHook(c) \/ Configure(c)
    \/ MainReturns(c) \/ MainPanics(c) \/ RestoreHook(c) \/ Collect(c)
    \/ Classify(c) \/ Plan(c) \/ Reply(c) \/ Unanswered(c)

Next == \E c \in Callers : Step(c)

Spec == Init /\ [][Next]_vars

-----------------------------------------------------------------------------
(* Properties *)

(* No runtime function dereferences a freed context: the global pointer is *)
(* null or allocated, and between NewContext and the delete in Collect it  *)
(* is the call's own context, so settings, messages and panic information  *)
(* of a call can only reach that call.                                     *)
OwnContext ==
    /\ current \in live \cup {0}
    /\ \A c \in Callers :
         /\ pc[c] \in {"sethook", "configure", "main", "restore", "collect"} =>
            current = ctx[c]
         /\ pc[c] = "main" => info[current].none = call[c].none

(* However front end, program or planning end, by return, error or panic,  *)
(* an idle process has its own panic hook back: no run leaves the silent   *)
(* hook or the one that writes to a deleted context installed.             *)
HookRestored == (\A c \in Callers : pc[c] = "idle") => hook = "default"

(* What the pointer discipline costs: plan allocates a context after the   *)
(* run's own was deleted and nothing frees that one, so contexts pile up,  *)
(* but by at most one per call.                                            *)
ContextLeakBounded ==
    (\A c \in Callers : pc[c] = "idle") => Cardinality(live) <= calls

(* Calls leave no trace in the process: contexts, the pointer to the       *)
(* current one and the panic hook belong to the call that set them.        *)
ProcessUndisturbed == OwnContext /\ HookRestored /\ ContextLeakBounded

(* A panic of the program, a result and a panic message that do not fit    *)
(* the runner's buffer are never taken for a success, and a panic message  *)
(* that fits is answered, with this call's own text.  The one call that    *)
(* gets no answer at all is one through the C API whose result or message  *)
(* has exactly the size of the buffers, which is one byte too long.        *)
HonestReply ==
    \A c \in Callers : pc[c] \in {"idle", "aborted"} =>
        LET r == call[c] IN
        /\ r.ran = "value" /\ r.len > BufLen => r.kind # "ok"
        /\ r.ran = "panic" => r.kind # "ok"
        /\ r.ran = "panic" /\ r.len <= BufLen => r.kind = "error" /\ r.got = r.id
        /\ r.kind \in {"unwound", "aborted"} <=>
             r.entry = "capi" /\ r.ran # "no" /\ r.len = ResultSize
=============================================================================
