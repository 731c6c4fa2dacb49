------------------------------ MODULE LspServer ------------------------------
(***************************************************************************)
(* kclvm/tools/src/LSP: the main loop of LanguageServerState, which owns   *)
(* the request queue and the shutdown flag, the thread pool whose jobs     *)
(* compile files and report back over the task channel, and the virtual    *)
(* file system they share behind a RwLock.                                 *)
(*                                                                         *)
(* The texts of a document are numbered: an edit that changes it makes the *)
(* next one.  The client's messages are                                    *)
(* handled in the order it sends them and the server's reach it in the     *)
(* order they are sent, so both channels of the connection are left out:   *)
(* sending and receiving are one step.  Workers die with the process, so   *)
(* nothing moves once run() has returned.                                  *)
(***************************************************************************)
EXTENDS Integers, Sequences

CONSTANTS Files,        \* documents, each in a compile unit of its own
          OnDisk,       \* the documents that also exist on disk
          MaxText,      \* bound: number of texts a document goes through
          Unloadable,   \* <<file, text>> for which load_program returns Err
          Requests,     \* request ids; the client uses each once
          Workers,      \* threads of the pool
          Stops,        \* may the client send `exit` or a notification that fails
          MaxSent       \* bound: notifications the client sends

ASSUME FileAssumption == OnDisk \subseteq Files
ASSUME TextAssumption == MaxText \in Nat /\ Unloadable \subseteq Files \X (0..MaxText)
ASSUME BoundAssumption == Stops \in BOOLEAN /\ MaxSent \in Nat
ASSUME NullAssumption == "diag" \notin Requests /\ "none" \notin Requests \cup Files

Texts == 0..MaxText     \* 0: the file is not in the vfs, its text is on disk

\* gotoDefinition, completion, hover and documentSymbol are one method here:
\* each compiles a file on the pool, may log, and responds.
Methods == {"compile", "shutdown", "invalid params", "unknown"}
Codes == {"Ok", "InternalError", "InvalidParams", "MethodNotFound", "InvalidRequest"}

VARIABLES
    server,              \* running, exited (Ok) or failed (Err) out of run()
    shutdown_requested,
    incoming,            \* request_queue.incoming: ids registered, not completed
    contents,            \* vfs: text of every file
    changes,             \* vfs: ChangedFiles since the last take_changes
    jobs,                \* queue of the thread pool: "diag" or a request id
    worker,              \* what each pool thread is doing
    tasks,               \* the task channel
    \* the client
    doc,                 \* text of every document in the editor
    asked,               \* what each request asked for, and the text it was asked about
    answers,             \* responses received for each request
    published,           \* diagnostics received for each document, in order: the text
                         \* they are about and (a ghost) the thread that sent them
    sent

vars == <<server, shutdown_requested, incoming, contents, changes, jobs, worker,
          tasks, doc, asked, answers, published, sent>>
client == <<doc, asked, answers, published, sent>>

Idle == [pc |-> "idle", job |-> "none", files |-> <<>>, text |-> 0]
NotAsked == [method |-> "none", file |-> "none", text |-> 0, late |-> FALSE]
LogTask == [type |-> "log"]
Diagnostics(f, v, w) == [type |-> "diagnostics", file |-> f, text |-> v, by |-> w]
Response(r, code, v) == [type |-> "response", id |-> r, code |-> code, text |-> v]

Init ==
    /\ server = "running"
    /\ shutdown_requested = FALSE
    /\ incoming = {}
    /\ contents = [f \in Files |-> 0]
    /\ changes = <<>>
    /\ jobs = <<>>
    /\ worker = [w \in Workers |-> Idle]
    /\ tasks = <<>>
    /\ doc = [f \in Files |-> 0]
    /\ asked = [r \in Requests |-> NotAsked]
    /\ answers = [r \in Requests |-> <<>>]
    /\ published = [f \in Files |-> <<>>]
    /\ sent = 0

ExecuteOnly(js) == jobs' = jobs \o js
\* The end of handle_event: every event, of whatever kind, queues diagnostics.
ExecuteThenDiagnostics(js) == jobs' = jobs \o js \o <<"diag">>

\* Vfs::set_file_contents: a text equal to the present one is not a change.
SetFileContents(f, v) ==
    /\ contents' = [contents EXCEPT ![f] = v]
    /\ changes' = IF contents[f] = v THEN changes ELSE Append(changes, f)

Notify == sent < MaxSent /\ sent' = sent + 1

----------------------------------------------------------------------------
(* The main loop: messages from the client. *)

DidOpenOnce(f, v) ==
    /\ server = "running"
    /\ Notify
    /\ v \in {doc[f], doc[f] + 1} /\ v > 0
    /\ doc' = [doc EXCEPT ![f] = v]
    /\ IF contents[f] = 0 THEN SetFileContents(f, v) ELSE UNCHANGED <<contents, changes>>
    /\ ExecuteThenDiagnostics(<<>>)
    /\ UNCHANGED <<server, shutdown_requested, incoming, worker, tasks, asked,
                   answers, published>>
\* The client opens a document, or opens it again after closing it.
DidOpen(f, v) ==
    /\ server = "running"
    /\ Notify
    /\ v \in {doc[f], doc[f] + 1} /\ v > 0
    /\ doc' = [doc EXCEPT ![f] = v]
    /\ SetFileContents(f, v)
    /\ ExecuteThenDiagnostics(<<>>)
    /\ UNCHANGED <<server, shutdown_requested, incoming, worker, tasks, asked,
                   answers, published>>

DidChange(f, v) ==
    /\ server = "running"
    /\ Notify
    /\ v \in {doc[f], doc[f] + 1} /\ contents[f] # 0
    /\ doc' = [doc EXCEPT ![f] = v]
    /\ SetFileContents(f, v)
    /\ ExecuteThenDiagnostics(<<>>)
    /\ UNCHANGED <<server, shutdown_requested, incoming, worker, tasks, asked,
                   answers, published>>

\* A uri that is no file path, parameters that do not deserialize, or a didChange
\* for a file that is not in the vfs: the error, or panic, ends the main loop.
FailingNotification ==
    /\ server = "running"
    /\ Stops
    /\ server' = "failed"
    /\ UNCHANGED <<shutdown_requested, incoming, contents, changes, jobs, worker,
                   tasks, client>>

\* didSave, didClose and anything without a handler: logged only.
OtherNotification ==
    /\ server = "running"
    /\ Notify
    /\ ExecuteThenDiagnostics(<<>>)
    /\ UNCHANGED <<server, shutdown_requested, incoming, contents, changes, worker,
                   tasks, doc, asked, answers, published>>

Exit ==
    /\ server = "running"
    /\ Stops
    /\ server' = "exited"
    /\ UNCHANGED <<shutdown_requested, incoming, contents, changes, jobs, worker,
                   tasks, client>>

RespondAlways(r, code, v) ==
    /\ answers' = [answers EXCEPT ![r] = Append(@, [code |-> code, text |-> v])]
    /\ UNCHANGED incoming
\* respond(): nothing is sent for an id that is no longer in the queue.
Respond(r, code, v) ==
    IF r \in incoming
    THEN /\ incoming' = incoming \ {r}
         /\ answers' = [answers EXCEPT ![r] = Append(@, [code |-> code, text |-> v])]
    ELSE UNCHANGED <<incoming, answers>>

\* An answer given on the main thread, right after the id was registered.
RespondNow(r, code) ==
    /\ answers' = [answers EXCEPT ![r] = Append(@, [code |-> code, text |-> 0])]
    /\ UNCHANGED incoming

\* RequestDispatcher: on_sync, on, the error of parse, and finish.
RequestDispatcher(r, m) ==
    \/ /\ m = "shutdown"
       /\ shutdown_requested' = TRUE
       /\ RespondNow(r, "Ok")
       /\ ExecuteThenDiagnostics(<<>>)
    \/ /\ m = "compile"
       /\ incoming' = incoming \cup {r}
       /\ ExecuteThenDiagnostics(<<r>>)
       /\ UNCHANGED <<shutdown_requested, answers>>
    \/ /\ m = "invalid params"
       /\ RespondNow(r, "InvalidParams")
       /\ ExecuteThenDiagnostics(<<>>)
       /\ UNCHANGED shutdown_requested
    \/ /\ m = "unknown"
       /\ RespondNow(r, "MethodNotFound")
       /\ ExecuteThenDiagnostics(<<>>)
       /\ UNCHANGED shutdown_requested
\* on_request after registration: refuse after a shutdown, else RequestDispatcher.
Dispatch(r, m) ==
    \/ /\ shutdown_requested
       /\ RespondNow(r, "InvalidRequest")
       /\ ExecuteThenDiagnostics(<<>>)
       /\ UNCHANGED shutdown_requested
    \/ /\ ~shutdown_requested
       /\ RequestDispatcher(r, m)

\* The client asks about a file; "on request" is logged through the task channel.
Request(r, m, f) ==
    /\ server = "running"
    /\ asked[r] = NotAsked
    /\ asked' = [asked EXCEPT ![r] = [method |-> m, file |-> f, text |-> doc[f],
                                      late |-> shutdown_requested]]
    /\ tasks' = Append(tasks, LogTask)
    /\ Dispatch(r, m)
    /\ UNCHANGED <<server, contents, changes, worker, doc, published, sent>>

\* handle_task, then the end of handle_event.
HandleTask ==
    /\ server = "running"
    /\ tasks # <<>>
    /\ tasks' = Tail(tasks)
    /\ LET t == Head(tasks) IN
       \/ t.type = "log" /\ UNCHANGED <<incoming, answers, published>>
       \/ /\ t.type = "diagnostics"
          /\ published' = [published EXCEPT ![t.file] = Append(@, [text |-> t.text, by |-> t.by])]
          /\ UNCHANGED <<incoming, answers>>
       \/ /\ t.type = "response"
          /\ Respond(t.id, t.code, t.text)
          /\ UNCHANGED published
    /\ ExecuteThenDiagnostics(<<>>)
    /\ UNCHANGED <<server, shutdown_requested, contents, changes, worker, doc,
                   asked, sent>>

----------------------------------------------------------------------------
(* The thread pool. *)

Step(w, from, to) ==
    /\ server = "running"
    /\ worker[w].pc = from
    /\ worker' = [worker EXCEPT ![w] = to]

StartJob(w) ==
    /\ jobs # <<>>
    /\ jobs' = Tail(jobs)
    /\ Step(w, "idle", [Idle EXCEPT !.job = Head(jobs),
                                   !.pc = IF Head(jobs) = "diag" THEN "take" ELSE "compile"])
    /\ UNCHANGED <<server, shutdown_requested, incoming, contents, changes, tasks,
                   client>>

\* handle_diagnostics: take_changes under the write lock.
TakeChanges(w) ==
    /\ changes' = <<>>
    /\ Step(w, "take", IF changes = <<>> THEN Idle
                       ELSE [worker[w] EXCEPT !.pc = "compile", !.files = changes])
    /\ UNCHANGED <<server, shutdown_requested, incoming, contents, jobs, tasks, client>>

FileOf(w) ==
    IF worker[w].job = "diag" THEN Head(worker[w].files) ELSE asked[worker[w].job].file

\* parse_param_and_compile reads the texts under the read lock; the unwrap of
\* load_program ends the job, and the pool replaces the thread.
Compile(w) ==
    /\ worker[w].pc = "compile"
    /\ LET v == contents[FileOf(w)] IN
       Step(w, "compile", IF <<FileOf(w), v>> \in Unloadable THEN Idle
                          ELSE [worker[w] EXCEPT !.pc = "send", !.text = v])
    /\ UNCHANGED <<server, shutdown_requested, incoming, contents, changes, jobs,
                   tasks, client>>

SendResponseOkOnly(w) ==
    LET r == worker[w].job
        found == worker[w].text # 0 \/ asked[r].file \in OnDisk
    IN  /\ r \in Requests
        /\ Step(w, "send", Idle)
        /\ tasks' = IF found THEN Append(tasks, Response(r, "Ok", worker[w].text))
                    ELSE Append(tasks, LogTask)
        /\ UNCHANGED <<server, shutdown_requested, incoming, contents, changes, jobs,
                       client>>
\* The handler of a request: perhaps a log message, then the response.  A file
\* that is neither in the vfs nor on disk is an Err.
SendResponse(w) ==
    LET r == worker[w].job
        found == worker[w].text # 0 \/ asked[r].file \in OnDisk
    IN  /\ r \in Requests
        /\ Step(w, "send", Idle)
        /\ \E log \in {<<>>, <<LogTask>>} :
              /\ ~found => log = <<>>
              /\ tasks' = tasks \o log \o
                   <<Response(r, IF found THEN "Ok" ELSE "InternalError", worker[w].text)>>
        /\ UNCHANGED <<server, shutdown_requested, incoming, contents, changes, jobs,
                       client>>

\* A job that compiles a document once, however often it was changed.
SendDiagnosticsCompiledOnce(w) ==
    /\ worker[w].job = "diag"
    /\ LET rest == Tail(worker[w].files)
           next == IF rest # <<>> /\ Head(rest) = FileOf(w) THEN "send" ELSE "compile"
       IN  Step(w, "send", IF rest = <<>> THEN Idle
                           ELSE [worker[w] EXCEPT !.pc = next, !.files = rest])
    /\ tasks' = Append(tasks, Diagnostics(FileOf(w), worker[w].text, w))
    /\ UNCHANGED <<server, shutdown_requested, incoming, contents, changes, jobs, client>>
SendDiagnostics(w) ==
    /\ worker[w].job = "diag"
    /\ LET rest == Tail(worker[w].files) IN
       Step(w, "send", IF rest = <<>> THEN Idle
                       ELSE [worker[w] EXCEPT !.pc = "compile", !.files = rest])
    /\ tasks' = Append(tasks, Diagnostics(FileOf(w), worker[w].text, w))
    /\ UNCHANGED <<server, shutdown_requested, incoming, contents, changes, jobs, client>>

Work(w) == StartJob(w) \/ TakeChanges(w) \/ Compile(w) \/ SendResponse(w) \/ SendDiagnostics(w)

Client ==
    \/ \E f \in Files, v \in Texts : DidOpen(f, v) \/ DidChange(f, v)
    \/ \E r \in Requests, m \in Methods, f \in Files : Request(r, m, f)
    \/ OtherNotification \/ FailingNotification \/ Exit

Next == Client \/ HandleTask \/ \E w \in Workers : Work(w)

Spec == Init /\ [][Next]_vars

\* Pool threads run, and select! does not pass over a ready task channel for ever.
\* The client is not obliged to send anything.
Fairness == WF_vars(HandleTask) /\ \A w \in Workers : WF_vars(Work(w))
FairSpec == Spec /\ Fairness

----------------------------------------------------------------------------
(* Properties. *)

TaskSet ==
    {LogTask} \cup [type : {"diagnostics"}, file : Files, text : Texts, by : Workers]
    \cup [type : {"response"}, id : Requests, code : Codes, text : Texts]

\* Types; a worker in the middle of a job has the files or the id it works on.
TypeOK ==
    /\ server \in {"running", "exited", "failed"}
    /\ shutdown_requested \in BOOLEAN
    /\ incoming \subseteq Requests
    /\ contents \in [Files -> Texts]
    /\ changes \in Seq(Files)
    /\ jobs \in Seq({"diag"} \cup Requests)
    /\ worker \in [Workers -> [pc : {"idle", "take", "compile", "send"},
                               job : {"none", "diag"} \cup Requests,
                               files : Seq(Files), text : Texts]]
    /\ tasks \in Seq(TaskSet)
    /\ doc \in [Files -> Texts]
    /\ asked \in [Requests -> [method : Methods \cup {"none"}, file : Files \cup {"none"},
                               text : Texts, late : BOOLEAN]]
    /\ answers \in [Requests -> Seq([code : Codes, text : Texts])]
    /\ published \in [Files -> Seq([text : Texts, by : Workers])]
    /\ sent \in Nat
    /\ \A w \in Workers :
          /\ worker[w].pc # "idle" => worker[w].job # "none"
          /\ worker[w].pc \in {"compile", "send"} =>
                 IF worker[w].job = "diag" THEN worker[w].files # <<>>
                 ELSE asked[worker[w].job] # NotAsked

\* A request gets at most one response, whichever of the main thread and the
\* pool answers it, and none while it is still registered.
AnsweredOnce ==
    \A r \in Requests : Len(answers[r]) + (IF r \in incoming THEN 1 ELSE 0) <= 1

\* A request sees every edit sent before it: no answer is computed from a text
\* older than the one in the editor when the client asked.
ReadsOwnEdits ==
    \A r \in Requests : \A i \in 1..Len(answers[r]) :
        answers[r][i].code = "Ok" /\ asked[r].method = "compile"
            => answers[r][i].text >= asked[r].text

\* After `shutdown` was answered every request is refused, and only those; the
\* requests accepted earlier are still answered properly.
RefusedIffLate ==
    \A r \in Requests : \A i \in 1..Len(answers[r]) :
        answers[r][i].code = "InvalidRequest" <=> asked[r].late

\* What an answer says is right: computed from no older text than the client's
\* own, and a refusal only for what came after `shutdown`.
AnswersRight == ReadsOwnEdits /\ RefusedIffLate

Quiet == jobs = <<>> /\ tasks = <<>> /\ \A w \in Workers : worker[w] = Idle

\* Since r was asked its document had a text that load_program cannot load: the
\* job of r may have met it and died of the unwrap.
MayBeLost(r) ==
    LET f == asked[r].file IN
    \E v \in Texts : <<f, v>> \in Unloadable /\ asked[r].text <= v /\ v <= contents[f]

\* The present text of f does not load, or f may have been changed together with
\* a document that did not, whose diagnostics job died before it came to f.
MayBeUnreported(f) ==
    \/ <<f, contents[f]>> \in Unloadable
    \/ \E g \in Files \ {f}, v \in Texts : <<g, v>> \in Unloadable /\ 0 < v /\ v <= contents[g]

\* When the pool and the channel are empty nothing has been forgotten: every
\* request has its answer, no change is left untaken and the present text of
\* every document has its diagnostics, but for what a text that load_program
\* rejects took with it.
NothingForgotten ==
    server = "running" /\ Quiet =>
       /\ changes = <<>>
       /\ \A r \in Requests : asked[r] # NotAsked =>
             \/ r \notin incoming /\ Len(answers[r]) = 1
             \/ r \in incoming /\ MayBeLost(r)
       /\ \A f \in Files : contents[f] # 0 =>
             \/ \E i \in 1..Len(published[f]) : published[f][i].text = contents[f]
             \/ MayBeUnreported(f)

\* Diagnostics carry no version, and with several threads those of an older text
\* may arrive after those of a newer one.  But each thread is late only once:
\* a late report is its sender's first since the newer one was sent, so that a
\* pool of n threads shows a newer text at most n - 1 times in vain.
LateOnce ==
    \A f \in Files : \A i, j \in 1..Len(published[f]) :
       i < j /\ published[f][i].text > published[f][j].text =>
          \A k \in i..(j - 1) : published[f][k].by # published[f][j].by

\* "We register all these request to make sure they all get handled": a request
\* that was accepted is answered unless the server stops or a text of its
\* document does not load.
RequestsHandled ==
    \A r \in Requests :
       r \in incoming ~> (r \notin incoming \/ server # "running" \/ MayBeLost(r))

\* The server comes to rest whenever the client leaves it alone: tasks queue
\* jobs and jobs queue tasks, but not for ever.
ComesToRest == []<>(Quiet \/ server # "running")

\* Every accepted request is answered and the loop of tasks and jobs dies down.
Settles == RequestsHandled /\ ComesToRest
=============================================================================
