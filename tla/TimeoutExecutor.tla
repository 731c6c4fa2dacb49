--------------------------- MODULE TimeoutExecutor ---------------------------
(***************************************************************************)
(* compiler_base/parallel: TimeoutExecutor::run_all_tasks and the worker   *)
(* threads it starts.  The executor is one sequential process (pc); every  *)
(* task is a thread that sends one FinishedTask over the mpsc channel and  *)
(* then ends.  Time is the clock `now`, read by Instant::now().            *)
(***************************************************************************)
EXTENDS Integers, Sequences, FiniteSets

CONSTANTS Tasks,      \* the TaskIds; "should be unique to each Task"
          Order,      \* the slice `tasks`: every task once
          Capacity,   \* thread_count of new_with_thread_count
          Timeout,    \* the 60 seconds of default_deadline_60_seconds
          MaxTime,    \* bound: the clock stops here
          Statuses,   \* the TaskStatus values a task may send
          Outcomes,   \* what notify_what_happened may return
          Crashes,    \* where a task's run() may panic: "before"/"after" its send
          Stuck       \* tasks whose run() need never send (no fairness)

ASSUME OrderAssumption ==
    /\ Order \in Seq(Tasks)
    /\ \A i, j \in 1..Len(Order) : Order[i] = Order[j] => i = j
    /\ \A t \in Tasks : \E i \in 1..Len(Order) : Order[i] = t
ASSUME CapacityAssumption == Capacity \in Nat \ {0}
ASSUME TimeAssumption == Timeout \in Nat /\ MaxTime \in Nat
ASSUME ValueAssumption ==
    /\ Statuses \subseteq {"Finished", "Waiting", "Failed", "Bug"}
    /\ Outcomes \subseteq {"Ok", "Err"}
    /\ Crashes \subseteq {"before", "after"}
    /\ Stuck \subseteq Tasks

VARIABLES
    pc,             \* where run_all_tasks is
    waiting_tasks,  \* VecDeque of the tasks not loaded yet
    loading,        \* the task popped and announced but not started, with its deadline
    running_tasks,  \* keys of the HashMap<TaskId, RunningTask>
    running_count,
    timeout_queue,  \* VecDeque<TimeoutSituation>
    timeout,        \* the local `timeout`: how long recv_timeout may block
    wake,           \* the instant at which recv_timeout gives up
    res,            \* result of the last receive: a message or NoResult
    timed_out,      \* infos still to be reported by the `for` over expired tasks
    channel,        \* messages in the mpsc channel
    rx,             \* the receiver: open, dropped or forgotten (leaked)
    thread,         \* state of every task's thread
    now,            \* the clock
    log,            \* the TaskEvents handed to notify_what_happened
    startedAt       \* history: when start_task spawned the thread

vars == <<pc, waiting_tasks, loading, running_tasks, running_count,
          timeout_queue, timeout, wake, res, timed_out, channel, rx, thread,
          now, log, startedAt>>

NoResult == [task |-> "none", status |-> "none"]
NoTask   == [task |-> "none", deadline |-> 0]

Event(t, ty, secs) == [task |-> t, ty |-> ty, secs |-> secs]

Init ==
    /\ pc = "loop"
    /\ waiting_tasks = Order
    /\ loading = NoTask
    /\ running_tasks = {}
    /\ running_count = 0
    /\ timeout_queue = <<>>
    /\ timeout = 0
    /\ wake = 0
    /\ res = NoResult
    /\ timed_out = <<>>
    /\ channel = <<>>
    /\ rx = "open"
    /\ thread = [t \in Tasks |-> "none"]
    /\ now = 0
    /\ log = <<>>
    /\ startedAt = [t \in Tasks |-> 0]

----------------------------------------------------------------------------
(* The executor. *)

HasRoomOffByOne == running_count <= Capacity /\ waiting_tasks # <<>>
HasRoom == running_count < Capacity /\ waiting_tasks # <<>>

\* Every early return through `?` drops the receiver with the other locals.
NotifyFailed == pc' = "err" /\ rx' = "dropped"

\* Pop a task, fix its deadline and announce it: the deadline is taken before
\* the notification, so time spent there counts against the task.
LoadTask(r) ==
    /\ pc = "loop"
    /\ HasRoom
    /\ waiting_tasks' = Tail(waiting_tasks)
    /\ loading' = [task |-> Head(waiting_tasks), deadline |-> now + Timeout]
    /\ log' = Append(log, Event(Head(waiting_tasks), "Wait", 0))
    /\ \/ r = "Ok" /\ pc' = "spawn" /\ UNCHANGED rx
       \/ r = "Err" /\ NotifyFailed
    /\ UNCHANGED <<running_tasks, running_count, timeout_queue, timeout, wake,
                   res, timed_out, channel, thread, now, startedAt>>

StartTaskForgetsHandle ==
    /\ pc = "spawn"
    /\ thread' = [thread EXCEPT ![loading.task] = "running"]
    /\ startedAt' = [startedAt EXCEPT ![loading.task] = now]
    /\ timeout_queue' = Append(timeout_queue, loading)
    /\ running_count' = running_count + 1
    /\ loading' = NoTask
    /\ pc' = "loop"
    /\ UNCHANGED <<running_tasks, waiting_tasks, timeout, wake, res, timed_out, channel, rx,
                   now, log>>
\* start_task, and the bookkeeping after it.
StartTask ==
    /\ pc = "spawn"
    /\ thread' = [thread EXCEPT ![loading.task] = "running"]
    /\ startedAt' = [startedAt EXCEPT ![loading.task] = now]
    /\ running_tasks' = running_tasks \cup {loading.task}
    /\ timeout_queue' = Append(timeout_queue, loading)
    /\ running_count' = running_count + 1
    /\ loading' = NoTask
    /\ pc' = "loop"
    /\ UNCHANGED <<waiting_tasks, timeout, wake, res, timed_out, channel, rx,
                   now, log>>

\* deadline(): how long until the front of the queue times out.
Deadline ==
    LET d == Head(timeout_queue).deadline
    IN  IF d >= now THEN d - now ELSE 0

BeginWaitNoTimeout ==
    /\ \/ pc = "loop" /\ ~HasRoom /\ running_count > 0
       \/ pc = "again"
    /\ pc' = "recv"
    /\ UNCHANGED <<waiting_tasks, loading, running_tasks, running_count,
                   timeout_queue, timeout, wake, res, timed_out, channel, rx,
                   thread, now, log, startedAt>>
\* Top of the inner wait loop: choose between recv_timeout and recv.
BeginWait ==
    /\ \/ pc = "loop" /\ ~HasRoom /\ running_count > 0
       \/ pc = "again"
    /\ \/ /\ timeout_queue # <<>>
          /\ timeout' = Deadline
          /\ wake' = now + Deadline
          /\ pc' = "recv_timeout"
       \/ /\ timeout_queue = <<>>
          /\ pc' = "recv"
          /\ UNCHANGED <<timeout, wake>>
    /\ UNCHANGED <<waiting_tasks, loading, running_tasks, running_count,
                   timeout_queue, res, timed_out, channel, rx, thread, now, log,
                   startedAt>>

\* Blocking rx.recv(): the executor holds a Sender, so it never disconnects.
Recv ==
    /\ pc = "recv"
    /\ channel # <<>>
    /\ res' = Head(channel)
    /\ channel' = Tail(channel)
    /\ pc' = "join"
    /\ UNCHANGED <<waiting_tasks, loading, running_tasks, running_count,
                   timeout_queue, timeout, wake, timed_out, rx, thread, now, log,
                   startedAt>>

\* rx.recv_timeout(timeout): a message if there is one, else give up at wake.
RecvTimeout ==
    /\ pc = "recv_timeout"
    /\ \/ /\ channel # <<>>
          /\ res' = Head(channel)
          /\ channel' = Tail(channel)
       \/ /\ channel = <<>>
          /\ now >= wake
          /\ res' = NoResult
          /\ UNCHANGED channel
    /\ pc' = "sweep"
    /\ UNCHANGED <<waiting_tasks, loading, running_tasks, running_count,
                   timeout_queue, timeout, wake, timed_out, rx, thread, now, log,
                   startedAt>>

\* all_timed_out_tasks_info: pop the front entries until one is not due yet.
\* The code drops the entries whose task is no longer in running_tasks here;
\* ReportTimeout skips them, and running_tasks does not change in between.
AllTimedOutTasksInfo ==
    /\ pc = "sweep"
    /\ \E n \in 0..Len(timeout_queue) :
          /\ \A i \in 1..n : timeout_queue[i].deadline <= now
          /\ n < Len(timeout_queue) => now < timeout_queue[n + 1].deadline
          /\ timeout_queue' = SubSeq(timeout_queue, n + 1, Len(timeout_queue))
          /\ timed_out' = SubSeq(timeout_queue, 1, n)
    /\ pc' = "report"
    /\ UNCHANGED <<waiting_tasks, loading, running_tasks, running_count, timeout,
                   wake, res, channel, rx, thread, now, log, startedAt>>

StillRunningUnchecked(e) == TRUE
StillRunning(e) == e.task \in running_tasks

\* The duration in the event is the wait just made, not the task's 60 seconds.
ReportedSecs == timeout

\* One iteration of the `for` that notifies TaskEvent::time_out.
ReportTimeout(r) ==
    /\ pc = "report"
    /\ timed_out # <<>>
    /\ timed_out' = Tail(timed_out)
    /\ \/ /\ StillRunning(Head(timed_out))
          /\ log' = Append(log, Event(Head(timed_out).task, "Timeout", ReportedSecs))
          /\ \/ r = "Ok" /\ UNCHANGED <<pc, rx>>
             \/ r = "Err" /\ NotifyFailed
       \/ /\ ~StillRunning(Head(timed_out))
          /\ UNCHANGED <<log, pc, rx>>
    /\ UNCHANGED <<waiting_tasks, loading, running_tasks, running_count,
                   timeout_queue, timeout, wake, res, channel, thread, now,
                   startedAt>>

EndReportLosesResult ==
    /\ pc = "report"
    /\ timed_out = <<>>
    /\ pc' = "again"
    /\ UNCHANGED <<waiting_tasks, loading, running_tasks, running_count,
                   timeout_queue, timeout, wake, res, timed_out, channel, rx,
                   thread, now, log, startedAt>>
\* End of the wait loop's body: break with a result, or go round again.
EndReport ==
    /\ pc = "report"
    /\ timed_out = <<>>
    /\ pc' = IF res = NoResult THEN "again" ELSE "join"
    /\ UNCHANGED <<waiting_tasks, loading, running_tasks, running_count,
                   timeout_queue, timeout, wake, res, timed_out, channel, rx,
                   thread, now, log, startedAt>>

\* std::mem::forget(rx), then bail!: threads can still send.
Bail == pc' = "err" /\ rx' = "leaked"

\* RunningTask::join: a thread that panicked after reporting success is a bug.
JoinStatus ==
    IF thread[res.task] = "panicked" /\ res.status = "Finished"
    THEN "Bug" ELSE res.status

\* running_tasks.remove, join (blocks until the thread has ended), and the
\* verdict: a bug leaks the receiver and bails, anything else is announced.
FinishTask(r) ==
    /\ pc = "join"
    /\ thread[res.task] \in {"ended", "panicked"}
    /\ running_tasks' = running_tasks \ {res.task}
    /\ res' = NoResult
    /\ \/ /\ JoinStatus = "Bug"
          /\ Bail
          /\ UNCHANGED <<log, running_count>>
       \/ /\ JoinStatus # "Bug"
          /\ log' = Append(log, Event(res.task, "Finished", 0))
          /\ \/ r = "Ok" /\ pc' = "loop" /\ running_count' = running_count - 1 /\ UNCHANGED rx
             \/ r = "Err" /\ NotifyFailed /\ UNCHANGED running_count
    /\ UNCHANGED <<waiting_tasks, loading, timeout_queue, timeout, wake,
                   timed_out, channel, thread, now, startedAt>>

\* Negation of the outer loop's condition.
AllHandled == running_count = 0 /\ waiting_tasks = <<>>

\* The outer loop ends: Ok(()), and the receiver is dropped with the frame.
ReturnOk ==
    /\ pc = "loop"
    /\ AllHandled
    /\ pc' = "ok"
    /\ rx' = "dropped"
    /\ UNCHANGED <<waiting_tasks, loading, running_tasks, running_count,
                   timeout_queue, timeout, wake, res, timed_out, channel, thread,
                   now, log, startedAt>>

Executor ==
    \/ \E r \in Outcomes : LoadTask(r) \/ ReportTimeout(r) \/ FinishTask(r)
    \/ StartTask \/ BeginWait \/ Recv \/ RecvTimeout \/ AllTimedOutTasksInfo
    \/ EndReport \/ ReturnOk

----------------------------------------------------------------------------
(* The task threads and the clock. *)

executorVars == <<pc, waiting_tasks, loading, running_tasks, running_count,
                  timeout_queue, timeout, wake, res, timed_out, rx, log,
                  startedAt>>

\* ch.send(result).unwrap(): panics when the receiver has been dropped.
Send(t, s) ==
    /\ thread[t] = "running"
    /\ \/ /\ rx # "dropped"
          /\ channel' = Append(channel, [task |-> t, status |-> s])
          /\ thread' = [thread EXCEPT ![t] = "sent"]
       \/ /\ rx = "dropped"
          /\ thread' = [thread EXCEPT ![t] = "panicked"]
          /\ UNCHANGED channel
    /\ UNCHANGED <<executorVars, now>>

\* run() panics before it has sent anything: nothing reaches the channel.
CrashBeforeSend(t) ==
    /\ "before" \in Crashes
    /\ thread[t] = "running"
    /\ thread' = [thread EXCEPT ![t] = "panicked"]
    /\ UNCHANGED <<executorVars, channel, now>>

\* The thread ends after its send, normally or by a panic.
EndThread(t) ==
    /\ thread[t] = "sent"
    /\ \E end \in {"ended"} \cup (IF "after" \in Crashes THEN {"panicked"} ELSE {}) :
          thread' = [thread EXCEPT ![t] = end]
    /\ UNCHANGED <<executorVars, channel, now>>

Thread(t) ==
    \/ \E s \in Statuses : Send(t, s)
    \/ CrashBeforeSend(t)
    \/ EndThread(t)

Tick ==
    /\ now < MaxTime
    /\ now' = now + 1
    /\ UNCHANGED <<executorVars, channel, thread>>

Next == Executor \/ (\E t \in Tasks : Thread(t)) \/ Tick

\* The executor's own thread and the clock keep going; a task's thread keeps
\* going unless its run() is one of the stuck ones, which may never send.
Fairness ==
    /\ WF_vars(Executor)
    /\ WF_vars(Tick)
    /\ \A t \in Tasks : WF_vars(EndThread(t))
    /\ \A t \in Tasks \ Stuck : WF_vars(Thread(t))

Spec == Init /\ [][Next]_vars
FairSpec == Spec /\ Fairness
----------------------------------------------------------------------------
(* Properties. *)

Results == [task : Tasks, status : {"Finished", "Waiting", "Failed", "Bug"}]
Situations == [task : Tasks, deadline : Nat]
Events == [task : Tasks, ty : {"Wait", "Timeout", "Finished"}, secs : Nat]

\* The variables keep the types of the code's; the duration handed to
\* recv_timeout is never negative, the case Duration subtraction panics on.
TypeOK ==
    /\ pc \in {"loop", "spawn", "again", "recv", "recv_timeout", "sweep",
               "report", "join", "ok", "err"}
    /\ waiting_tasks \in Seq(Tasks)
    /\ loading \in Situations \cup {NoTask}
    /\ running_tasks \in SUBSET Tasks
    /\ running_count \in Nat
    /\ timeout_queue \in Seq(Situations)
    /\ timeout \in Nat
    /\ wake \in Nat
    /\ res \in Results \cup {NoResult}
    /\ timed_out \in Seq(Situations)
    /\ channel \in Seq(Results)
    /\ rx \in {"open", "dropped", "leaked"}
    /\ thread \in [Tasks -> {"none", "running", "sent", "ended", "panicked"}]
    /\ now \in Nat
    /\ log \in Seq(Events)
    /\ startedAt \in [Tasks -> Nat]

Live == {t \in Tasks : thread[t] \in {"running", "sent"}}

\* run_all_tasks never has more task threads alive than concurrency_capacity(),
\* whatever order results arrive in and also after it has given up.
ThreadBound == Cardinality(Live) <= Capacity

\* Every result received or still in the channel belongs to a task with a
\* RunningTask entry and a thread that has sent: the panic!("size id ...")
\* of the failed running_tasks.remove is unreachable.
NoOrphanResult ==
    pc \notin {"ok", "err"} =>
      /\ \A i \in 1..Len(channel) : channel[i].task \in running_tasks
      /\ res # NoResult => res.task \in running_tasks

Rank(e) == CASE e.ty = "Wait" -> 0 [] e.ty = "Timeout" -> 1 [] e.ty = "Finished" -> 2

\* For every task the notifier sees Wait once, then at most one Timeout, then
\* at most one Finished, although timeouts and results race.
EventOrder ==
    \A i, j \in 1..Len(log) :
       (i < j /\ log[i].task = log[j].task) => Rank(log[i]) < Rank(log[j])

\* "It's been running for over {} seconds": the number reported with a Timeout
\* event never exceeds the time since the task's thread was started.
TimeoutSound ==
    \A i \in 1..Len(log) :
       log[i].ty = "Timeout" => startedAt[log[i].task] + log[i].secs <= now

\* Ok(()) means that every task was announced as finished and that no thread
\* that reported success went on to panic.
OkMeansAllFinished ==
    pc = "ok" => \A t \in Tasks :
      /\ \E i \in 1..Len(log) : log[i].task = t /\ log[i].ty = "Finished"
      /\ thread[t] \in {"ended", "panicked"}

\* The books of run_all_tasks agree with the threads: no more alive than the
\* capacity, an entry for every result, and none left when it returns Ok.
ThreadsAccounted == ThreadBound /\ NoOrphanResult /\ OkMeansAllFinished

\* What the notifier is told of a task is true and comes in order, although
\* timeouts and results race.
EventsHonest == EventOrder /\ TimeoutSound

\* run_all_tasks returns, unless one of the tasks that need never send never does.
Terminates ==
    \/ <>(pc \in {"ok", "err"})
    \/ <>[](\E t \in Stuck : thread[t] = "running")

Reported(t) == \E i \in 1..Len(log) : log[i].task = t /\ log[i].ty = "Timeout"

\* A task that is still running when its deadline has passed is reported as
\* timed out (or finishes, or the run is over), even if no result ever comes.
OverdueIsReported ==
    \A t \in Tasks :
      (t \in running_tasks /\ now >= startedAt[t] + Timeout)
         ~> (Reported(t) \/ t \notin running_tasks \/ pc \in {"ok", "err"})

\* While a task's handle is kept, a result it has sent is in the channel or in hand.
NoResultLost ==
    pc \notin {"ok", "err"} => \A t \in running_tasks : thread[t] \in {"sent", "ended"} =>
        \/ \E i \in 1..Len(channel) : channel[i].task = t
        \/ res # NoResult /\ res.task = t

\* The executor waits only while a result can still come or its thread panicked
\* unheard, and without a time limit only when every task it waits for has been
\* reported as timed out.
WaitsInformed ==
    /\ NoResultLost
    /\ pc \in {"recv", "recv_timeout"} => running_tasks # {}
    /\ pc = "recv" => \A t \in running_tasks : Reported(t)

\* TimeoutExecutor implements TaskPool: a task is in hand from its Wait
\* announcement until its Finished announcement.
Announced == {t \in Tasks : \E i \in 1..Len(log) : log[i].task = t /\ log[i].ty = "Wait"}
Finished == {t \in Tasks : \E i \in 1..Len(log) : log[i].task = t /\ log[i].ty = "Finished"}

Pool == INSTANCE TaskPool WITH
          todo    <- waiting_tasks,
          active  <- Announced \ Finished,
          done    <- Finished,
          verdict <- IF pc \in {"ok", "err"} THEN pc ELSE "running"

ImplementsTaskPool == Pool!Spec
=============================================================================
