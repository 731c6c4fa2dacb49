----------------------- MODULE TimeoutExecutorProofs -----------------------
(* Theorems about TimeoutExecutor, for every set of tasks and capacity. *)
EXTENDS TimeoutExecutor, FiniteSetTheorems, TLAPS

Busy == pc \in {"again", "recv", "recv_timeout", "sweep", "report", "join"}

\* Type correctness is preserved once loading and res hold real tasks where
\* the code dereferences them: "spawn" follows a pop, "join" follows a receive.
InHand ==
    /\ pc = "spawn" => loading \in Situations
    /\ Busy => running_count > 0
    /\ pc \in {"sweep", "report"} => res = NoResult \/ res \in Results
    /\ pc = "join" => res \in Results

\* run_all_tasks starts with nothing in hand.
LEMMA TypeInit == Init => TypeOK /\ InHand
  BY OrderAssumption, TimeAssumption
  DEF OrderAssumption, TimeAssumption, Init, TypeOK, InHand, Busy, NoTask, NoResult, Situations, Results, Events

\* Every step of the executor, of a task's thread and of the clock keeps the types.
LEMMA TypeStep == TypeOK /\ InHand /\ [Next]_vars => TypeOK' /\ InHand'
  <1> SUFFICES ASSUME TypeOK, InHand, [Next]_vars PROVE TypeOK' /\ InHand'
    OBVIOUS
  <1> USE TimeAssumption DEF TimeAssumption
  <1>1. ASSUME NEW r \in Outcomes, LoadTask(r) PROVE TypeOK' /\ InHand'
    <2>1. Head(waiting_tasks) \in Tasks /\ Tail(waiting_tasks) \in Seq(Tasks)
      BY <1>1 DEF LoadTask, HasRoom, TypeOK
    <2>2. loading' \in Situations
      BY <1>1, <2>1 DEF LoadTask, Situations, TypeOK
    <2>3. log' \in Seq(Events)
      BY <1>1, <2>1 DEF LoadTask, Event, Events, TypeOK
    <2> QED
      BY <1>1, <2>1, <2>2, <2>3 DEF LoadTask, NotifyFailed, TypeOK, InHand, Busy
  <1>2. ASSUME NEW r \in Outcomes, ReportTimeout(r) PROVE TypeOK' /\ InHand'
    <2>1. Head(timed_out) \in Situations /\ Tail(timed_out) \in Seq(Situations)
      BY <1>2 DEF ReportTimeout, TypeOK
    <2>2. Event(Head(timed_out).task, "Timeout", ReportedSecs) \in Events
      BY <2>1 DEF ReportedSecs, Event, Events, Situations, TypeOK
    <2>3. log' \in Seq(Events)
      <3>1. log \in Seq(Events) BY DEF TypeOK
      <3>2. Append(log, Event(Head(timed_out).task, "Timeout", ReportedSecs)) \in Seq(Events)
        BY <2>2, <3>1
      <3> QED BY <1>2, <3>1, <3>2 DEF ReportTimeout
    <2> QED
      BY <1>2, <2>1, <2>3 DEF ReportTimeout, NotifyFailed, TypeOK, InHand, Busy
  <1>3. ASSUME NEW r \in Outcomes, FinishTask(r) PROVE TypeOK' /\ InHand'
    <2>1. res \in Results /\ log \in Seq(Events)
      BY <1>3 DEF FinishTask, InHand, TypeOK
    <2>2. Event(res.task, "Finished", 0) \in Events
      BY <2>1 DEF Event, Events, Results
    <2>3. log' \in Seq(Events)
      BY <1>3, <2>1, <2>2 DEF FinishTask
    <2>4. running_count' \in Nat /\ running_tasks' \in SUBSET Tasks
      BY <1>3 DEF FinishTask, TypeOK, InHand, Busy
    <2> QED
      BY <1>3, <2>3, <2>4 DEF FinishTask, Bail, NotifyFailed, TypeOK, InHand, Busy
  <1>4. CASE StartTask
    BY <1>4 DEF StartTask, TypeOK, InHand, Situations, Busy
  <1>5. CASE BeginWait
    <2>1. ASSUME timeout_queue # <<>> PROVE Deadline \in Nat
      <3>1. timeout_queue \in Seq(Situations) /\ now \in Nat
        BY DEF TypeOK
      <3>2. Head(timeout_queue) \in Situations
        BY <2>1, <3>1
      <3> QED BY <3>1, <3>2 DEF Deadline, Situations
    <2> QED
      BY <1>5, <2>1 DEF BeginWait, TypeOK, InHand, Busy
  <1>6. CASE Recv
    BY <1>6 DEF Recv, TypeOK, InHand, Busy
  <1>7. CASE RecvTimeout
    <2>1. channel # <<>> => Head(channel) \in Results /\ Tail(channel) \in Seq(Results)
      BY DEF TypeOK
    <2> QED
      BY <1>7, <2>1 DEF RecvTimeout, TypeOK, InHand, Busy
  <1>8. CASE AllTimedOutTasksInfo
    <2>1. timeout_queue' \in Seq(Situations) /\ timed_out' \in Seq(Situations)
      BY <1>8 DEF AllTimedOutTasksInfo, TypeOK
    <2> QED
      BY <1>8, <2>1 DEF AllTimedOutTasksInfo, TypeOK, InHand, Busy
  <1>9. CASE EndReport
    BY <1>9 DEF EndReport, TypeOK, InHand, Busy
  <1>10. CASE ReturnOk
    BY <1>10 DEF ReturnOk, TypeOK, InHand, Busy
  <1>11. ASSUME NEW t \in Tasks, Thread(t) PROVE TypeOK' /\ InHand'
    <2>1. CASE \E s \in Statuses : Send(t, s)
      <3>1. PICK s \in Statuses : Send(t, s)
        BY <2>1
      <3>2. [task |-> t, status |-> s] \in Results
        BY ValueAssumption DEF ValueAssumption, Results
      <3>3. channel' \in Seq(Results)
        <4>1. channel \in Seq(Results) BY DEF TypeOK
        <4>2. Append(channel, [task |-> t, status |-> s]) \in Seq(Results) BY <3>2, <4>1
        <4> QED BY <3>1, <4>1, <4>2 DEF Send
      <3> QED
        BY <3>1, <3>3 DEF Send, executorVars, TypeOK, InHand, Busy
    <2>2. CASE CrashBeforeSend(t)
      BY <2>2 DEF CrashBeforeSend, executorVars, TypeOK, InHand, Busy
    <2>3. CASE EndThread(t)
      BY <2>3 DEF EndThread, executorVars, TypeOK, InHand, Busy
    <2> QED
      BY <1>11, <2>1, <2>2, <2>3 DEF Thread
  <1>12. CASE Tick
    BY <1>12 DEF Tick, executorVars, TypeOK, InHand, Busy
  <1>13. CASE UNCHANGED vars
    BY <1>13 DEF vars, TypeOK, InHand, Busy
  <1> QED
    BY <1>1, <1>2, <1>3, <1>4, <1>5, <1>6, <1>7, <1>8, <1>9, <1>10, <1>11, <1>12, <1>13
    DEF Next, Executor

\* run_all_tasks keeps the types of its state; in particular the duration it
\* passes to recv_timeout is never negative.
THEOREM TypeCorrect == Spec => []TypeOK
  BY TypeInit, TypeStep, PTL DEF Spec

----------------------------------------------------------------------------
(* The inductive invariant behind ThreadsAccounted, EventsHonest and the    *)
(* refinement of TaskPool.                                                  *)

Over == pc \in {"ok", "err"}

\* running_count is the budget: it never falls below the handles that are held,
\* a live thread always has a handle, and a popped task has a free place.
Budget ==
    /\ IsFiniteSet(running_tasks)
    /\ Cardinality(running_tasks) <= running_count
    /\ running_count <= Capacity
    /\ pc = "spawn" => running_count < Capacity
    /\ \A t \in Tasks : thread[t] \in {"running", "sent"} => t \in running_tasks

\* A task has at most one message, received or in the channel, and only after
\* its thread has sent; its handle is still there.
Mail ==
    ~Over =>
      /\ \A i \in 1..Len(channel) : channel[i].task \in running_tasks
      /\ \A i \in 1..Len(channel) : thread[channel[i].task] # "running"
      /\ \A i, j \in 1..Len(channel) : channel[i].task = channel[j].task => i = j
      /\ res # NoResult => res.task \in running_tasks /\ thread[res.task] # "running"
      /\ res # NoResult => \A i \in 1..Len(channel) : channel[i].task # res.task

Done(t) == \E i \in 1..Len(log) : log[i].task = t /\ log[i].ty = "Finished"

\* Every task is in one place: waiting, just popped, running or finished.
Places ==
    /\ \A i, j \in 1..Len(waiting_tasks) : waiting_tasks[i] = waiting_tasks[j] => i = j
    /\ \A i \in 1..Len(waiting_tasks) : thread[waiting_tasks[i]] = "none"
    /\ pc = "spawn" => /\ thread[loading.task] = "none"
                       /\ \A i \in 1..Len(waiting_tasks) : waiting_tasks[i] # loading.task
    /\ \A t \in running_tasks : thread[t] # "none"
    /\ pc # "err" => \A t \in Tasks :
          \/ \E i \in 1..Len(waiting_tasks) : waiting_tasks[i] = t
          \/ pc = "spawn" /\ loading.task = t
          \/ t \in running_tasks
          \/ Done(t) /\ thread[t] \in {"ended", "panicked"}
    /\ pc = "ok" => waiting_tasks = <<>> /\ running_count = 0

\* A started task has at most one deadline queued or about to be reported.
Queued ==
    /\ \A i \in 1..Len(timeout_queue) : thread[timeout_queue[i].task] # "none"
    /\ \A i, j \in 1..Len(timeout_queue) :
          timeout_queue[i].task = timeout_queue[j].task => i = j
    /\ pc = "report" =>
          /\ \A i \in 1..Len(timed_out) : thread[timed_out[i].task] # "none"
          /\ \A i, j \in 1..Len(timed_out) : timed_out[i].task = timed_out[j].task => i = j
          /\ \A i \in 1..Len(timed_out), j \in 1..Len(timeout_queue) :
                timed_out[i].task # timeout_queue[j].task

\* What the log can already say of a task, by the place the task is in.
Told ==
    /\ EventOrder
    /\ \A k \in 1..Len(log) : \A i \in 1..Len(waiting_tasks) : log[k].task # waiting_tasks[i]
    /\ pc = "spawn" => /\ \A k \in 1..Len(log) : log[k].task = loading.task => log[k].ty = "Wait"
                       /\ \E k \in 1..Len(log) : log[k].task = loading.task
    /\ \A t \in running_tasks :
          /\ \A k \in 1..Len(log) : log[k].task = t => log[k].ty # "Finished"
          /\ \E k \in 1..Len(log) : log[k].task = t /\ log[k].ty = "Wait"
    /\ \A k \in 1..Len(log) : \A i \in 1..Len(timeout_queue) :
          log[k].task = timeout_queue[i].task => log[k].ty # "Timeout"
    /\ pc = "report" => \A k \in 1..Len(log) : \A i \in 1..Len(timed_out) :
          log[k].task = timed_out[i].task => log[k].ty # "Timeout"

\* The queue is ordered by deadline, so whatever is swept is due no earlier
\* than the instant up to which the executor has waited.
Clock ==
    /\ \A t \in Tasks : startedAt[t] <= now
    /\ \A i \in 1..Len(timeout_queue) : timeout_queue[i].deadline <= now + Timeout
    /\ \A i, j \in 1..Len(timeout_queue) :
          i < j => timeout_queue[i].deadline <= timeout_queue[j].deadline
    /\ pc = "spawn" => /\ loading.deadline <= now + Timeout
                       /\ \A i \in 1..Len(timeout_queue) :
                             timeout_queue[i].deadline <= loading.deadline
    /\ pc \in {"recv_timeout", "sweep", "report"} =>
          \A t \in Tasks : startedAt[t] + timeout <= wake
    /\ pc \in {"recv_timeout", "sweep"} =>
          wake <= now \/ \A i \in 1..Len(timeout_queue) : wake <= timeout_queue[i].deadline
    /\ pc = "report" /\ timed_out # <<>> => wake <= now
    /\ TimeoutSound

IInv == TypeOK /\ InHand /\ Budget /\ Mail /\ Places /\ Queued /\ Told /\ Clock

\* What pop_front leaves of a VecDeque.
LEMMA TailFacts ==
  ASSUME NEW S, NEW s \in Seq(S), s # <<>>
  PROVE  /\ Head(s) = s[1] /\ Head(s) \in S /\ 1 \in 1..Len(s)
         /\ Tail(s) \in Seq(S) /\ Len(Tail(s)) = Len(s) - 1
         /\ \A i \in 1..Len(Tail(s)) : Tail(s)[i] = s[i + 1] /\ i + 1 \in 1..Len(s)
  OBVIOUS

\* What push_back adds to one.
LEMMA AppendFacts ==
  ASSUME NEW S, NEW s \in Seq(S), NEW e \in S
  PROVE  /\ Append(s, e) \in Seq(S) /\ Len(Append(s, e)) = Len(s) + 1
         /\ Append(s, e)[Len(s) + 1] = e
         /\ \A i \in 1..Len(s) : Append(s, e)[i] = s[i]
         /\ \A i \in 1..Len(Append(s, e)) : i \in 1..Len(s) \/ i = Len(s) + 1
  OBVIOUS

\* The sweep splits the queue in two.
LEMMA SplitFacts ==
  ASSUME NEW S, NEW s \in Seq(S), NEW n \in 0..Len(s)
  PROVE  /\ Len(SubSeq(s, 1, n)) = n
         /\ \A i \in 1..n : SubSeq(s, 1, n)[i] = s[i] /\ i \in 1..Len(s)
         /\ Len(SubSeq(s, n + 1, Len(s))) = Len(s) - n
         /\ \A i \in 1..(Len(s) - n) : SubSeq(s, n + 1, Len(s))[i] = s[i + n] /\ i + n \in 1..Len(s)
  OBVIOUS

\* run_all_tasks starts with the whole budget free and nothing said.
LEMMA InvInit == Init => IInv
  <1> SUFFICES ASSUME Init PROVE IInv
    OBVIOUS
  <1>1. TypeOK /\ InHand
    BY TypeInit
  <1>2. Budget
    <2>1. IsFiniteSet(running_tasks) /\ Cardinality(running_tasks) = 0
      BY FS_EmptySet DEF Init
    <2> QED BY <2>1, CapacityAssumption DEF CapacityAssumption, Init, Budget
  <1>3. Mail
    BY DEF Init, Mail, NoResult
  <1>4. Places
    BY OrderAssumption DEF OrderAssumption, Init, Places
  <1>5. Queued /\ Told
    BY DEF Init, Queued, Told, EventOrder
  <1>6. Clock
    BY TimeAssumption DEF TimeAssumption, Init, Clock, TimeoutSound
  <1> QED
    BY <1>1, <1>2, <1>3, <1>4, <1>5, <1>6 DEF IInv

\* The budget: a handle is added only where a place is free, and the count
\* goes down only after the handle has gone.
LEMMA BudgetStep == IInv /\ [Next]_vars => Budget'
  <1> SUFFICES ASSUME IInv, [Next]_vars PROVE Budget'
    OBVIOUS
  <1>t. running_count \in Nat /\ Capacity \in Nat \ {0} /\ running_tasks \in SUBSET Tasks
        /\ thread \in [Tasks -> {"none", "running", "sent", "ended", "panicked"}]
    BY CapacityAssumption DEF CapacityAssumption, IInv, TypeOK
  <1>b. /\ IsFiniteSet(running_tasks)
        /\ Cardinality(running_tasks) <= running_count
        /\ running_count <= Capacity
        /\ pc = "spawn" => running_count < Capacity
        /\ \A t \in Tasks : thread[t] \in {"running", "sent"} => t \in running_tasks
    BY DEF IInv, Budget
  <1>c. Cardinality(running_tasks) \in Nat
    BY <1>b, FS_CardinalityType
  <1>f. ASSUME UNCHANGED <<running_tasks, running_count, thread>>, pc' # "spawn" PROVE Budget'
    BY <1>b, <1>f DEF Budget
  <1>1. ASSUME NEW r \in Outcomes, LoadTask(r) PROVE Budget'
    BY <1>1, <1>b, <1>t DEF LoadTask, HasRoom, NotifyFailed, Budget
  <1>2. ASSUME NEW r \in Outcomes, ReportTimeout(r) PROVE Budget'
    BY <1>2, <1>f DEF ReportTimeout, NotifyFailed
  <1>3. ASSUME NEW r \in Outcomes, FinishTask(r) PROVE Budget'
    <2>1. res \in Results /\ res.task \in running_tasks
      <3>1. res \in Results /\ ~Over
        BY <1>3 DEF FinishTask, IInv, InHand, Over
      <3>2. res # NoResult
        BY <3>1 DEF Results, NoResult
      <3> QED BY <3>1, <3>2 DEF IInv, Mail
    <2>2. /\ IsFiniteSet(running_tasks')
          /\ Cardinality(running_tasks') = Cardinality(running_tasks) - 1
      <3>1. running_tasks' = running_tasks \ {res.task}
        BY <1>3 DEF FinishTask
      <3> QED BY <3>1, <2>1, <1>b, FS_RemoveElement
    <2>3. running_count' \in Nat /\ Cardinality(running_tasks') <= running_count' /\ running_count' <= Capacity
      <3>1. running_count' = running_count \/ running_count' = running_count - 1
        BY <1>3 DEF FinishTask
      <3>2. running_count > 0
        BY <1>3 DEF FinishTask, IInv, InHand, Busy
      <3> QED BY <2>2, <3>1, <3>2, <1>b, <1>c, <1>t
    <2>4. \A t \in Tasks : thread'[t] \in {"running", "sent"} => t \in running_tasks'
      BY <1>3, <1>b DEF FinishTask
    <2>5. pc' # "spawn"
      BY <1>3 DEF FinishTask, Bail, NotifyFailed
    <2> QED BY <2>2, <2>3, <2>4, <2>5 DEF Budget
  <1>4. CASE StartTask
    <2>1. loading.task \in Tasks
      BY <1>4 DEF StartTask, IInv, InHand, Situations
    <2>2. /\ IsFiniteSet(running_tasks')
          /\ Cardinality(running_tasks') <= Cardinality(running_tasks) + 1
      <3>1. running_tasks' = running_tasks \cup {loading.task}
        BY <1>4 DEF StartTask
      <3> QED BY <3>1, <1>b, <1>c, FS_AddElement, SMTT(30)
    <2>3. Cardinality(running_tasks') <= running_count' /\ running_count' <= Capacity
      <3>1. running_count' = running_count + 1 /\ running_count < Capacity
        BY <1>4, <1>b DEF StartTask
      <3>2. Cardinality(running_tasks') \in Nat
        BY <2>2, FS_CardinalityType
      <3> QED BY <2>2, <3>1, <3>2, <1>b, <1>c, <1>t
    <2>4. \A t \in Tasks : thread'[t] \in {"running", "sent"} => t \in running_tasks'
      BY <1>4, <1>b, <1>t DEF StartTask
    <2> QED BY <1>4, <2>2, <2>3, <2>4 DEF Budget, StartTask
  <1>5. CASE BeginWait
    BY <1>5, <1>f DEF BeginWait
  <1>6. CASE Recv
    BY <1>6, <1>f DEF Recv
  <1>7. CASE RecvTimeout
    BY <1>7, <1>f DEF RecvTimeout
  <1>8. CASE AllTimedOutTasksInfo
    BY <1>8, <1>f DEF AllTimedOutTasksInfo
  <1>9. CASE EndReport
    BY <1>9, <1>f DEF EndReport
  <1>10. CASE ReturnOk
    BY <1>10, <1>f DEF ReturnOk
  <1>11. ASSUME NEW t \in Tasks, Thread(t) PROVE Budget'
    <2>1. UNCHANGED <<running_tasks, running_count, pc>>
      BY <1>11 DEF Thread, Send, CrashBeforeSend, EndThread, executorVars
    <2>2. \A u \in Tasks : thread'[u] \in {"running", "sent"} => thread[u] \in {"running", "sent"}
      BY <1>11, <1>t DEF Thread, Send, CrashBeforeSend, EndThread
    <2> QED BY <2>1, <2>2, <1>b DEF Budget
  <1>12. CASE Tick
    BY <1>12, <1>b DEF Tick, executorVars, Budget
  <1>13. CASE UNCHANGED vars
    BY <1>13, <1>b DEF vars, Budget
  <1> QED
    BY <1>1, <1>2, <1>3, <1>4, <1>5, <1>6, <1>7, <1>8, <1>9, <1>10, <1>11, <1>12, <1>13
    DEF Next, Executor

\* A message is in one place only, and its task's handle outlives it.
LEMMA MailStep == IInv /\ [Next]_vars => Mail'
  <1> SUFFICES ASSUME IInv, [Next]_vars, ~Over' PROVE Mail'
    BY DEF Mail
  <1>t. channel \in Seq(Results) /\ res \in Results \cup {NoResult}
        /\ thread \in [Tasks -> {"none", "running", "sent", "ended", "panicked"}]
    BY DEF IInv, TypeOK
  <1>m. ~Over =>
      /\ \A i \in 1..Len(channel) : channel[i].task \in running_tasks
      /\ \A i \in 1..Len(channel) : thread[channel[i].task] # "running"
      /\ \A i, j \in 1..Len(channel) : channel[i].task = channel[j].task => i = j
      /\ res # NoResult => res.task \in running_tasks /\ thread[res.task] # "running"
      /\ res # NoResult => \A i \in 1..Len(channel) : channel[i].task # res.task
    BY DEF IInv, Mail
  <1>f. ASSUME UNCHANGED <<channel, res, running_tasks, thread>>, ~Over PROVE Mail'
    BY <1>f, <1>m DEF Mail
  <1>h. ASSUME channel # <<>>, res' = Head(channel), channel' = Tail(channel), ~Over,
               UNCHANGED <<running_tasks, thread>>
        PROVE Mail'
    <2>1. /\ Head(channel) = channel[1] /\ 1 \in 1..Len(channel)
          /\ Len(Tail(channel)) = Len(channel) - 1
          /\ \A i \in 1..Len(Tail(channel)) : Tail(channel)[i] = channel[i + 1] /\ i + 1 \in 1..Len(channel)
      BY <1>h, <1>t, TailFacts
    <2>2. \A i \in 1..Len(channel') : channel'[i] = channel[i + 1] /\ i + 1 \in 1..Len(channel) /\ i + 1 # 1
      BY <1>h, <2>1
    <2>3. \A i, j \in 1..Len(channel') : channel'[i].task = channel'[j].task => i = j
      BY <2>2, <1>m, <1>h
    <2>4. \A i \in 1..Len(channel') : channel'[i].task # res'.task
      BY <1>h, <2>1, <2>2, <1>m
    <2> QED BY <1>h, <1>m, <2>1, <2>2, <2>3, <2>4 DEF Mail
  <1>1. ASSUME NEW r \in Outcomes, LoadTask(r) PROVE Mail'
    BY <1>1, <1>f DEF LoadTask, Over
  <1>2. ASSUME NEW r \in Outcomes, ReportTimeout(r) PROVE Mail'
    BY <1>2, <1>f DEF ReportTimeout, Over
  <1>3. ASSUME NEW r \in Outcomes, FinishTask(r) PROVE Mail'
    <2>1. res \in Results /\ ~Over
      BY <1>3 DEF FinishTask, IInv, InHand, Over
    <2>2. res # NoResult
      BY <2>1 DEF Results, NoResult
    <2> QED BY <1>3, <1>m, <2>1, <2>2 DEF FinishTask, Mail
  <1>4. CASE StartTask
    <2>1. loading.task \in Tasks /\ ~Over /\ thread[loading.task] = "none"
      BY <1>4 DEF StartTask, IInv, InHand, Situations, Over, Places
    <2>2. loading.task \notin running_tasks
      BY <2>1 DEF IInv, Places
    <2>3. \A u \in running_tasks : thread'[u] = thread[u]
      BY <1>4, <1>t, <2>1, <2>2 DEF StartTask, IInv, TypeOK
    <2>4. UNCHANGED <<channel, res>> /\ running_tasks \subseteq running_tasks'
      BY <1>4 DEF StartTask
    <2> QED BY <1>m, <2>1, <2>3, <2>4 DEF Mail
  <1>5. CASE BeginWait
    BY <1>5, <1>f DEF BeginWait, Over
  <1>6. CASE Recv
    BY <1>6, <1>h DEF Recv, Over
  <1>7. CASE RecvTimeout
    <2>1. CASE channel # <<>>
      BY <1>7, <1>h, <2>1 DEF RecvTimeout, Over
    <2>2. CASE channel = <<>>
      BY <1>7, <1>m, <2>2 DEF RecvTimeout, Over, Mail
    <2> QED BY <2>1, <2>2
  <1>8. CASE AllTimedOutTasksInfo
    BY <1>8, <1>f DEF AllTimedOutTasksInfo, Over
  <1>9. CASE EndReport
    BY <1>9, <1>f DEF EndReport, Over
  <1>10. CASE ReturnOk
    BY <1>10, <1>f DEF ReturnOk, Over
  <1>11. ASSUME NEW t \in Tasks, Thread(t) PROVE Mail'
    <2>1. UNCHANGED <<running_tasks, res, pc>> /\ ~Over
      BY <1>11 DEF Thread, Send, CrashBeforeSend, EndThread, executorVars, Over
    <2>2. \A u \in Tasks : thread[u] # "running" => thread'[u] # "running"
      BY <1>11, <1>t DEF Thread, Send, CrashBeforeSend, EndThread
    <2>3. running_tasks \subseteq Tasks
      BY DEF IInv, TypeOK
    <2>4. CASE channel' = channel
      BY <1>m, <2>1, <2>2, <2>3, <2>4 DEF Mail
    <2>5. CASE \E s \in Statuses : Send(t, s) /\ channel' # channel
      <3>1. PICK s \in Statuses : Send(t, s) /\ channel' # channel
        BY <2>5
      <3> DEFINE m == [task |-> t, status |-> s]
      <3>2. m \in Results /\ m.task = t
        BY ValueAssumption DEF ValueAssumption, Results
      <3>3. channel' = Append(channel, m) /\ thread[t] = "running" /\ thread'[t] # "running"
        BY <3>1, <1>t DEF Send
      <3>4. t \in running_tasks
        BY <3>3 DEF IInv, Budget
      <3> HIDE DEF m
      <3>5. /\ Len(channel') = Len(channel) + 1 /\ channel'[Len(channel) + 1] = m
            /\ \A i \in 1..Len(channel) : channel'[i] = channel[i]
            /\ \A i \in 1..Len(channel') : i \in 1..Len(channel) \/ i = Len(channel) + 1
        BY <3>2, <3>3, <1>t, AppendFacts
      <3>6. \A i \in 1..Len(channel) : channel[i].task # t
        BY <3>3, <1>m, <2>1
      <3>7. res # NoResult => res.task # t
        BY <3>3, <1>m, <2>1
      <3>8. \A i, j \in 1..Len(channel') : channel'[i].task = channel'[j].task => i = j
        BY <3>2, <3>5, <3>6, <1>m, <2>1
      <3>9. res' # NoResult => \A i \in 1..Len(channel') : channel'[i].task # res'.task
        BY <3>2, <3>5, <3>7, <1>m, <2>1
      <3>10. \A i \in 1..Len(channel') : channel'[i].task \in running_tasks'
        BY <3>2, <3>4, <3>5, <1>m, <2>1
      <3>11. \A i \in 1..Len(channel') : thread'[channel'[i].task] # "running"
        BY <3>2, <3>3, <3>5, <1>m, <2>1, <2>2, <2>3
      <3>12. res' # NoResult => res'.task \in running_tasks' /\ thread'[res'.task] # "running"
        BY <1>m, <2>1, <2>2, <2>3
      <3> QED BY <3>8, <3>9, <3>10, <3>11, <3>12 DEF Mail
    <2> QED
      BY <1>11, <2>4, <2>5 DEF Thread, CrashBeforeSend, EndThread
  <1>12. CASE Tick
    BY <1>12, <1>f DEF Tick, executorVars, Over
  <1>13. CASE UNCHANGED vars
    BY <1>13, <1>f DEF vars, Over
  <1> QED
    BY <1>1, <1>2, <1>3, <1>4, <1>5, <1>6, <1>7, <1>8, <1>9, <1>10, <1>11, <1>12, <1>13
    DEF Next, Executor

\* A task moves from one place to the next and is never lost on the way.
LEMMA PlacesStep == IInv /\ [Next]_vars => Places'
  <1> SUFFICES ASSUME IInv, [Next]_vars PROVE Places'
    OBVIOUS
  <1>t. waiting_tasks \in Seq(Tasks) /\ running_tasks \in SUBSET Tasks
        /\ thread \in [Tasks -> {"none", "running", "sent", "ended", "panicked"}]
        /\ log \in Seq(Events) /\ running_count \in Nat
    BY DEF IInv, TypeOK
  <1>p. Places
    BY DEF IInv
  <1>f. ASSUME UNCHANGED <<waiting_tasks, thread, running_tasks, running_count>>, pc # "spawn", pc # "err",
               pc' \notin {"spawn", "ok"}, \A t \in Tasks : Done(t) => Done(t)'
        PROVE Places'
    BY <1>f, <1>p DEF Places
  <1>d. ASSUME NEW e \in Events, log' = Append(log, e)
        PROVE /\ \A t \in Tasks : Done(t) => Done(t)'
              /\ e.ty = "Finished" => \A t \in Tasks : t = e.task => Done(t)'
    BY <1>d, <1>t, AppendFacts DEF Done
  <1>u. log' = log => \A t \in Tasks : Done(t) => Done(t)'
    BY DEF Done
  <1>1. ASSUME NEW r \in Outcomes, LoadTask(r) PROVE Places'
    <2> DEFINE h == Head(waiting_tasks)
    <2>1. waiting_tasks # <<>> /\ pc = "loop" /\ waiting_tasks' = Tail(waiting_tasks)
          /\ UNCHANGED <<thread, running_tasks, running_count>>
          /\ loading'.task = h /\ pc' \in {"spawn", "err"}
      BY <1>1 DEF LoadTask, HasRoom, NotifyFailed
    <2>2. /\ h = waiting_tasks[1] /\ h \in Tasks /\ 1 \in 1..Len(waiting_tasks)
          /\ Len(waiting_tasks') = Len(waiting_tasks) - 1
          /\ \A i \in 1..Len(waiting_tasks') : waiting_tasks'[i] = waiting_tasks[i + 1] /\ i + 1 \in 1..Len(waiting_tasks)
      BY <2>1, <1>t, TailFacts
    <2> HIDE DEF h
    <2>3. \A t \in Tasks : Done(t) => Done(t)'
      <3>1. Event(h, "Wait", 0) \in Events
        BY <2>2 DEF Event, Events
      <3> QED BY <1>1, <1>d, <3>1 DEF LoadTask, h
    <2>4. \A i \in 1..Len(waiting_tasks') : waiting_tasks'[i] # h /\ thread'[waiting_tasks'[i]] = "none"
      BY <2>1, <2>2, <1>p DEF Places
    <2>5. \A i, j \in 1..Len(waiting_tasks') : waiting_tasks'[i] = waiting_tasks'[j] => i = j
      BY <2>2, <1>p DEF Places
    <2>6. ASSUME NEW t \in Tasks, NEW i \in 1..Len(waiting_tasks), waiting_tasks[i] = t, t # h
          PROVE \E k \in 1..Len(waiting_tasks') : waiting_tasks'[k] = t
      <3>1. i # 1 /\ i - 1 \in 1..Len(waiting_tasks')
        BY <2>6, <2>2
      <3>2. waiting_tasks'[i - 1] = waiting_tasks[(i - 1) + 1] /\ (i - 1) + 1 = i
        BY <3>1, <2>2
      <3> QED BY <3>1, <3>2, <2>6
    <2>7. pc' # "err" => \A t \in Tasks :
          \/ \E i \in 1..Len(waiting_tasks') : waiting_tasks'[i] = t
          \/ pc' = "spawn" /\ loading'.task = t
          \/ t \in running_tasks'
          \/ Done(t)' /\ thread'[t] \in {"ended", "panicked"}
      BY <2>1, <2>3, <2>6, <1>p DEF Places
    <2> QED BY <2>1, <2>2, <2>4, <2>5, <2>7, <1>p DEF Places
  <1>2. ASSUME NEW r \in Outcomes, ReportTimeout(r) PROVE Places'
    <2>1. \A t \in Tasks : Done(t) => Done(t)'
      <3>1. Head(timed_out) \in Situations /\ timeout \in Nat
        BY <1>2 DEF ReportTimeout, IInv, TypeOK
      <3>2. Event(Head(timed_out).task, "Timeout", ReportedSecs) \in Events
        BY <3>1 DEF ReportedSecs, Event, Events, Situations
      <3> QED BY <1>2, <1>d, <1>u, <3>2 DEF ReportTimeout
    <2> QED BY <1>2, <1>f, <2>1 DEF ReportTimeout, NotifyFailed
  <1>3. ASSUME NEW r \in Outcomes, FinishTask(r) PROVE Places'
    <2>1. res \in Results
      BY <1>3 DEF FinishTask, IInv, InHand
    <2>2. res.task \in Tasks
      BY <2>1 DEF Results
    <2>3. pc' # "err" => \A t \in Tasks : t = res.task \/ Done(t) => Done(t)'
      <3>1. /\ Event(res.task, "Finished", 0) \in Events
            /\ Event(res.task, "Finished", 0).ty = "Finished"
            /\ Event(res.task, "Finished", 0).task = res.task
        BY <2>2 DEF Event, Events
      <3>2. pc' # "err" => log' = Append(log, Event(res.task, "Finished", 0))
        BY <1>3 DEF FinishTask, Bail
      <3> QED BY <1>d, <3>1, <3>2
    <2>4. pc = "join" /\ pc' \in {"loop", "err"} /\ UNCHANGED <<waiting_tasks, thread>>
          /\ running_tasks' = running_tasks \ {res.task} /\ thread[res.task] \in {"ended", "panicked"}
      BY <1>3 DEF FinishTask, Bail, NotifyFailed
    <2>5. ASSUME pc' # "err", NEW t \in Tasks
          PROVE \/ \E i \in 1..Len(waiting_tasks') : waiting_tasks'[i] = t
                \/ t \in running_tasks'
                \/ Done(t)' /\ thread'[t] \in {"ended", "panicked"}
      <3>1. CASE t = res.task
        BY <3>1, <2>3, <2>4, <2>5
      <3>2. CASE t # res.task
        BY <3>2, <2>3, <2>4, <2>5, <1>p DEF Places
      <3> QED BY <3>1, <3>2
    <2> QED BY <2>4, <2>5, <1>p DEF Places
  <1>4. CASE StartTask
    <2>1. loading.task \in Tasks
      BY <1>4 DEF StartTask, IInv, InHand, Situations
    <2>2. pc = "spawn" /\ pc' = "loop" /\ UNCHANGED waiting_tasks /\ log' = log
          /\ thread' = [thread EXCEPT ![loading.task] = "running"]
          /\ running_tasks' = running_tasks \cup {loading.task}
      BY <1>4 DEF StartTask
    <2>3. \A i \in 1..Len(waiting_tasks) : waiting_tasks[i] \in Tasks
      BY <1>t
    <2>4. \A i \in 1..Len(waiting_tasks) : thread'[waiting_tasks[i]] = "none"
      BY <2>1, <2>2, <2>3, <1>t, <1>p DEF Places
    <2>5. \A t \in running_tasks' : thread'[t] # "none"
      BY <2>1, <2>2, <1>t, <1>p DEF Places
    <2>6. ASSUME NEW t \in Tasks
          PROVE \/ \E i \in 1..Len(waiting_tasks') : waiting_tasks'[i] = t
                \/ t \in running_tasks'
                \/ Done(t)' /\ thread'[t] \in {"ended", "panicked"}
      <3>1. CASE t = loading.task
        BY <3>1, <2>2
      <3>2. CASE t # loading.task
        BY <3>2, <2>1, <2>2, <1>u, <1>t, <1>p DEF Places
      <3> QED BY <3>1, <3>2
    <2> QED BY <2>2, <2>4, <2>5, <2>6, <1>p DEF Places
  <1>5. CASE BeginWait
    BY <1>5, <1>f, <1>u DEF BeginWait
  <1>6. CASE Recv
    BY <1>6, <1>f, <1>u DEF Recv
  <1>7. CASE RecvTimeout
    BY <1>7, <1>f, <1>u DEF RecvTimeout
  <1>8. CASE AllTimedOutTasksInfo
    BY <1>8, <1>f, <1>u DEF AllTimedOutTasksInfo
  <1>9. CASE EndReport
    BY <1>9, <1>f, <1>u DEF EndReport
  <1>10. CASE ReturnOk
    BY <1>10, <1>u, <1>p DEF ReturnOk, AllHandled, Places
  <1>11. ASSUME NEW t \in Tasks, Thread(t) PROVE Places'
    <2>1. UNCHANGED <<pc, waiting_tasks, loading, running_tasks, running_count, log>>
      BY <1>11 DEF Thread, Send, CrashBeforeSend, EndThread, executorVars
    <2>2. /\ \A u \in Tasks : thread[u] = "none" <=> thread'[u] = "none"
          /\ \A u \in Tasks : thread[u] \in {"ended", "panicked"} => thread'[u] \in {"ended", "panicked"}
      BY <1>11, <1>t DEF Thread, Send, CrashBeforeSend, EndThread
    <2>3. /\ \A i \in 1..Len(waiting_tasks) : waiting_tasks[i] \in Tasks
          /\ pc = "spawn" => loading.task \in Tasks
      BY <1>t DEF IInv, InHand, Situations
    <2>4. \A u \in Tasks : Done(u) => Done(u)'
      BY <2>1, <1>u
    <2> QED BY <2>1, <2>2, <2>3, <2>4, <1>t, <1>p DEF Places
  <1>12. CASE Tick
    BY <1>12, <1>u, <1>p DEF Tick, executorVars, Places
  <1>13. CASE UNCHANGED vars
    BY <1>13, <1>u, <1>p DEF vars, Places
  <1> QED
    BY <1>1, <1>2, <1>3, <1>4, <1>5, <1>6, <1>7, <1>8, <1>9, <1>10, <1>11, <1>12, <1>13
    DEF Next, Executor

\* A deadline is queued once, when its thread starts, and leaves the queue once.
LEMMA QueuedStep == IInv /\ [Next]_vars => Queued'
  <1> SUFFICES ASSUME IInv, [Next]_vars PROVE Queued'
    OBVIOUS
  <1>t. timeout_queue \in Seq(Situations) /\ timed_out \in Seq(Situations)
        /\ thread \in [Tasks -> {"none", "running", "sent", "ended", "panicked"}]
    BY DEF IInv, TypeOK
  <1>q. Queued
    BY DEF IInv
  <1>f. ASSUME UNCHANGED <<timeout_queue, thread>>, pc' # "report" PROVE Queued'
    BY <1>f, <1>q DEF Queued
  <1>s. /\ \A i \in 1..Len(timeout_queue) : timeout_queue[i].task \in Tasks
        /\ \A i \in 1..Len(timed_out) : timed_out[i].task \in Tasks
    <2>1. \A x \in Situations : x.task \in Tasks
      BY DEF Situations
    <2> QED BY <2>1, <1>t
  <1>1. ASSUME NEW r \in Outcomes, LoadTask(r) PROVE Queued'
    BY <1>1, <1>f DEF LoadTask, NotifyFailed
  <1>2. ASSUME NEW r \in Outcomes, ReportTimeout(r) PROVE Queued'
    <2>1. timed_out # <<>> /\ timed_out' = Tail(timed_out) /\ pc = "report" /\ UNCHANGED <<timeout_queue, thread>>
      BY <1>2 DEF ReportTimeout
    <2>2. /\ Len(timed_out') = Len(timed_out) - 1
          /\ \A i \in 1..Len(timed_out') : timed_out'[i] = timed_out[i + 1] /\ i + 1 \in 1..Len(timed_out)
      BY <2>1, <1>t, TailFacts
    <2>3. \A i, j \in 1..Len(timed_out') : timed_out'[i].task = timed_out'[j].task => i = j
      BY <2>1, <2>2, <1>q DEF Queued
    <2> QED BY <2>1, <2>2, <2>3, <1>q DEF Queued
  <1>3. ASSUME NEW r \in Outcomes, FinishTask(r) PROVE Queued'
    BY <1>3, <1>f DEF FinishTask, Bail, NotifyFailed
  <1>4. CASE StartTask
    <2>1. loading \in Situations /\ loading.task \in Tasks /\ thread[loading.task] = "none"
      BY <1>4 DEF StartTask, IInv, InHand, Situations, Places
    <2>2. pc' = "loop" /\ timeout_queue' = Append(timeout_queue, loading)
          /\ thread' = [thread EXCEPT ![loading.task] = "running"]
      BY <1>4 DEF StartTask
    <2>3. /\ Len(timeout_queue') = Len(timeout_queue) + 1
          /\ timeout_queue'[Len(timeout_queue) + 1] = loading
          /\ \A i \in 1..Len(timeout_queue) : timeout_queue'[i] = timeout_queue[i]
          /\ \A i \in 1..Len(timeout_queue') : i \in 1..Len(timeout_queue) \/ i = Len(timeout_queue) + 1
      BY <2>1, <2>2, <1>t, AppendFacts
    <2>4. \A i \in 1..Len(timeout_queue) : timeout_queue[i].task # loading.task
      BY <2>1, <1>q DEF Queued
    <2>5. \A i, j \in 1..Len(timeout_queue') : timeout_queue'[i].task = timeout_queue'[j].task => i = j
      BY <2>3, <2>4, <1>q DEF Queued
    <2>6. \A i \in 1..Len(timeout_queue') : thread'[timeout_queue'[i].task] # "none"
      BY <2>1, <2>2, <2>3, <1>t, <1>s, <1>q DEF Queued
    <2> QED BY <2>2, <2>5, <2>6 DEF Queued
  <1>5. CASE BeginWait
    BY <1>5, <1>f DEF BeginWait
  <1>6. CASE Recv
    BY <1>6, <1>f DEF Recv
  <1>7. CASE RecvTimeout
    BY <1>7, <1>f DEF RecvTimeout
  <1>8. CASE AllTimedOutTasksInfo
    <2>1. PICK n \in 0..Len(timeout_queue) :
             /\ timeout_queue' = SubSeq(timeout_queue, n + 1, Len(timeout_queue))
             /\ timed_out' = SubSeq(timeout_queue, 1, n)
      BY <1>8 DEF AllTimedOutTasksInfo
    <2>2. /\ Len(timed_out') = n /\ Len(timeout_queue') = Len(timeout_queue) - n
          /\ \A i \in 1..n : timed_out'[i] = timeout_queue[i] /\ i \in 1..Len(timeout_queue)
          /\ \A i \in 1..(Len(timeout_queue) - n) : timeout_queue'[i] = timeout_queue[i + n] /\ i + n \in 1..Len(timeout_queue)
      BY <2>1, <1>t, SplitFacts
    <2>3. UNCHANGED thread
      BY <1>8 DEF AllTimedOutTasksInfo
    <2>4. \A i, j \in 1..Len(timed_out') : timed_out'[i].task = timed_out'[j].task => i = j
      BY <2>2, <1>q DEF Queued
    <2>5. \A i, j \in 1..Len(timeout_queue') : timeout_queue'[i].task = timeout_queue'[j].task => i = j
      <3>1. SUFFICES ASSUME NEW i \in 1..Len(timeout_queue'), NEW j \in 1..Len(timeout_queue'),
                            timeout_queue'[i].task = timeout_queue'[j].task PROVE i + n = j + n
        BY <1>t
      <3> QED BY <3>1, <2>2, <1>q, SMTT(30) DEF Queued
    <2>6. \A i \in 1..Len(timed_out'), j \in 1..Len(timeout_queue') :
             timed_out'[i].task # timeout_queue'[j].task
      <3>1. SUFFICES ASSUME NEW i \in 1..Len(timed_out'), NEW j \in 1..Len(timeout_queue'),
                            timed_out'[i].task = timeout_queue'[j].task PROVE FALSE
        OBVIOUS
      <3>2. i = j + n
        BY <3>1, <2>2, <1>q DEF Queued
      <3> QED BY <3>1, <3>2, <2>2
    <2> QED BY <2>2, <2>3, <2>4, <2>5, <2>6, <1>q DEF Queued
  <1>9. CASE EndReport
    BY <1>9, <1>f DEF EndReport
  <1>10. CASE ReturnOk
    BY <1>10, <1>f DEF ReturnOk
  <1>11. ASSUME NEW t \in Tasks, Thread(t) PROVE Queued'
    <2>1. UNCHANGED <<pc, timeout_queue, timed_out>>
      BY <1>11 DEF Thread, Send, CrashBeforeSend, EndThread, executorVars
    <2>2. \A u \in Tasks : thread[u] # "none" => thread'[u] # "none"
      BY <1>11, <1>t DEF Thread, Send, CrashBeforeSend, EndThread
    <2> QED BY <2>1, <2>2, <1>s, <1>q DEF Queued
  <1>12. CASE Tick
    BY <1>12, <1>q DEF Tick, executorVars, Queued
  <1>13. CASE UNCHANGED vars
    BY <1>13, <1>q DEF vars, Queued
  <1> QED
    BY <1>1, <1>2, <1>3, <1>4, <1>5, <1>6, <1>7, <1>8, <1>9, <1>10, <1>11, <1>12, <1>13
    DEF Next, Executor

\* Wait comes before Timeout and Timeout before Finished.
LEMMA RankFacts ==
  ASSUME NEW e \in Events
  PROVE  /\ e.task \in Tasks /\ e.secs \in Nat /\ e.ty \in {"Wait", "Timeout", "Finished"}
         /\ e.ty = "Wait" => Rank(e) = 0
         /\ e.ty = "Timeout" => Rank(e) = 1
         /\ e.ty = "Finished" => Rank(e) = 2
  BY DEF Events, Rank

\* An event may follow the ones already told of its task when they all rank lower.
LEMMA OrderKept ==
  ASSUME NEW e \in Events, log \in Seq(Events), log' = Append(log, e), EventOrder,
         \A k \in 1..Len(log) : log[k].task = e.task => Rank(log[k]) < Rank(e)
  PROVE  EventOrder'
  <1>1. /\ Len(log') = Len(log) + 1 /\ log'[Len(log) + 1] = e
        /\ \A i \in 1..Len(log) : log'[i] = log[i]
        /\ \A i \in 1..Len(log') : i \in 1..Len(log) \/ i = Len(log) + 1
    BY AppendFacts
  <1> SUFFICES ASSUME NEW i \in 1..Len(log'), NEW j \in 1..Len(log'), i < j,
                      log'[i].task = log'[j].task
               PROVE  Rank(log'[i]) < Rank(log'[j])
    BY DEF EventOrder, Rank
  <1>2. i \in 1..Len(log)
    BY <1>1
  <1>3. CASE j \in 1..Len(log)
    BY <1>1, <1>2, <1>3 DEF EventOrder
  <1>4. CASE j = Len(log) + 1
    BY <1>1, <1>2, <1>4
  <1> QED BY <1>1, <1>3, <1>4

\* The notifier hears of a task in the order of the places the task goes through.
LEMMA ToldStep == IInv /\ [Next]_vars => Told'
  <1> SUFFICES ASSUME IInv, [Next]_vars PROVE Told'
    OBVIOUS
  <1>t. /\ waiting_tasks \in Seq(Tasks) /\ running_tasks \in SUBSET Tasks /\ log \in Seq(Events)
        /\ timeout_queue \in Seq(Situations) /\ timed_out \in Seq(Situations) /\ timeout \in Nat
        /\ thread \in [Tasks -> {"none", "running", "sent", "ended", "panicked"}]
    BY DEF IInv, TypeOK
  <1>l. Told
    BY DEF IInv
  <1>o. log' = log => EventOrder'
    BY <1>l DEF Told, EventOrder, Rank
  <1>f. ASSUME UNCHANGED <<log, waiting_tasks, running_tasks, timeout_queue>>, pc' \notin {"spawn", "report"}
        PROVE Told'
    BY <1>f, <1>o, <1>l DEF Told
  <1>a. ASSUME NEW e \in Events, log' = Append(log, e)
        PROVE /\ Len(log') = Len(log) + 1 /\ log'[Len(log) + 1] = e
              /\ \A k \in 1..Len(log) : log'[k] = log[k] /\ log[k] \in Events /\ k \in 1..Len(log')
              /\ \A k \in 1..Len(log') : k \in 1..Len(log) \/ k = Len(log) + 1
              /\ Len(log) + 1 \in 1..Len(log')
    BY <1>a, <1>t, AppendFacts
  <1>1. ASSUME NEW r \in Outcomes, LoadTask(r) PROVE Told'
    <2> DEFINE h == Head(waiting_tasks)
               e == Event(h, "Wait", 0)
    <2>1. /\ waiting_tasks # <<>> /\ pc = "loop" /\ waiting_tasks' = Tail(waiting_tasks)
          /\ UNCHANGED <<thread, running_tasks, timeout_queue>>
          /\ loading'.task = h /\ pc' \in {"spawn", "err"} /\ log' = Append(log, e)
      BY <1>1 DEF LoadTask, HasRoom, NotifyFailed
    <2>2. /\ h = waiting_tasks[1] /\ h \in Tasks /\ 1 \in 1..Len(waiting_tasks)
          /\ Len(waiting_tasks') = Len(waiting_tasks) - 1
          /\ \A i \in 1..Len(waiting_tasks') : waiting_tasks'[i] = waiting_tasks[i + 1] /\ i + 1 \in 1..Len(waiting_tasks)
      BY <2>1, <1>t, TailFacts
    <2>3. e \in Events /\ e.task = h /\ e.ty = "Wait"
      BY <2>2 DEF Event, Events
    <2> HIDE DEF h, e
    <2>4. \A k \in 1..Len(log) : log[k].task # h
      BY <2>2, <1>l DEF Told
    <2>5. EventOrder'
      BY <2>1, <2>3, <2>4, <1>t, <1>l, OrderKept DEF Told
    <2>6. /\ log'[Len(log) + 1] = e
          /\ \A k \in 1..Len(log) : log'[k] = log[k] /\ k \in 1..Len(log')
          /\ \A k \in 1..Len(log') : k \in 1..Len(log) \/ k = Len(log) + 1
          /\ Len(log) + 1 \in 1..Len(log')
      BY <2>1, <2>3, <1>a
    <2>7. \A i \in 1..Len(waiting_tasks') : waiting_tasks'[i] # h
      BY <2>2 DEF IInv, Places
    <2>8. \A k \in 1..Len(log') : \A i \in 1..Len(waiting_tasks') : log'[k].task # waiting_tasks'[i]
      BY <2>2, <2>3, <2>6, <2>7, <1>l, SMTT(30) DEF Told
    <2>9. /\ \A k \in 1..Len(log') : log'[k].task = loading'.task => log'[k].ty = "Wait"
          /\ \E k \in 1..Len(log') : log'[k].task = loading'.task
      BY <2>1, <2>3, <2>4, <2>6
    <2>10. \A t \in running_tasks' :
          /\ \A k \in 1..Len(log') : log'[k].task = t => log'[k].ty # "Finished"
          /\ \E k \in 1..Len(log') : log'[k].task = t /\ log'[k].ty = "Wait"
      BY <2>1, <2>3, <2>6, <1>l DEF Told
    <2>11. \A k \in 1..Len(log') : \A i \in 1..Len(timeout_queue') :
          log'[k].task = timeout_queue'[i].task => log'[k].ty # "Timeout"
      BY <2>1, <2>3, <2>6, <1>l DEF Told
    <2>12. pc' # "report"
      BY <2>1
    <2> QED BY <2>5, <2>8, <2>9, <2>10, <2>11, <2>12 DEF Told
  <1>2. ASSUME NEW r \in Outcomes, ReportTimeout(r) PROVE Told'
    <2> DEFINE h == Head(timed_out)
               e == Event(h.task, "Timeout", ReportedSecs)
    <2>1. /\ timed_out # <<>> /\ timed_out' = Tail(timed_out) /\ pc = "report"
          /\ UNCHANGED <<timeout_queue, running_tasks, waiting_tasks, thread>>
          /\ pc' \in {"report", "err"}
      BY <1>2 DEF ReportTimeout, NotifyFailed
    <2>2. /\ h = timed_out[1] /\ h \in Situations /\ 1 \in 1..Len(timed_out)
          /\ Len(timed_out') = Len(timed_out) - 1
          /\ \A i \in 1..Len(timed_out') : timed_out'[i] = timed_out[i + 1] /\ i + 1 \in 1..Len(timed_out)
      BY <2>1, <1>t, TailFacts
    <2>3. e \in Events /\ e.task = h.task /\ e.ty = "Timeout"
      BY <2>2, <1>t DEF Event, Events, ReportedSecs, Situations
    <2>4. \/ log' = log
          \/ h.task \in running_tasks /\ log' = Append(log, e)
      BY <1>2 DEF ReportTimeout, StillRunning
    <2> HIDE DEF h, e
    <2>5. CASE log' = log
      <3>1. pc' = "report" => \A k \in 1..Len(log') : \A i \in 1..Len(timed_out') :
               log'[k].task = timed_out'[i].task => log'[k].ty # "Timeout"
        BY <2>1, <2>2, <2>5, <1>l DEF Told
      <3>2. pc' # "spawn"
        BY <2>1
      <3> QED BY <2>1, <2>5, <3>1, <3>2, <1>l, <1>o DEF Told
    <2>6. CASE h.task \in running_tasks /\ log' = Append(log, e)
      <3>1. \A k \in 1..Len(log) : log[k].task = h.task => log[k].ty = "Wait"
        <4>1. \A k \in 1..Len(log) : log[k].task = h.task => log[k].ty # "Timeout" /\ log[k].ty # "Finished"
          BY <2>1, <2>2, <2>6, <1>l DEF Told
        <4> QED BY <4>1, <1>t, RankFacts
      <3>2. \A k \in 1..Len(log) : log[k].task = e.task => Rank(log[k]) < Rank(e)
        <4>1. \A k \in 1..Len(log) : log[k].task = e.task => Rank(log[k]) = 0
          BY <3>1, <2>3, <1>t, RankFacts
        <4>2. Rank(e) = 1
          BY <2>3, RankFacts
        <4> QED BY <4>1, <4>2
      <3>3. EventOrder'
        BY <2>3, <2>6, <3>2, <1>t, <1>l, OrderKept DEF Told
      <3>4. /\ log'[Len(log) + 1] = e
            /\ \A k \in 1..Len(log) : log'[k] = log[k] /\ k \in 1..Len(log')
            /\ \A k \in 1..Len(log') : k \in 1..Len(log) \/ k = Len(log) + 1
        BY <2>3, <2>6, <1>a
      <3>5. \A i \in 1..Len(waiting_tasks) : waiting_tasks[i] # h.task
        BY <2>6 DEF IInv, Places
      <3>6. \A k \in 1..Len(log') : \A i \in 1..Len(waiting_tasks') : log'[k].task # waiting_tasks'[i]
        BY <2>1, <2>3, <3>4, <3>5, <1>l DEF Told
      <3>7. \A t \in running_tasks' :
            /\ \A k \in 1..Len(log') : log'[k].task = t => log'[k].ty # "Finished"
            /\ \E k \in 1..Len(log') : log'[k].task = t /\ log'[k].ty = "Wait"
        <4> SUFFICES ASSUME NEW t \in running_tasks
                     PROVE  /\ \A k \in 1..Len(log') : log'[k].task = t => log'[k].ty # "Finished"
                            /\ \E k \in 1..Len(log') : log'[k].task = t /\ log'[k].ty = "Wait"
          BY <2>1
        <4>1. /\ \A k \in 1..Len(log) : log[k].task = t => log[k].ty # "Finished"
              /\ \E k \in 1..Len(log) : log[k].task = t /\ log[k].ty = "Wait"
          BY <1>l DEF Told
        <4> QED BY <4>1, <2>3, <3>4
      <3>8. \A i \in 1..Len(timeout_queue) : timeout_queue[i].task # h.task
        BY <2>1, <2>2 DEF IInv, Queued
      <3>9. \A k \in 1..Len(log') : \A i \in 1..Len(timeout_queue') :
            log'[k].task = timeout_queue'[i].task => log'[k].ty # "Timeout"
        BY <2>1, <2>3, <3>4, <3>8, <1>l DEF Told
      <3>10. \A i \in 1..Len(timed_out') : timed_out'[i].task # h.task
        <4> SUFFICES ASSUME NEW i \in 1..Len(timed_out'), timed_out[i + 1].task = timed_out[1].task PROVE FALSE
          BY <2>2
        <4>1. i + 1 = 1
          BY <2>1, <2>2 DEF IInv, Queued
        <4> QED BY <4>1, <2>2
      <3>11. \A k \in 1..Len(log') : \A i \in 1..Len(timed_out') :
            log'[k].task = timed_out'[i].task => log'[k].ty # "Timeout"
        BY <2>1, <2>2, <2>3, <3>4, <3>10, <1>l DEF Told
      <3>12. pc' # "spawn"
        BY <2>1
      <3> QED BY <3>3, <3>6, <3>7, <3>9, <3>11, <3>12 DEF Told
    <2> QED BY <2>4, <2>5, <2>6
  <1>3. ASSUME NEW r \in Outcomes, FinishTask(r) PROVE Told'
    <2> DEFINE e == Event(res.task, "Finished", 0)
    <2>1. res \in Results /\ ~Over /\ pc' \notin {"spawn", "report"}
      BY <1>3 DEF FinishTask, IInv, InHand, Over, NotifyFailed, Bail
    <2>2. res # NoResult /\ res.task \in Tasks
      BY <2>1 DEF Results, NoResult
    <2>3. res.task \in running_tasks
      BY <2>1, <2>2 DEF IInv, Mail
    <2>4. e \in Events /\ e.task = res.task /\ e.ty = "Finished"
      BY <2>2 DEF Event, Events
    <2>5. /\ UNCHANGED <<timeout_queue, waiting_tasks>>
          /\ running_tasks' = running_tasks \ {res.task}
          /\ log' = log \/ log' = Append(log, e)
      BY <1>3 DEF FinishTask
    <2> HIDE DEF e
    <2>6. CASE log' = log
      BY <2>1, <2>5, <2>6, <1>l, <1>o DEF Told
    <2>7. CASE log' = Append(log, e)
      <3>1. \A k \in 1..Len(log) : log[k].task = e.task => Rank(log[k]) < Rank(e)
        <4>1. \A k \in 1..Len(log) : log[k].task = e.task => log[k].ty # "Finished"
          BY <2>3, <2>4, <1>l DEF Told
        <4>2. \A k \in 1..Len(log) : log[k].task = e.task => Rank(log[k]) = 0 \/ Rank(log[k]) = 1
          BY <4>1, <1>t, RankFacts
        <4>3. Rank(e) = 2
          BY <2>4, RankFacts
        <4> QED BY <4>2, <4>3
      <3>2. EventOrder'
        BY <2>4, <2>7, <3>1, <1>t, <1>l, OrderKept DEF Told
      <3>3. /\ log'[Len(log) + 1] = e
            /\ \A k \in 1..Len(log) : log'[k] = log[k] /\ k \in 1..Len(log')
            /\ \A k \in 1..Len(log') : k \in 1..Len(log) \/ k = Len(log) + 1
        BY <2>4, <2>7, <1>a
      <3>4. \A i \in 1..Len(waiting_tasks) : waiting_tasks[i] # res.task
        BY <2>3 DEF IInv, Places
      <3>5. \A k \in 1..Len(log') : \A i \in 1..Len(waiting_tasks') : log'[k].task # waiting_tasks'[i]
        BY <2>4, <2>5, <3>3, <3>4, <1>l DEF Told
      <3>6. \A t \in running_tasks' :
            /\ \A k \in 1..Len(log') : log'[k].task = t => log'[k].ty # "Finished"
            /\ \E k \in 1..Len(log') : log'[k].task = t /\ log'[k].ty = "Wait"
        <4>1. \A t \in running_tasks' : t \in running_tasks /\ t # res.task
          BY <2>5
        <4>2. \A t \in running_tasks :
                 /\ \A k \in 1..Len(log) : log[k].task = t => log[k].ty # "Finished"
                 /\ \E k \in 1..Len(log) : log[k].task = t /\ log[k].ty = "Wait"
          BY <1>l DEF Told
        <4>3. ASSUME NEW t \in running_tasks'
              PROVE  \A k \in 1..Len(log') : log'[k].task = t => log'[k].ty # "Finished"
          BY <2>4, <3>3, <4>1, <4>2
        <4>4. ASSUME NEW t \in running_tasks'
              PROVE  \E k \in 1..Len(log') : log'[k].task = t /\ log'[k].ty = "Wait"
          BY <3>3, <4>1, <4>2
        <4> QED BY <4>3, <4>4
      <3>7. \A k \in 1..Len(log') : \A i \in 1..Len(timeout_queue') :
            log'[k].task = timeout_queue'[i].task => log'[k].ty # "Timeout"
        BY <2>4, <2>5, <3>3, <1>l DEF Told
      <3> QED BY <2>1, <3>2, <3>5, <3>6, <3>7 DEF Told
    <2> QED BY <2>5, <2>6, <2>7
  <1>4. CASE StartTask
    <2>1. loading \in Situations /\ loading.task \in Tasks
      BY <1>4 DEF StartTask, IInv, InHand, Situations
    <2>2. pc = "spawn" /\ pc' = "loop" /\ timeout_queue' = Append(timeout_queue, loading)
          /\ UNCHANGED <<log, waiting_tasks>> /\ running_tasks' = running_tasks \cup {loading.task}
      BY <1>4 DEF StartTask
    <2>3. /\ timeout_queue'[Len(timeout_queue) + 1] = loading
          /\ \A i \in 1..Len(timeout_queue) : timeout_queue'[i] = timeout_queue[i]
          /\ \A i \in 1..Len(timeout_queue') : i \in 1..Len(timeout_queue) \/ i = Len(timeout_queue) + 1
      BY <2>1, <2>2, <1>t, AppendFacts
    <2>4. \A k \in 1..Len(log') : \A i \in 1..Len(timeout_queue') :
             log'[k].task = timeout_queue'[i].task => log'[k].ty # "Timeout"
      BY <2>2, <2>3, <1>l DEF Told
    <2>5. \A t \in running_tasks' :
            /\ \A k \in 1..Len(log') : log'[k].task = t => log'[k].ty # "Finished"
            /\ \E k \in 1..Len(log') : log'[k].task = t /\ log'[k].ty = "Wait"
      <3>1. \A t \in running_tasks :
               /\ \A k \in 1..Len(log) : log[k].task = t => log[k].ty # "Finished"
               /\ \E k \in 1..Len(log) : log[k].task = t /\ log[k].ty = "Wait"
        BY <1>l DEF Told
      <3>2. /\ \A k \in 1..Len(log) : log[k].task = loading.task => log[k].ty = "Wait"
            /\ \E k \in 1..Len(log) : log[k].task = loading.task
        BY <2>2, <1>l DEF Told
      <3>3. /\ \A k \in 1..Len(log) : log[k].task = loading.task => log[k].ty # "Finished"
            /\ \E k \in 1..Len(log) : log[k].task = loading.task /\ log[k].ty = "Wait"
        BY <3>2
      <3> QED BY <2>2, <3>1, <3>3
    <2> QED BY <2>2, <2>4, <2>5, <1>l, <1>o DEF Told
  <1>5. CASE BeginWait
    BY <1>5, <1>f DEF BeginWait
  <1>6. CASE Recv
    BY <1>6, <1>f DEF Recv
  <1>7. CASE RecvTimeout
    BY <1>7, <1>f DEF RecvTimeout
  <1>8. CASE AllTimedOutTasksInfo
    <2>1. PICK n \in 0..Len(timeout_queue) :
             /\ timeout_queue' = SubSeq(timeout_queue, n + 1, Len(timeout_queue))
             /\ timed_out' = SubSeq(timeout_queue, 1, n)
      BY <1>8 DEF AllTimedOutTasksInfo
    <2>2. /\ Len(timed_out') = n /\ Len(timeout_queue') = Len(timeout_queue) - n
          /\ \A i \in 1..n : timed_out'[i] = timeout_queue[i] /\ i \in 1..Len(timeout_queue)
          /\ \A i \in 1..(Len(timeout_queue) - n) : timeout_queue'[i] = timeout_queue[i + n] /\ i + n \in 1..Len(timeout_queue)
      BY <2>1, <1>t, SplitFacts
    <2>3. UNCHANGED <<log, waiting_tasks, running_tasks>> /\ pc' = "report"
      BY <1>8 DEF AllTimedOutTasksInfo
    <2>4. \A k \in 1..Len(log) : \A i \in 1..Len(timeout_queue) :
             log[k].task = timeout_queue[i].task => log[k].ty # "Timeout"
      BY <1>l DEF Told
    <2>5. \A k \in 1..Len(log') : \A i \in 1..Len(timeout_queue') :
             log'[k].task = timeout_queue'[i].task => log'[k].ty # "Timeout"
      <3> SUFFICES ASSUME NEW k \in 1..Len(log), NEW i \in 1..Len(timeout_queue'),
                          log[k].task = timeout_queue'[i].task
                   PROVE  log[k].ty # "Timeout"
        BY <2>3
      <3>1. timeout_queue'[i] = timeout_queue[i + n] /\ i + n \in 1..Len(timeout_queue)
        BY <2>2
      <3> QED BY <3>1, <2>4
    <2>6. \A k \in 1..Len(log') : \A i \in 1..Len(timed_out') :
             log'[k].task = timed_out'[i].task => log'[k].ty # "Timeout"
      BY <2>2, <2>3, <2>4
    <2> QED BY <2>3, <2>5, <2>6, <1>l, <1>o DEF Told
  <1>9. CASE EndReport
    BY <1>9, <1>f DEF EndReport
  <1>10. CASE ReturnOk
    BY <1>10, <1>f DEF ReturnOk
  <1>11. ASSUME NEW t \in Tasks, Thread(t) PROVE Told'
    <2>1. UNCHANGED <<pc, loading, timeout_queue, timed_out, log, waiting_tasks, running_tasks>>
      BY <1>11 DEF Thread, Send, CrashBeforeSend, EndThread, executorVars
    <2> QED BY <2>1, <1>l, <1>o DEF Told
  <1>12. CASE Tick
    BY <1>12, <1>l, <1>o DEF Tick, executorVars, Told
  <1>13. CASE UNCHANGED vars
    BY <1>13, <1>l, <1>o DEF vars, Told
  <1> QED
    BY <1>1, <1>2, <1>3, <1>4, <1>5, <1>6, <1>7, <1>8, <1>9, <1>10, <1>11, <1>12, <1>13
    DEF Next, Executor

\* Time only moves on, and the executor never reports a longer wait than it made.
LEMMA ClockStep == IInv /\ [Next]_vars => Clock'
  <1> SUFFICES ASSUME IInv, [Next]_vars PROVE Clock'
    OBVIOUS
  <1>t. /\ log \in Seq(Events) /\ startedAt \in [Tasks -> Nat] /\ now \in Nat /\ wake \in Nat
        /\ timeout_queue \in Seq(Situations) /\ timed_out \in Seq(Situations) /\ timeout \in Nat
        /\ Timeout \in Nat
    BY TimeAssumption DEF TimeAssumption, IInv, TypeOK
  <1>l. Clock
    BY DEF IInv
  <1>s. \A x \in Situations : x.task \in Tasks /\ x.deadline \in Nat
    BY DEF Situations
  <1>q. \A i \in 1..Len(timeout_queue) : timeout_queue[i].deadline \in Nat
    BY <1>s, <1>t
  <1>k. \A k \in 1..Len(log) : log[k].task \in Tasks /\ log[k].secs \in Nat
    BY <1>t, RankFacts
  <1>d. ASSUME NEW e \in Events, log' = Append(log, e), UNCHANGED <<startedAt, now>>,
               e.ty = "Timeout" => startedAt[e.task] + e.secs <= now
        PROVE TimeoutSound'
    <2>1. /\ Len(log') = Len(log) + 1 /\ log'[Len(log) + 1] = e
          /\ \A k \in 1..Len(log) : log'[k] = log[k]
          /\ \A k \in 1..Len(log') : k \in 1..Len(log) \/ k = Len(log) + 1
      BY <1>d, <1>t, AppendFacts
    <2>2. \A k \in 1..Len(log) : log[k].ty = "Timeout" => startedAt[log[k].task] + log[k].secs <= now
      BY <1>l DEF Clock, TimeoutSound
    <2> QED BY <1>d, <2>1, <2>2 DEF TimeoutSound
  <1>u. UNCHANGED <<log, startedAt, now>> => TimeoutSound'
    BY <1>l DEF Clock, TimeoutSound
  <1>f. ASSUME UNCHANGED <<startedAt, now, timeout_queue>>, TimeoutSound',
               pc' \notin {"spawn", "recv_timeout", "sweep", "report"}
        PROVE Clock'
    BY <1>f, <1>l DEF Clock
  <1>1. ASSUME NEW r \in Outcomes, LoadTask(r) PROVE Clock'
    <2>1. Head(waiting_tasks) \in Tasks
      BY <1>1 DEF LoadTask, HasRoom, IInv, TypeOK
    <2>2. Event(Head(waiting_tasks), "Wait", 0) \in Events /\ Event(Head(waiting_tasks), "Wait", 0).ty = "Wait"
      BY <2>1 DEF Event, Events
    <2>3. UNCHANGED <<startedAt, now, timeout_queue>> /\ loading'.deadline = now + Timeout
          /\ log' = Append(log, Event(Head(waiting_tasks), "Wait", 0)) /\ pc' \in {"spawn", "err"}
      BY <1>1 DEF LoadTask, NotifyFailed
    <2>4. TimeoutSound'
      BY <1>d, <2>2, <2>3
    <2> QED BY <2>3, <2>4, <1>t, <1>l DEF Clock
  <1>2. ASSUME NEW r \in Outcomes, ReportTimeout(r) PROVE Clock'
    <2>1. /\ timed_out # <<>> /\ pc = "report" /\ pc' \in {"report", "err"}
          /\ UNCHANGED <<startedAt, now, timeout_queue, timeout, wake>>
      BY <1>2 DEF ReportTimeout, NotifyFailed
    <2>2. Head(timed_out) \in Situations
      BY <2>1, <1>t
    <2> DEFINE e == Event(Head(timed_out).task, "Timeout", ReportedSecs)
    <2>3. e \in Events /\ e.task = Head(timed_out).task /\ e.secs = timeout /\ e.task \in Tasks
      BY <2>2, <1>t DEF Event, Events, ReportedSecs, Situations
    <2>4. startedAt[e.task] + e.secs <= now
      <3> HIDE DEF e
      <3>1. startedAt[e.task] + timeout <= wake /\ wake <= now /\ startedAt[e.task] \in Nat
        BY <2>1, <2>3, <1>t, <1>l DEF Clock
      <3> QED BY <3>1, <2>3, <1>t
    <2>5. log' = log \/ log' = Append(log, e)
      BY <1>2 DEF ReportTimeout
    <2>6. TimeoutSound'
      <3> HIDE DEF e
      <3> QED BY <2>1, <2>3, <2>4, <2>5, <1>d, <1>u
    <2> QED BY <2>1, <2>6, <1>l DEF Clock
  <1>3. ASSUME NEW r \in Outcomes, FinishTask(r) PROVE Clock'
    <2>1. res \in Results
      BY <1>3 DEF FinishTask, IInv, InHand
    <2>2. Event(res.task, "Finished", 0) \in Events /\ Event(res.task, "Finished", 0).ty = "Finished"
      BY <2>1 DEF Event, Events, Results
    <2>3. UNCHANGED <<startedAt, now, timeout_queue>> /\ pc' \in {"loop", "err"}
          /\ (log' = log \/ log' = Append(log, Event(res.task, "Finished", 0)))
      BY <1>3 DEF FinishTask, NotifyFailed, Bail
    <2>4. TimeoutSound'
      BY <1>d, <1>u, <2>2, <2>3
    <2> QED BY <1>f, <2>3, <2>4
  <1>4. CASE StartTask
    <2>1. loading \in Situations /\ loading.task \in Tasks /\ loading.deadline \in Nat
      BY <1>4, <1>s DEF StartTask, IInv, InHand
    <2>2. pc = "spawn" /\ pc' = "loop" /\ timeout_queue' = Append(timeout_queue, loading)
          /\ UNCHANGED <<log, now>> /\ startedAt' = [startedAt EXCEPT ![loading.task] = now]
      BY <1>4 DEF StartTask
    <2>3. /\ Len(timeout_queue') = Len(timeout_queue) + 1
          /\ timeout_queue'[Len(timeout_queue) + 1] = loading
          /\ \A i \in 1..Len(timeout_queue) : timeout_queue'[i] = timeout_queue[i]
          /\ \A i \in 1..Len(timeout_queue') : i \in 1..Len(timeout_queue) \/ i = Len(timeout_queue) + 1
      BY <2>1, <2>2, <1>t, AppendFacts
    <2>4. \A t \in Tasks : startedAt'[t] <= now'
      BY <2>1, <2>2, <1>t, <1>l DEF Clock
    <2>5. \A i \in 1..Len(timeout_queue') : timeout_queue'[i].deadline <= now' + Timeout
      BY <2>2, <2>3, <1>l DEF Clock
    <2>6. \A i, j \in 1..Len(timeout_queue') :
             i < j => timeout_queue'[i].deadline <= timeout_queue'[j].deadline
      <3> SUFFICES ASSUME NEW i \in 1..Len(timeout_queue'), NEW j \in 1..Len(timeout_queue'), i < j
                   PROVE  timeout_queue'[i].deadline <= timeout_queue'[j].deadline
        OBVIOUS
      <3>1. i \in 1..Len(timeout_queue)
        BY <2>3
      <3>2. CASE j \in 1..Len(timeout_queue)
        BY <3>1, <3>2, <2>3, <1>l DEF Clock
      <3>3. CASE j = Len(timeout_queue) + 1
        BY <3>1, <3>3, <2>2, <2>3, <1>l DEF Clock
      <3> QED BY <3>2, <3>3, <2>3
    <2>7. TimeoutSound'
      <3>1. \A k \in 1..Len(log) : log[k].ty = "Timeout" => log[k].task # loading.task
        BY <2>2 DEF IInv, Told
      <3>2. \A k \in 1..Len(log) : log[k].ty = "Timeout" => startedAt[log[k].task] + log[k].secs <= now
        BY <1>l DEF Clock, TimeoutSound
      <3>3. \A t \in Tasks : t # loading.task => startedAt'[t] = startedAt[t]
        BY <2>2, <1>t
      <3> QED BY <2>2, <3>1, <3>2, <3>3, <1>k DEF TimeoutSound
    <2>8. pc' \notin {"spawn", "recv_timeout", "sweep", "report"}
      BY <2>2
    <2> QED BY <2>4, <2>5, <2>6, <2>7, <2>8 DEF Clock
  <1>5. CASE BeginWait
    <2>1. UNCHANGED <<startedAt, now, timeout_queue, log>> /\ pc' \in {"recv", "recv_timeout"}
      BY <1>5 DEF BeginWait
    <2>2. CASE pc' = "recv"
      BY <2>1, <2>2, <1>f, <1>u
    <2>3. CASE pc' = "recv_timeout"
      <3>1. timeout_queue # <<>> /\ timeout' = Deadline /\ wake' = now + Deadline
        BY <1>5, <2>3 DEF BeginWait
      <3>2. Head(timeout_queue) = timeout_queue[1] /\ 1 \in 1..Len(timeout_queue)
        BY <3>1, <1>t, TailFacts
      <3> DEFINE d == timeout_queue[1].deadline
      <3>3. d \in Nat /\ Deadline = IF d >= now THEN d - now ELSE 0
        BY <3>2, <1>q DEF Deadline
      <3>4. \A i \in 1..Len(timeout_queue) : d <= timeout_queue[i].deadline
        <4> SUFFICES ASSUME NEW i \in 1..Len(timeout_queue) PROVE d <= timeout_queue[i].deadline
          OBVIOUS
        <4>1. CASE i = 1
          BY <4>1, <3>3, <1>q
        <4>2. CASE 1 < i
          BY <4>2, <3>2, <1>l DEF Clock
        <4> QED BY <4>1, <4>2
      <3> HIDE DEF d
      <3>5. wake' <= now' \/ \A i \in 1..Len(timeout_queue') : wake' <= timeout_queue'[i].deadline
        <4>1. CASE d >= now
          <5>1. wake' = d
            BY <4>1, <3>1, <3>3, <1>t
          <5> QED BY <5>1, <3>4, <2>1
        <4>2. CASE ~(d >= now)
          BY <4>2, <2>1, <3>1, <3>3, <1>t
        <4> QED BY <4>1, <4>2
      <3>6. \A t \in Tasks : startedAt'[t] + timeout' <= wake'
        <4>1. \A t \in Tasks : startedAt[t] <= now /\ startedAt[t] \in Nat
          BY <1>t, <1>l DEF Clock
        <4>2. Deadline \in Nat
          BY <3>3, <1>t
        <4> QED BY <4>1, <4>2, <3>1, <2>1, <1>t
      <3> QED BY <2>1, <2>3, <3>5, <3>6, <1>l, <1>u DEF Clock
    <2> QED BY <2>1, <2>2, <2>3
  <1>6. CASE Recv
    BY <1>6, <1>f, <1>u DEF Recv
  <1>7. CASE RecvTimeout
    <2>1. UNCHANGED <<startedAt, now, timeout_queue, log, wake, timeout>> /\ pc = "recv_timeout" /\ pc' = "sweep"
      BY <1>7 DEF RecvTimeout
    <2> QED BY <2>1, <1>l, <1>u DEF Clock
  <1>8. CASE AllTimedOutTasksInfo
    <2>1. PICK n \in 0..Len(timeout_queue) :
             /\ \A i \in 1..n : timeout_queue[i].deadline <= now
             /\ timeout_queue' = SubSeq(timeout_queue, n + 1, Len(timeout_queue))
             /\ timed_out' = SubSeq(timeout_queue, 1, n)
      BY <1>8 DEF AllTimedOutTasksInfo
    <2>2. /\ Len(timed_out') = n /\ Len(timeout_queue') = Len(timeout_queue) - n
          /\ \A i \in 1..n : timed_out'[i] = timeout_queue[i] /\ i \in 1..Len(timeout_queue)
          /\ \A i \in 1..(Len(timeout_queue) - n) : timeout_queue'[i] = timeout_queue[i + n] /\ i + n \in 1..Len(timeout_queue)
      BY <2>1, <1>t, SplitFacts
    <2>3. UNCHANGED <<startedAt, now, log, wake, timeout>> /\ pc = "sweep" /\ pc' = "report"
      BY <1>8 DEF AllTimedOutTasksInfo
    <2>4. timed_out' # <<>> => wake' <= now'
      <3>1. SUFFICES ASSUME timed_out' # <<>> PROVE wake <= now
        BY <2>3
      <3>2. 1 \in 1..n
        <4>1. timed_out' \in Seq(Situations)
          BY <2>1, <1>t
        <4>2. Len(timed_out') # 0
          BY <3>1, <4>1
        <4> QED BY <4>2, <2>2
      <3>3. timeout_queue[1].deadline <= now /\ 1 \in 1..Len(timeout_queue) /\ timeout_queue[1].deadline \in Nat
        BY <3>2, <2>1, <2>2, <1>q
      <3>4. wake <= now \/ wake <= timeout_queue[1].deadline
        BY <3>3, <2>3, <1>l DEF Clock
      <3> QED BY <3>3, <3>4, <1>t
    <2>5. \A i \in 1..Len(timeout_queue') : timeout_queue'[i].deadline <= now' + Timeout
      BY <2>2, <2>3, <1>l DEF Clock
    <2>6. \A i, j \in 1..Len(timeout_queue') :
             i < j => timeout_queue'[i].deadline <= timeout_queue'[j].deadline
      <3> SUFFICES ASSUME NEW i \in 1..Len(timeout_queue'), NEW j \in 1..Len(timeout_queue'), i < j
                   PROVE  timeout_queue[i + n].deadline <= timeout_queue[j + n].deadline
        BY <2>2
      <3>1. i + n \in 1..Len(timeout_queue) /\ j + n \in 1..Len(timeout_queue) /\ i + n < j + n
        BY <2>2
      <3> QED BY <3>1, <1>l DEF Clock
    <2>7. \A t \in Tasks : startedAt'[t] <= now' /\ startedAt'[t] + timeout' <= wake'
      BY <2>3, <1>l DEF Clock
    <2> QED BY <2>3, <2>4, <2>5, <2>6, <2>7, <1>u DEF Clock
  <1>9. CASE EndReport
    BY <1>9, <1>f, <1>u DEF EndReport
  <1>10. CASE ReturnOk
    BY <1>10, <1>f, <1>u DEF ReturnOk
  <1>11. ASSUME NEW t \in Tasks, Thread(t) PROVE Clock'
    <2>1. UNCHANGED <<pc, loading, timeout_queue, timed_out, log, startedAt, now, wake, timeout>>
      BY <1>11 DEF Thread, Send, CrashBeforeSend, EndThread, executorVars
    <2> QED BY <2>1, <1>l, <1>u DEF Clock
  <1>12. CASE Tick
    <2>1. UNCHANGED <<pc, loading, timeout_queue, timed_out, log, startedAt, wake, timeout>> /\ now' = now + 1
      BY <1>12 DEF Tick, executorVars
    <2>2. \A x \in Int : x <= now => x <= now'
      BY <2>1, <1>t
    <2>3. \A t \in Tasks : startedAt[t] \in Nat
      BY <1>t
    <2>4. \A t \in Tasks : startedAt'[t] <= now'
      BY <2>1, <2>3, <1>t, <1>l DEF Clock
    <2>5. \A i \in 1..Len(timeout_queue') : timeout_queue'[i].deadline <= now' + Timeout
      BY <2>1, <1>q, <1>t, <1>l DEF Clock
    <2>6. pc' = "spawn" => loading'.deadline <= now' + Timeout
      <3>1. pc = "spawn" => loading.deadline \in Nat /\ loading.deadline <= now + Timeout
        BY <1>s, <1>l DEF IInv, InHand, Clock
      <3> QED BY <3>1, <2>1, <1>t
    <2>7. /\ pc' \in {"recv_timeout", "sweep"} =>
             wake' <= now' \/ \A i \in 1..Len(timeout_queue') : wake' <= timeout_queue'[i].deadline
          /\ pc' = "report" /\ timed_out' # <<>> => wake' <= now'
      BY <2>1, <2>2, <1>t, <1>l DEF Clock
    <2>8. TimeoutSound'
      <3>1. \A k \in 1..Len(log) : log[k].ty = "Timeout" => startedAt[log[k].task] + log[k].secs <= now
        BY <1>l DEF Clock, TimeoutSound
      <3>2. \A k \in 1..Len(log) : startedAt[log[k].task] + log[k].secs \in Int
        BY <1>k, <1>t
      <3> QED BY <2>1, <2>2, <3>1, <3>2 DEF TimeoutSound
    <2> QED BY <2>1, <2>4, <2>5, <2>6, <2>7, <2>8, <1>l DEF Clock
  <1>13. CASE UNCHANGED vars
    BY <1>13, <1>l, <1>u DEF vars, Clock
  <1> QED
    BY <1>1, <1>2, <1>3, <1>4, <1>5, <1>6, <1>7, <1>8, <1>9, <1>10, <1>11, <1>12, <1>13
    DEF Next, Executor

\* The parts of the invariant support one another and are preserved together.
LEMMA InvStep == IInv /\ [Next]_vars => IInv'
  <1> SUFFICES ASSUME IInv, [Next]_vars PROVE IInv'
    OBVIOUS
  <1>1. TypeOK' /\ InHand'
    BY TypeStep DEF IInv
  <1> QED
    BY <1>1, BudgetStep, MailStep, PlacesStep, QueuedStep, ToldStep, ClockStep DEF IInv

\* A live thread always has a handle and there are never more handles than the
\* capacity; every result finds its handle; Ok(()) leaves nothing behind.
LEMMA InvAccounts == IInv => ThreadsAccounted
  <1> SUFFICES ASSUME IInv PROVE ThreadsAccounted
    OBVIOUS
  <1>1. ThreadBound
    <2>1. Live \subseteq running_tasks
      BY DEF IInv, Budget, Live
    <2>2. IsFiniteSet(running_tasks) /\ Cardinality(running_tasks) <= Capacity
      <3>1. IsFiniteSet(running_tasks) /\ Cardinality(running_tasks) <= running_count /\ running_count <= Capacity
            /\ running_count \in Nat
        BY DEF IInv, Budget, TypeOK
      <3>2. Cardinality(running_tasks) \in Nat
        BY <3>1, FS_CardinalityType
      <3> QED BY <3>1, <3>2, CapacityAssumption DEF CapacityAssumption
    <2>3. IsFiniteSet(Live) /\ Cardinality(Live) <= Cardinality(running_tasks)
      BY <2>1, <2>2, FS_Subset
    <2>4. Cardinality(Live) \in Nat /\ Cardinality(running_tasks) \in Nat
      BY <2>2, <2>3, FS_CardinalityType
    <2> QED BY <2>2, <2>3, <2>4, CapacityAssumption DEF CapacityAssumption, ThreadBound
  <1>2. NoOrphanResult
    BY DEF IInv, Mail, Over, NoOrphanResult
  <1>3. OkMeansAllFinished
    <2> SUFFICES ASSUME pc = "ok", NEW t \in Tasks
                 PROVE  Done(t) /\ thread[t] \in {"ended", "panicked"}
      BY DEF OkMeansAllFinished, Done
    <2>1. waiting_tasks = <<>> /\ running_count = 0
      BY DEF IInv, Places
    <2>2. running_tasks = {}
      <3>1. IsFiniteSet(running_tasks) /\ Cardinality(running_tasks) <= 0
        BY <2>1 DEF IInv, Budget
      <3>2. Cardinality(running_tasks) \in Nat
        BY <3>1, FS_CardinalityType
      <3> QED BY <3>1, <3>2, FS_EmptySet
    <2> QED BY <2>1, <2>2 DEF IInv, Places
  <1> QED
    BY <1>1, <1>2, <1>3 DEF ThreadsAccounted

\* run_all_tasks never has more threads alive than its capacity, finds a handle
\* for every result, and returns Ok(()) only when every task has finished.
THEOREM Accounted == Spec => []ThreadsAccounted
  BY InvInit, InvStep, InvAccounts, PTL DEF Spec

\* The notifier hears Wait, Timeout and Finished of a task in that order, each
\* at most once, and never of a longer run than the task has had.
THEOREM EventsTrue == Spec => []EventsHonest
  <1>1. IInv => EventsHonest
    BY DEF IInv, Told, Clock, EventsHonest
  <1> QED BY InvInit, InvStep, <1>1, PTL DEF Spec

----------------------------------------------------------------------------
(* The refinement of TaskPool, step by step. *)

\* Appending an event adds its task to Announced or to Finished, or to neither.
LEMMA LogMoves ==
  ASSUME NEW e \in Events, log \in Seq(Events), log' = Append(log, e)
  PROVE  /\ e.ty = "Wait" => Announced' = Announced \cup {e.task} /\ Finished' = Finished
         /\ e.ty = "Timeout" => Announced' = Announced /\ Finished' = Finished
         /\ e.ty = "Finished" => Announced' = Announced /\ Finished' = Finished \cup {e.task}
  <1>1. /\ Len(log') = Len(log) + 1 /\ log'[Len(log) + 1] = e
        /\ \A k \in 1..Len(log) : log'[k] = log[k] /\ k \in 1..Len(log')
        /\ \A k \in 1..Len(log') : k \in 1..Len(log) \/ k = Len(log) + 1
        /\ Len(log) + 1 \in 1..Len(log')
    BY AppendFacts
  <1>2. e.task \in Tasks
    BY RankFacts
  <1>3. ASSUME NEW t \in Tasks, NEW ty \in {"Wait", "Timeout", "Finished"}
        PROVE (\E k \in 1..Len(log') : log'[k].task = t /\ log'[k].ty = ty)
              <=> \/ \E k \in 1..Len(log) : log[k].task = t /\ log[k].ty = ty
                  \/ e.task = t /\ e.ty = ty
    BY <1>1
  <1> QED BY <1>2, <1>3 DEF Announced, Finished

\* A task in hand is running, or just popped: what is active is within the budget.
LEMMA ActiveIsRunning ==
  ASSUME IInv, pc # "err"
  PROVE  /\ Announced \ Finished \subseteq running_tasks \cup (IF pc = "spawn" THEN {loading.task} ELSE {})
         /\ running_tasks \subseteq Announced \ Finished
  <1>1. ASSUME NEW t \in Announced, t \notin Finished, t \notin running_tasks
        PROVE pc = "spawn" /\ t = loading.task
    <2>1. t \in Tasks /\ ~Done(t)
      BY <1>1 DEF Announced, Finished, Done
    <2>2. \A i \in 1..Len(waiting_tasks) : waiting_tasks[i] # t
      BY <1>1 DEF Announced, IInv, Told
    <2> QED BY <1>1, <2>1, <2>2 DEF IInv, Places
  <1>2. running_tasks \subseteq Announced \ Finished
    BY DEF IInv, TypeOK, Told, Announced, Finished
  <1> QED BY <1>1, <1>2

\* The empty books are the pool's initial state.
LEMMA PoolInit == Init => Pool!Init
  BY DEF Init, Pool!Init, Announced, Finished

\* Every step of run_all_tasks, its threads and the clock is a step of the pool
\* or leaves what the pool shows unchanged.
LEMMA PoolStep == IInv /\ [Next]_vars => [Pool!Next]_(Pool!poolVars)
  <1> SUFFICES ASSUME IInv, [Next]_vars PROVE [Pool!Next]_(Pool!poolVars)
    OBVIOUS
  <1>t. log \in Seq(Events) /\ waiting_tasks \in Seq(Tasks) /\ running_tasks \in SUBSET Tasks
        /\ running_count \in Nat /\ Capacity \in Nat \ {0}
    BY CapacityAssumption DEF CapacityAssumption, IInv, TypeOK
  <1>u. log' = log => Announced' = Announced /\ Finished' = Finished
    BY DEF Announced, Finished
  <1>f. ASSUME log' = log, waiting_tasks' = waiting_tasks, pc \notin {"ok", "err"}, pc' \notin {"ok", "err"}
        PROVE UNCHANGED Pool!poolVars
    BY <1>f, <1>u DEF Pool!poolVars
  <1>c. ASSUME pc \notin {"spawn", "err"}
        PROVE /\ IsFiniteSet(Announced \ Finished)
              /\ Cardinality(Announced \ Finished) <= running_count
              /\ running_count = 0 => Announced \ Finished = {}
    <2>1. Announced \ Finished = running_tasks
      BY <1>c, ActiveIsRunning
    <2>2. IsFiniteSet(running_tasks) /\ Cardinality(running_tasks) <= running_count
      BY DEF IInv, Budget
    <2>3. Cardinality(running_tasks) \in Nat
      BY <2>2, FS_CardinalityType
    <2>4. running_count = 0 => running_tasks = {}
      BY <2>2, <2>3, FS_EmptySet
    <2> QED BY <2>1, <2>2, <2>4
  <1>1. ASSUME NEW r \in Outcomes, LoadTask(r) PROVE Pool!Next
    <2> DEFINE h == Head(waiting_tasks)
               e == Event(h, "Wait", 0)
    <2>1. /\ waiting_tasks # <<>> /\ pc = "loop" /\ waiting_tasks' = Tail(waiting_tasks)
          /\ running_count < Capacity /\ pc' \in {"spawn", "err"} /\ log' = Append(log, e)
      BY <1>1 DEF LoadTask, HasRoom, NotifyFailed
    <2>2. h = waiting_tasks[1] /\ h \in Tasks /\ 1 \in 1..Len(waiting_tasks)
      BY <2>1, <1>t, TailFacts
    <2>3. e \in Events /\ e.task = h /\ e.ty = "Wait"
      BY <2>2 DEF Event, Events
    <2>4. h \notin Finished
      BY <2>2 DEF Finished, IInv, Told
    <2>5. Announced' = Announced \cup {h} /\ Finished' = Finished
      <3> HIDE DEF e
      <3> QED BY <2>1, <2>3, <1>t, LogMoves
    <2>6. Cardinality(Announced \ Finished) < Capacity
      <3>1. IsFiniteSet(Announced \ Finished) /\ Cardinality(Announced \ Finished) <= running_count
        BY <2>1, <1>c
      <3>2. Cardinality(Announced \ Finished) \in Nat
        BY <3>1, FS_CardinalityType
      <3> QED BY <3>1, <3>2, <2>1, <1>t
    <2>7. (Announced \ Finished)' = (Announced \ Finished) \cup {h}
      BY <2>4, <2>5
    <2>8. /\ (IF pc \in {"ok", "err"} THEN pc ELSE "running") = "running"
          /\ (IF pc' \in {"ok", "err"} THEN pc' ELSE "running") \in {"running", "err"}
      BY <2>1
    <2>9. Pool!Take
      <3>1. waiting_tasks # <<>> /\ waiting_tasks' = Tail(waiting_tasks) /\ Finished' = Finished
        BY <2>1, <2>5
      <3>2. (Announced \ Finished)' = (Announced \ Finished) \cup {Head(waiting_tasks)}
        BY <2>7
      <3>3. Pool!Cardinality(Announced \ Finished) < Capacity
        BY <2>6 DEF Pool!Cardinality, Cardinality, Pool!IsFiniteSet, IsFiniteSet
      <3> QED BY <3>1, <3>2, <3>3, <2>8, Zenon DEF Pool!Take
    <2> QED BY <2>9 DEF Pool!Next
  <1>2. ASSUME NEW r \in Outcomes, ReportTimeout(r) PROVE [Pool!Next]_(Pool!poolVars)
    <2> DEFINE e == Event(Head(timed_out).task, "Timeout", ReportedSecs)
    <2>1. pc = "report" /\ timed_out # <<>> /\ waiting_tasks' = waiting_tasks /\ pc' \in {"report", "err"}
          /\ (log' = log \/ log' = Append(log, e))
      BY <1>2 DEF ReportTimeout, NotifyFailed
    <2>2. Head(timed_out) \in Situations /\ timeout \in Nat
      BY <2>1 DEF IInv, TypeOK
    <2>3. e \in Events /\ e.ty = "Timeout"
      BY <2>2 DEF Event, Events, ReportedSecs, Situations
    <2>4. Announced' = Announced /\ Finished' = Finished
      <3> HIDE DEF e
      <3> QED BY <2>1, <2>3, <1>t, <1>u, LogMoves
    <2>5. CASE pc' = "report"
      BY <2>1, <2>4, <2>5 DEF Pool!poolVars
    <2>6. CASE pc' = "err"
      BY <2>1, <2>4, <2>6 DEF Pool!Next, Pool!Return
    <2> QED BY <2>1, <2>5, <2>6
  <1>3. ASSUME NEW r \in Outcomes, FinishTask(r) PROVE Pool!Next
    <2> DEFINE e == Event(res.task, "Finished", 0)
    <2>1. res \in Results /\ ~Over /\ pc = "join"
      BY <1>3 DEF FinishTask, IInv, InHand, Over
    <2>2. res # NoResult /\ res.task \in Tasks
      BY <2>1 DEF Results, NoResult
    <2>3. res.task \in running_tasks
      BY <2>1, <2>2 DEF IInv, Mail
    <2>4. e \in Events /\ e.task = res.task /\ e.ty = "Finished"
      BY <2>2 DEF Event, Events
    <2>5. waiting_tasks' = waiting_tasks /\ pc' \in {"loop", "err"}
          /\ ((log' = log /\ pc' = "err") \/ log' = Append(log, e))
      BY <1>3 DEF FinishTask, Bail, NotifyFailed
    <2>6. CASE log' = log /\ pc' = "err"
      BY <2>1, <2>5, <2>6, <1>u DEF Pool!Next, Pool!Return
    <2>7. CASE log' = Append(log, e)
      <3>1. Announced' = Announced /\ Finished' = Finished \cup {res.task}
        <4> HIDE DEF e
        <4> QED BY <2>4, <2>7, <1>t, LogMoves
      <3>2. res.task \in Announced \ Finished
        BY <2>1, <2>3, ActiveIsRunning
      <3>3. (Announced \ Finished)' = (Announced \ Finished) \ {res.task}
        BY <3>1
      <3>4. PICK t \in Tasks : t = res.task
        BY <2>2
      <3>5. Pool!Complete(t)
        BY <2>1, <2>5, <3>1, <3>2, <3>3, <3>4 DEF Pool!Complete
      <3> QED BY <3>5 DEF Pool!Next
    <2> QED BY <2>5, <2>6, <2>7
  <1>4. CASE StartTask
    BY <1>4, <1>f DEF StartTask
  <1>5. CASE BeginWait
    BY <1>5, <1>f DEF BeginWait
  <1>6. CASE Recv
    BY <1>6, <1>f DEF Recv
  <1>7. CASE RecvTimeout
    BY <1>7, <1>f DEF RecvTimeout
  <1>8. CASE AllTimedOutTasksInfo
    BY <1>8, <1>f DEF AllTimedOutTasksInfo
  <1>9. CASE EndReport
    BY <1>9, <1>f DEF EndReport
  <1>10. CASE ReturnOk
    <2>1. pc = "loop" /\ pc' = "ok" /\ running_count = 0 /\ waiting_tasks = <<>>
          /\ log' = log /\ waiting_tasks' = waiting_tasks
      BY <1>10 DEF ReturnOk, AllHandled
    <2>2. Announced \ Finished = {}
      BY <2>1, <1>c
    <2> QED BY <2>1, <2>2, <1>u DEF Pool!Next, Pool!Return
  <1>11. ASSUME log' = log, waiting_tasks' = waiting_tasks, pc' = pc
         PROVE UNCHANGED Pool!poolVars
    BY <1>11, <1>u DEF Pool!poolVars
  <1>12. ASSUME NEW t \in Tasks, Thread(t) PROVE UNCHANGED Pool!poolVars
    BY <1>12, <1>11 DEF Thread, Send, CrashBeforeSend, EndThread, executorVars
  <1>13. CASE Tick
    BY <1>13, <1>11 DEF Tick, executorVars
  <1>14. CASE UNCHANGED vars
    BY <1>14, <1>11 DEF vars
  <1> QED
    BY <1>1, <1>2, <1>3, <1>4, <1>5, <1>6, <1>7, <1>8, <1>9, <1>10, <1>12, <1>13, <1>14
    DEF Next, Executor

\* TimeoutExecutor implements TaskPool: tasks are taken in order, at most
\* Capacity are in hand, each is done once, and Ok(()) means all are.
THEOREM Refinement == Spec => ImplementsTaskPool
  BY InvInit, InvStep, PoolInit, PoolStep, PTL DEF Spec, ImplementsTaskPool, Pool!Spec

----------------------------------------------------------------------------
(* What the executor waits for. *)

InQueue(t) == \E i \in 1..Len(timeout_queue) : timeout_queue[i].task = t
InSweep(t) == pc = "report" /\ \E i \in 1..Len(timed_out) : timed_out[i].task = t

\* While the run goes on the count is exact, every handle has its deadline queued,
\* just swept or reported, and a result is in hand only from its receive to its join.
WaitInv ==
    ~Over =>
      /\ Cardinality(running_tasks) = running_count
      /\ \A t \in running_tasks : Reported(t) \/ InQueue(t) \/ InSweep(t)
      /\ pc \notin {"sweep", "report", "join"} => res = NoResult
      /\ pc = "recv" => timeout_queue = <<>>
      /\ NoResultLost

\* At first there is nothing to wait for.
LEMMA WaitInit == Init => WaitInv
  <1> SUFFICES ASSUME Init PROVE WaitInv
    OBVIOUS
  <1>1. Cardinality(running_tasks) = running_count /\ running_tasks = {} /\ res = NoResult
    BY FS_EmptySet DEF Init
  <1>2. pc = "loop"
    BY DEF Init
  <1> QED BY <1>1, <1>2 DEF WaitInv, NoResultLost

\* The steps that leave handles, count and queue alone.
LEMMA WaitFrame ==
  ASSUME IInv, WaitInv, [Next]_vars, ~Over',
         ~(\E r \in Outcomes : LoadTask(r) \/ ReportTimeout(r) \/ FinishTask(r)),
         ~StartTask, ~AllTimedOutTasksInfo
  PROVE  /\ ~Over /\ UNCHANGED <<running_tasks, running_count, timeout_queue, timed_out, log>>
         /\ pc' # "spawn" \/ pc = "spawn"
         /\ pc = "report" /\ pc' # "report" => timed_out = <<>>
  <1>1. CASE BeginWait \/ Recv \/ RecvTimeout \/ EndReport \/ ReturnOk
    BY <1>1 DEF BeginWait, Recv, RecvTimeout, EndReport, ReturnOk, Over
  <1>2. CASE (\E t \in Tasks : Thread(t)) \/ Tick \/ UNCHANGED vars
    <2>1. UNCHANGED <<pc, running_tasks, running_count, timeout_queue, timed_out, log>>
      BY <1>2 DEF Thread, Send, CrashBeforeSend, EndThread, Tick, executorVars, vars
    <2> QED BY <2>1 DEF Over
  <1> QED BY <1>1, <1>2 DEF Next, Executor

\* Handle and count go up together and come down together.
LEMMA ExactStep ==
  ASSUME IInv, WaitInv, [Next]_vars, ~Over'
  PROVE  Cardinality(running_tasks') = running_count'
  <1>t. running_count \in Nat /\ running_tasks \in SUBSET Tasks /\ IsFiniteSet(running_tasks)
    BY DEF IInv, TypeOK, Budget
  <1>1. ASSUME NEW r \in Outcomes, LoadTask(r) \/ ReportTimeout(r) PROVE Cardinality(running_tasks') = running_count'
    <2>1. ~Over /\ UNCHANGED <<running_tasks, running_count>>
      BY <1>1 DEF LoadTask, ReportTimeout, Over
    <2> QED BY <2>1 DEF WaitInv
  <1>2. ASSUME NEW r \in Outcomes, FinishTask(r) PROVE Cardinality(running_tasks') = running_count'
    <2>1. res \in Results /\ ~Over
      BY <1>2 DEF FinishTask, IInv, InHand, Over
    <2>2. res.task \in running_tasks
      BY <2>1 DEF IInv, Mail, Results, NoResult
    <2>3. running_tasks' = running_tasks \ {res.task} /\ running_count' = running_count - 1
      BY <1>2 DEF FinishTask, Bail, NotifyFailed, Over
    <2>4. Cardinality(running_tasks') = Cardinality(running_tasks) - 1
      BY <1>t, <2>2, <2>3, FS_RemoveElement
    <2> QED BY <2>1, <2>3, <2>4 DEF WaitInv
  <1>3. CASE StartTask
    <2>1. /\ ~Over /\ pc = "spawn" /\ running_tasks' = running_tasks \cup {loading.task}
          /\ running_count' = running_count + 1
      BY <1>3 DEF StartTask, Over
    <2>2. loading.task \notin running_tasks
      BY <2>1 DEF IInv, Places
    <2>3. Cardinality(running_tasks') = Cardinality(running_tasks) + 1
      BY <1>t, <2>1, <2>2, FS_AddElement
    <2> QED BY <2>1, <2>3 DEF WaitInv
  <1>4. CASE AllTimedOutTasksInfo
    <2>1. ~Over /\ UNCHANGED <<running_tasks, running_count>>
      BY <1>4 DEF AllTimedOutTasksInfo, Over
    <2> QED BY <2>1 DEF WaitInv
  <1>5. CASE ~(\E r \in Outcomes : LoadTask(r) \/ ReportTimeout(r) \/ FinishTask(r)) /\ ~StartTask /\ ~AllTimedOutTasksInfo
    BY <1>5, WaitFrame DEF WaitInv
  <1> QED BY <1>1, <1>2, <1>3, <1>4, <1>5

\* A report is never taken back.
LEMMA ReportedKept ==
  ASSUME log \in Seq(Events), log' = log \/ \E e \in Events : log' = Append(log, e), NEW t, Reported(t)
  PROVE  Reported(t)'
  <1>1. PICK i \in 1..Len(log) : log[i].task = t /\ log[i].ty = "Timeout"
    BY DEF Reported
  <1>2. i \in 1..Len(log') /\ log'[i] = log[i]
    BY AppendFacts
  <1> QED BY <1>1, <1>2 DEF Reported

\* A deadline leaves the queue for the sweep, and the sweep for a report.
LEMMA SweptStep ==
  ASSUME IInv, WaitInv, [Next]_vars, ~Over', NEW t \in running_tasks'
  PROVE  Reported(t)' \/ InQueue(t)' \/ InSweep(t)'
  <1>t. /\ log \in Seq(Events) /\ timeout_queue \in Seq(Situations) /\ timed_out \in Seq(Situations)
        /\ timeout \in Nat /\ running_tasks \subseteq Tasks
    BY DEF IInv, TypeOK
  <1>w. ~Over => \A u \in running_tasks : Reported(u) \/ InQueue(u) \/ InSweep(u)
    BY DEF WaitInv
  <1>1. ASSUME NEW r \in Outcomes, LoadTask(r) PROVE Reported(t)' \/ InQueue(t)' \/ InSweep(t)'
    <2>1. pc = "loop" /\ UNCHANGED <<running_tasks, timeout_queue>> /\ waiting_tasks # <<>>
          /\ log' = Append(log, Event(Head(waiting_tasks), "Wait", 0))
      BY <1>1 DEF LoadTask, HasRoom
    <2>2. Event(Head(waiting_tasks), "Wait", 0) \in Events
      BY <2>1, TailFacts DEF IInv, TypeOK, Event, Events
    <2>3. Reported(t) => Reported(t)'
      BY <1>t, <2>1, <2>2, ReportedKept
    <2>4. InQueue(t) => InQueue(t)'
      BY <2>1 DEF InQueue
    <2> QED BY <1>w, <2>1, <2>3, <2>4 DEF InSweep, Over
  <1>2. ASSUME NEW r \in Outcomes, ReportTimeout(r) PROVE Reported(t)' \/ InQueue(t)' \/ InSweep(t)'
    <2> DEFINE h == Head(timed_out)
               e == Event(h.task, "Timeout", ReportedSecs)
    <2>1. /\ pc = "report" /\ pc' = "report" /\ timed_out # <<>> /\ timed_out' = Tail(timed_out)
          /\ UNCHANGED <<running_tasks, timeout_queue>>
          /\ h.task \in running_tasks => log' = Append(log, e)
          /\ h.task \notin running_tasks => log' = log
      BY <1>2 DEF ReportTimeout, NotifyFailed, Over, StillRunning
    <2>2. /\ h = timed_out[1] /\ h \in Situations /\ Len(Tail(timed_out)) = Len(timed_out) - 1
          /\ \A i \in 1..Len(Tail(timed_out)) : Tail(timed_out)[i] = timed_out[i + 1]
      BY <1>t, <2>1, TailFacts
    <2>3. e \in Events /\ e.task = h.task /\ e.ty = "Timeout"
      BY <1>t, <2>2 DEF Event, Events, ReportedSecs, Situations
    <2>4. Reported(t) => Reported(t)'
      <3> HIDE DEF e
      <3> QED BY <1>t, <2>1, <2>3, ReportedKept
    <2>5. InQueue(t) => InQueue(t)'
      BY <2>1 DEF InQueue
    <2>6. h.task = t => Reported(t)'
      <3> SUFFICES ASSUME h.task = t PROVE Reported(t)'
        OBVIOUS
      <3>1. log' = Append(log, e)
        BY <2>1
      <3> HIDE DEF e, h
      <3>2. Len(log) + 1 \in 1..Len(log') /\ log'[Len(log) + 1] = e
        BY <1>t, <2>3, <3>1, AppendFacts
      <3> QED BY <2>3, <3>2 DEF Reported
    <2>7. InSweep(t) => h.task = t \/ InSweep(t)'
      <3> SUFFICES ASSUME InSweep(t), h.task # t PROVE InSweep(t)'
        OBVIOUS
      <3>1. PICK i \in 1..Len(timed_out) : timed_out[i].task = t
        BY DEF InSweep
      <3>2. i # 1
        BY <2>2, <3>1
      <3>3. i - 1 \in 1..Len(timed_out') /\ timed_out'[i - 1] = timed_out[i]
        <4>1. Len(timed_out) \in Nat /\ i \in Nat
          BY <1>t
        <4>2. i - 1 \in 1..Len(Tail(timed_out))
          BY <2>2, <3>2, <4>1
        <4>3. Tail(timed_out)[i - 1] = timed_out[(i - 1) + 1] /\ (i - 1) + 1 = i
          BY <2>2, <4>1, <4>2
        <4> QED BY <2>1, <4>2, <4>3
      <3> QED BY <2>1, <3>1, <3>3 DEF InSweep
    <2> QED BY <1>w, <2>1, <2>4, <2>5, <2>6, <2>7 DEF Over
  <1>3. ASSUME NEW r \in Outcomes, FinishTask(r) PROVE Reported(t)' \/ InQueue(t)' \/ InSweep(t)'
    <2>1. /\ pc = "join" /\ running_tasks' \subseteq running_tasks /\ UNCHANGED timeout_queue
          /\ log' = Append(log, Event(res.task, "Finished", 0))
      BY <1>3 DEF FinishTask, Bail, NotifyFailed, Over
    <2>2. Event(res.task, "Finished", 0) \in Events
      BY <2>1 DEF IInv, InHand, Results, Event, Events
    <2>3. Reported(t) => Reported(t)'
      BY <1>t, <2>1, <2>2, ReportedKept
    <2>4. InQueue(t) => InQueue(t)'
      BY <2>1 DEF InQueue
    <2> QED BY <1>w, <2>1, <2>3, <2>4 DEF InSweep, Over
  <1>4. CASE StartTask
    <2>1. /\ pc = "spawn" /\ running_tasks' = running_tasks \cup {loading.task} /\ log' = log
          /\ timeout_queue' = Append(timeout_queue, loading)
      BY <1>4 DEF StartTask
    <2>2. loading \in Situations
      BY <2>1 DEF IInv, InHand
    <2>3. /\ Len(timeout_queue') = Len(timeout_queue) + 1 /\ Len(timeout_queue) \in Nat
          /\ timeout_queue'[Len(timeout_queue) + 1] = loading
          /\ \A i \in 1..Len(timeout_queue) : timeout_queue'[i] = timeout_queue[i]
      BY <1>t, <2>1, <2>2, AppendFacts
    <2>4. (InQueue(t) => InQueue(t)') /\ (t = loading.task => InQueue(t)')
      BY <2>3 DEF InQueue
    <2>5. Reported(t) => Reported(t)'
      BY <2>1 DEF Reported
    <2> QED BY <1>w, <2>1, <2>4, <2>5 DEF InSweep, Over
  <1>5. CASE AllTimedOutTasksInfo
    <2>1. PICK n \in 0..Len(timeout_queue) :
             /\ timeout_queue' = SubSeq(timeout_queue, n + 1, Len(timeout_queue))
             /\ timed_out' = SubSeq(timeout_queue, 1, n)
      BY <1>5 DEF AllTimedOutTasksInfo
    <2>2. pc = "sweep" /\ pc' = "report" /\ UNCHANGED <<running_tasks, log>>
      BY <1>5 DEF AllTimedOutTasksInfo
    <2>3. Reported(t) => Reported(t)'
      BY <2>2 DEF Reported
    <2>4. InQueue(t) => InQueue(t)' \/ InSweep(t)'
      <3> SUFFICES ASSUME InQueue(t) PROVE InQueue(t)' \/ InSweep(t)'
        OBVIOUS
      <3>1. PICK i \in 1..Len(timeout_queue) : timeout_queue[i].task = t
        BY DEF InQueue
      <3>f. /\ Len(SubSeq(timeout_queue, 1, n)) = n
            /\ \A j \in 1..n : SubSeq(timeout_queue, 1, n)[j] = timeout_queue[j]
            /\ Len(SubSeq(timeout_queue, n + 1, Len(timeout_queue))) = Len(timeout_queue) - n
            /\ \A j \in 1..(Len(timeout_queue) - n) :
                  SubSeq(timeout_queue, n + 1, Len(timeout_queue))[j] = timeout_queue[j + n]
        BY <1>t, SplitFacts
      <3>2. CASE i <= n
        <4>1. i \in 1..Len(timed_out') /\ timed_out'[i] = timeout_queue[i]
          BY <2>1, <3>2, <3>f
        <4> QED BY <2>2, <3>1, <4>1 DEF InSweep
      <3>3. CASE i > n
        <4>1. Len(timeout_queue) \in Nat /\ n \in Nat /\ i \in Nat
          BY <1>t
        <4>2. i - n \in 1..(Len(timeout_queue) - n) /\ (i - n) + n = i
          BY <3>3, <4>1
        <4>3. i - n \in 1..Len(timeout_queue') /\ timeout_queue'[i - n] = timeout_queue[i]
          BY <2>1, <3>f, <4>2
        <4> QED BY <3>1, <4>3 DEF InQueue
      <3> QED BY <1>t, <3>2, <3>3
    <2> QED BY <1>w, <2>2, <2>3, <2>4 DEF InSweep, Over
  <1>6. CASE ~(\E r \in Outcomes : LoadTask(r) \/ ReportTimeout(r) \/ FinishTask(r)) /\ ~StartTask /\ ~AllTimedOutTasksInfo
    <2>1. /\ ~Over /\ UNCHANGED <<running_tasks, timeout_queue, timed_out, log>>
          /\ pc = "report" /\ pc' # "report" => timed_out = <<>>
      BY <1>6, WaitFrame
    <2>2. (Reported(t) => Reported(t)') /\ (InQueue(t) => InQueue(t)')
      BY <2>1 DEF Reported, InQueue
    <2>3. InSweep(t) => InSweep(t)'
      BY <2>1 DEF InSweep
    <2> QED BY <1>w, <2>1, <2>2, <2>3
  <1> QED BY <1>1, <1>2, <1>3, <1>4, <1>5, <1>6

\* A result stays in hand until it is joined, and recv() is called on an empty queue.
LEMMA HandStep ==
  ASSUME IInv, WaitInv, [Next]_vars, ~Over'
  PROVE  /\ pc' \notin {"sweep", "report", "join"} => res' = NoResult
         /\ pc' = "recv" => timeout_queue' = <<>>
  <1>w. ~Over => /\ pc \notin {"sweep", "report", "join"} => res = NoResult
                 /\ pc = "recv" => timeout_queue = <<>>
    BY DEF WaitInv
  <1>1. CASE \E r \in Outcomes : LoadTask(r) \/ ReportTimeout(r) \/ FinishTask(r)
    BY <1>1, <1>w DEF LoadTask, ReportTimeout, FinishTask, NotifyFailed, Bail, Over
  <1>2. CASE StartTask \/ BeginWait \/ Recv
    BY <1>2, <1>w DEF StartTask, BeginWait, Recv, Over
  <1>3. CASE RecvTimeout \/ AllTimedOutTasksInfo \/ EndReport \/ ReturnOk
    BY <1>3, <1>w DEF RecvTimeout, AllTimedOutTasksInfo, EndReport, ReturnOk, Over
  <1>4. CASE (\E t \in Tasks : Thread(t)) \/ Tick \/ UNCHANGED vars
    <2>1. UNCHANGED <<pc, res, timeout_queue>>
      BY <1>4 DEF Thread, Send, CrashBeforeSend, EndThread, Tick, executorVars, vars
    <2> QED BY <2>1, <1>w DEF Over
  <1> QED BY <1>1, <1>2, <1>3, <1>4 DEF Next, Executor

Held(t) == (\E i \in 1..Len(channel) : channel[i].task = t) \/ (res # NoResult /\ res.task = t)

\* A receive moves the front message from the channel into an empty hand.
LEMMA ReceiveKeeps ==
  ASSUME channel \in Seq(Results), res = NoResult, channel # <<>>,
         res' = Head(channel), channel' = Tail(channel), NEW t, Held(t)
  PROVE  Held(t)'
  <1>1. PICK i \in 1..Len(channel) : channel[i].task = t
    BY DEF Held
  <1>2. /\ Head(channel) = channel[1] /\ Head(channel) \in Results
        /\ Len(Tail(channel)) = Len(channel) - 1
        /\ \A j \in 1..Len(Tail(channel)) : Tail(channel)[j] = channel[j + 1]
    BY TailFacts
  <1>3. CASE i = 1
    <2>1. res' # NoResult /\ res'.task = t
      BY <1>1, <1>2, <1>3, OrderAssumption DEF Results, NoResult
    <2> QED BY <2>1 DEF Held
  <1>4. CASE i # 1
    <2>1. Len(channel) \in Nat /\ i \in Nat
      OBVIOUS
    <2>2. i - 1 \in 1..Len(Tail(channel)) /\ (i - 1) + 1 = i
      BY <1>2, <1>4, <2>1
    <2>3. Tail(channel)[i - 1] = channel[i]
      BY <1>2, <2>2
    <2> QED BY <1>1, <2>2, <2>3 DEF Held
  <1> QED BY <1>3, <1>4

\* A send puts the sender's message into the channel and disturbs no other.
LEMMA SendKeeps ==
  ASSUME channel \in Seq(Results), NEW u \in Tasks, NEW s \in Statuses,
         channel' = Append(channel, [task |-> u, status |-> s]), res' = res,
         NEW t, Held(t) \/ t = u
  PROVE  Held(t)'
  <1>1. [task |-> u, status |-> s] \in Results
    BY ValueAssumption DEF ValueAssumption, Results
  <1>2. PICK m \in Results : m = [task |-> u, status |-> s]
    BY <1>1
  <1>3. m.task = u /\ channel' = Append(channel, m)
    BY <1>2
  <1>4. /\ Len(channel') = Len(channel) + 1 /\ Len(channel) \in Nat
        /\ channel'[Len(channel) + 1] = m
        /\ \A i \in 1..Len(channel) : channel'[i] = channel[i]
    BY <1>3, AppendFacts
  <1>5. CASE t = u
    BY <1>3, <1>4, <1>5 DEF Held
  <1>6. CASE Held(t)
    BY <1>4, <1>6 DEF Held
  <1> QED BY <1>5, <1>6

\* Between a thread's send and the removal of its handle the result is somewhere.
LEMMA LostStep ==
  ASSUME IInv, WaitInv, [Next]_vars, ~Over', NEW t \in running_tasks', thread'[t] \in {"sent", "ended"}
  PROVE  Held(t)'
  <1>t. /\ channel \in Seq(Results) /\ running_tasks \subseteq Tasks
        /\ thread \in [Tasks -> {"none", "running", "sent", "ended", "panicked"}]
    BY DEF IInv, TypeOK
  <1>w. ~Over => \A u \in running_tasks : thread[u] \in {"sent", "ended"} => Held(u)
    BY DEF WaitInv, NoResultLost, Over, Held
  <1>r. ~Over /\ pc \in {"recv", "recv_timeout"} => res = NoResult
    BY DEF WaitInv
  <1>f. ASSUME ~Over, t \in running_tasks, thread[t] \in {"sent", "ended"}, UNCHANGED <<channel, res>> PROVE Held(t)'
    BY <1>f, <1>w DEF Held
  <1>1. ASSUME NEW r \in Outcomes, LoadTask(r) \/ ReportTimeout(r) PROVE Held(t)'
    BY <1>1, <1>f DEF LoadTask, ReportTimeout, Over
  <1>2. ASSUME NEW r \in Outcomes, FinishTask(r) PROVE Held(t)'
    <2>1. /\ ~Over /\ running_tasks' = running_tasks \ {res.task} /\ UNCHANGED <<channel, thread>>
      BY <1>2 DEF FinishTask, Over
    <2>2. t \in running_tasks /\ t # res.task /\ thread[t] \in {"sent", "ended"}
      BY <2>1
    <2>3. \E i \in 1..Len(channel) : channel[i].task = t
      BY <1>w, <2>1, <2>2 DEF Held
    <2> QED BY <2>1, <2>3 DEF Held
  <1>3. CASE StartTask
    <2>1. /\ ~Over /\ pc = "spawn" /\ running_tasks' = running_tasks \cup {loading.task}
          /\ UNCHANGED <<channel, res>> /\ thread' = [thread EXCEPT ![loading.task] = "running"]
      BY <1>3 DEF StartTask, Over
    <2>2. loading.task \in Tasks
      BY <2>1 DEF IInv, InHand, Situations
    <2>3. t # loading.task
      BY <1>t, <2>1, <2>2
    <2> QED BY <1>f, <1>t, <2>1, <2>3
  <1>4. CASE BeginWait \/ AllTimedOutTasksInfo \/ EndReport \/ ReturnOk
    <2>1. ~Over /\ UNCHANGED <<running_tasks, channel, res, thread>>
      BY <1>4 DEF BeginWait, AllTimedOutTasksInfo, EndReport, ReturnOk, Over
    <2> QED BY <1>f, <2>1
  <1>5. CASE Recv \/ RecvTimeout
    <2>1. ~Over /\ pc \in {"recv", "recv_timeout"} /\ UNCHANGED <<running_tasks, thread>>
      BY <1>5 DEF Recv, RecvTimeout, Over
    <2>2. \/ channel # <<>> /\ res' = Head(channel) /\ channel' = Tail(channel)
          \/ res' = NoResult /\ channel' = channel
      BY <1>5 DEF Recv, RecvTimeout
    <2>3. Held(t) /\ res = NoResult
      BY <1>w, <1>r, <2>1
    <2>4. CASE channel # <<>> /\ res' = Head(channel) /\ channel' = Tail(channel)
      BY <1>t, <2>3, <2>4, ReceiveKeeps
    <2>5. CASE res' = NoResult /\ channel' = channel
      BY <2>3, <2>5 DEF Held
    <2> QED BY <2>2, <2>4, <2>5
  <1>6. ASSUME NEW u \in Tasks, NEW s \in Statuses, Send(u, s) PROVE Held(t)'
    <2>1. thread[u] = "running" /\ ~Over /\ UNCHANGED <<running_tasks, res>>
      BY <1>6 DEF Send, executorVars, Over
    <2>2. CASE channel' = Append(channel, [task |-> u, status |-> s]) /\ thread' = [thread EXCEPT ![u] = "sent"]
      <3>1. t # u => thread[t] = thread'[t]
        BY <1>t, <2>1, <2>2
      <3>2. Held(t) \/ t = u
        BY <1>w, <2>1, <3>1
      <3> QED BY <1>t, <2>1, <2>2, <3>2, SendKeeps
    <2>3. CASE channel' = channel /\ thread' = [thread EXCEPT ![u] = "panicked"]
      <3>1. t # u /\ thread[t] = thread'[t]
        BY <1>t, <2>1, <2>3
      <3> QED BY <1>f, <2>1, <2>3, <3>1
    <2> QED BY <1>6, <2>2, <2>3 DEF Send
  <1>7. ASSUME NEW u \in Tasks, CrashBeforeSend(u) \/ EndThread(u) PROVE Held(t)'
    <2>1. /\ ~Over /\ UNCHANGED <<running_tasks, res, channel>> /\ thread[u] \in {"running", "sent"}
          /\ \E e \in {"ended", "panicked"} : thread' = [thread EXCEPT ![u] = e] /\ (e = "ended" => thread[u] = "sent")
      BY <1>7 DEF CrashBeforeSend, EndThread, executorVars, Over
    <2>2. thread[t] \in {"sent", "ended"}
      BY <1>t, <2>1
    <2> QED BY <1>f, <2>1, <2>2
  <1>8. CASE Tick \/ UNCHANGED vars
    <2>1. ~Over /\ UNCHANGED <<running_tasks, res, channel, thread>>
      BY <1>8 DEF Tick, executorVars, vars, Over
    <2> QED BY <1>f, <2>1
  <1> QED BY <1>1, <1>2, <1>3, <1>4, <1>5, <1>6, <1>7, <1>8 DEF Next, Executor, Thread

\* The four parts together.
LEMMA WaitStep == IInv /\ WaitInv /\ [Next]_vars => WaitInv'
  <1> SUFFICES ASSUME IInv, WaitInv, [Next]_vars, ~Over'
               PROVE  /\ Cardinality(running_tasks') = running_count'
                      /\ \A t \in running_tasks' : Reported(t)' \/ InQueue(t)' \/ InSweep(t)'
                      /\ pc' \notin {"sweep", "report", "join"} => res' = NoResult
                      /\ pc' = "recv" => timeout_queue' = <<>>
                      /\ NoResultLost'
    BY DEF WaitInv
  <1>1. Cardinality(running_tasks') = running_count'
    BY ExactStep
  <1>2. \A t \in running_tasks' : Reported(t)' \/ InQueue(t)' \/ InSweep(t)'
    BY SweptStep
  <1>3. /\ pc' \notin {"sweep", "report", "join"} => res' = NoResult
        /\ pc' = "recv" => timeout_queue' = <<>>
    BY HandStep
  <1>4. \A t \in running_tasks' : thread'[t] \in {"sent", "ended"} => Held(t)'
    BY LostStep
  <1>5. NoResultLost'
    BY <1>4 DEF NoResultLost, Held
  <1> QED BY <1>1, <1>2, <1>3, <1>5

\* What the executor waits for, from the books.
LEMMA InvInformed == IInv /\ WaitInv => WaitsInformed
  <1> SUFFICES ASSUME IInv, WaitInv PROVE WaitsInformed
    OBVIOUS
  <1>1. NoResultLost
    BY DEF WaitInv, NoResultLost, Over
  <1>2. ASSUME pc \in {"recv", "recv_timeout"} PROVE running_tasks # {}
    <2>1. running_count > 0 /\ ~Over
      BY <1>2 DEF IInv, InHand, Busy, Over
    <2>2. Cardinality(running_tasks) # 0
      BY <2>1 DEF WaitInv
    <2> QED BY <2>2, FS_EmptySet
  <1>3. ASSUME pc = "recv", NEW t \in running_tasks PROVE Reported(t)
    <2>1. ~Over /\ timeout_queue = <<>>
      BY <1>3 DEF WaitInv, Over
    <2>2. ~InQueue(t) /\ ~InSweep(t)
      BY <1>3, <2>1 DEF InQueue, InSweep
    <2> QED BY <2>1, <2>2 DEF WaitInv
  <1> QED BY <1>1, <1>2, <1>3 DEF WaitsInformed

\* run_all_tasks loses no result, never waits for nothing, and calls the recv()
\* that has no time limit only when every task it waits for has been reported as
\* timed out: the recv_timeout / recv choice of the wait loop leaves no task unheard of.
THEOREM Informed == Spec => []WaitsInformed
  BY InvInit, InvStep, WaitInit, WaitStep, InvInformed, PTL DEF Spec
=============================================================================
