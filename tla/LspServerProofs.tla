-------------------------- MODULE LspServerProofs --------------------------
(* Theorems about LspServer, for every set of files, requests and workers. *)
EXTENDS LspServer, TLAPS

\* A request is unknown, registered or answered: it is registered only while it
\* has no answer, it has neither before it was asked, and the client never asks
\* twice with one id.
OnceInv ==
    /\ incoming \subseteq Requests
    /\ answers = [r \in Requests |-> answers[r]]
    /\ asked = [r \in Requests |-> asked[r]]
    /\ \A r \in Requests :
          /\ answers[r] = <<>> \/ \E x : answers[r] = <<x>>
          /\ r \in incoming => answers[r] = <<>>
          /\ asked[r] = NotAsked => r \notin incoming /\ answers[r] = <<>>

\* Nothing is asked, registered or answered at the start.
LEMMA OnceInit == Init => OnceInv
  BY DEF Init, OnceInv

\* An answer given at once goes to a request that was never asked before.
LEMMA RespondNowOnce ==
  ASSUME OnceInv, NEW r \in Requests, NEW code, NEW m \in Methods, NEW f, NEW v, NEW late,
         asked[r] = NotAsked,
         asked' = [asked EXCEPT ![r] = [method |-> m, file |-> f, text |-> v, late |-> late]],
         RespondNow(r, code)
  PROVE  OnceInv'
  <1>1. answers[r] = <<>> /\ r \notin incoming
    BY DEF OnceInv
  <1>2. Append(<<>>, [code |-> code, text |-> 0]) = <<[code |-> code, text |-> 0]>>
    OBVIOUS
  <1>3. answers' = [answers EXCEPT ![r] = <<[code |-> code, text |-> 0]>>] /\ incoming' = incoming
    BY <1>1, <1>2 DEF RespondNow
  <1>4. asked'[r] # NotAsked
    <2>1. asked'[r] = [method |-> m, file |-> f, text |-> v, late |-> late]
      BY DEF OnceInv
    <2>2. m # "none"
      BY DEF Methods
    <2> QED
      BY <2>1, <2>2 DEF NotAsked
  <1>5. \A q \in Requests : q # r => asked'[q] = asked[q] /\ answers'[q] = answers[q]
    BY <1>3 DEF OnceInv
  <1>6. answers'[r] = <<[code |-> code, text |-> 0]>>
    BY <1>3 DEF OnceInv
  <1>7. \E x : answers'[r] = <<x>>
    BY <1>6
  <1>8. asked' = [q \in Requests |-> asked'[q]] /\ answers' = [q \in Requests |-> answers'[q]]
    BY <1>3 DEF OnceInv
  <1> QED
    BY <1>1, <1>3, <1>4, <1>5, <1>7, <1>8, ZenonT(30) DEF OnceInv

\* Every step of the client, the main loop and the pool keeps OnceInv.
LEMMA OnceStep == OnceInv /\ [Next]_vars => OnceInv'
  <1> SUFFICES ASSUME OnceInv, [Next]_vars PROVE OnceInv'
    OBVIOUS
  <1>1. ASSUME UNCHANGED <<incoming, answers, asked>> PROVE OnceInv'
    BY <1>1 DEF OnceInv
  <1>2. ASSUME NEW r \in Requests, NEW m \in Methods, NEW f \in Files, Request(r, m, f)
        PROVE  OnceInv'
    <2>1. asked[r] = NotAsked
          /\ asked' = [asked EXCEPT ![r] = [method |-> m, file |-> f, text |-> doc[f],
                                            late |-> shutdown_requested]]
      BY <1>2 DEF Request
    <2>2. ASSUME NEW code, RespondNow(r, code) PROVE OnceInv'
      BY <2>1, <2>2, RespondNowOnce
    <2>3. ASSUME incoming' = incoming \cup {r}, UNCHANGED answers PROVE OnceInv'
      <3>1. asked'[r] # NotAsked
        <4>1. asked'[r] = [method |-> m, file |-> f, text |-> doc[f], late |-> shutdown_requested]
          BY <2>1 DEF OnceInv
        <4>2. m # "none"
          BY DEF Methods
        <4> QED
          BY <4>1, <4>2 DEF NotAsked
      <3>2. \A q \in Requests : q # r => asked'[q] = asked[q]
        BY <2>1 DEF OnceInv
      <3>3. answers[r] = <<>>
        BY <2>1 DEF OnceInv
      <3>4. asked' = [q \in Requests |-> asked'[q]]
        BY <2>1 DEF OnceInv
      <3> QED
        BY <2>3, <3>1, <3>2, <3>3, <3>4 DEF OnceInv
    <2>4. (\E code \in Codes : RespondNow(r, code))
          \/ (incoming' = incoming \cup {r} /\ UNCHANGED answers)
      BY <1>2 DEF Request, Dispatch, RequestDispatcher, Codes
    <2> QED
      BY <2>2, <2>3, <2>4
  <1>3. CASE HandleTask
    <2>1. UNCHANGED asked
      BY <1>3 DEF HandleTask
    <2>2. UNCHANGED <<incoming, answers>> \/ \E r, code, v : Respond(r, code, v)
      BY <1>3 DEF HandleTask
    <2>3. ASSUME NEW r, NEW code, NEW v, Respond(r, code, v), r \in incoming PROVE OnceInv'
      <3>1. r \in Requests /\ answers[r] = <<>>
        BY <2>3 DEF OnceInv
      <3>2. Append(<<>>, [code |-> code, text |-> v]) = <<[code |-> code, text |-> v]>>
        OBVIOUS
      <3>3. incoming' = incoming \ {r} /\ answers' = [answers EXCEPT ![r] = <<[code |-> code, text |-> v]>>]
        BY <2>3, <3>1, <3>2 DEF Respond
      <3>4. answers'[r] = <<[code |-> code, text |-> v]>>
        BY <3>1, <3>3 DEF OnceInv
      <3>5. \E x : answers'[r] = <<x>>
        BY <3>4
      <3>6. \A q \in Requests : q # r => answers'[q] = answers[q]
        BY <3>3 DEF OnceInv
      <3>7. asked[r] # NotAsked
        BY <2>3, <3>1 DEF OnceInv
      <3> QED
        BY <2>1, <3>1, <3>3, <3>5, <3>6, <3>7 DEF OnceInv
    <2>4. ASSUME NEW r, NEW code, NEW v, Respond(r, code, v), r \notin incoming PROVE OnceInv'
      BY <1>1, <2>1, <2>4 DEF Respond
    <2> QED
      BY <1>1, <2>1, <2>2, <2>3, <2>4
  <1>4. ASSUME NEW w \in Workers, Work(w) PROVE OnceInv'
    BY <1>1, <1>4 DEF Work, StartJob, TakeChanges, Compile, SendResponse, SendDiagnostics, client
  <1>5. ASSUME NEW f \in Files, NEW v \in Texts, DidOpen(f, v) \/ DidChange(f, v) PROVE OnceInv'
    BY <1>1, <1>5 DEF DidOpen, DidChange
  <1>6. CASE OtherNotification \/ FailingNotification \/ Exit
    BY <1>1, <1>6 DEF OtherNotification, FailingNotification, Exit, client
  <1>7. CASE UNCHANGED vars
    BY <1>1, <1>7 DEF vars
  <1> QED
    BY <1>2, <1>3, <1>4, <1>5, <1>6, <1>7 DEF Next, Client

\* No request is answered twice, or answered while it is still registered,
\* however many threads answer and in whatever order their tasks arrive.
THEOREM Answered == Spec => []AnsweredOnce
  <1>1. OnceInv => AnsweredOnce
    <2> SUFFICES ASSUME OnceInv, NEW r \in Requests
                 PROVE  Len(answers[r]) + (IF r \in incoming THEN 1 ELSE 0) <= 1
      BY DEF AnsweredOnce
    <2>1. CASE answers[r] = <<>>
      BY <2>1
    <2>2. ASSUME NEW x, answers[r] = <<x>> PROVE Len(answers[r]) = 1 /\ answers[r] # <<>>
      BY <2>2
    <2>3. CASE answers[r] # <<>>
      <3>1. r \notin incoming /\ Len(answers[r]) = 1
        BY <2>2, <2>3 DEF OnceInv
      <3> QED
        BY <3>1
    <2> QED
      BY <2>1, <2>3
  <1> QED
    BY OnceInit, OnceStep, <1>1, PTL DEF Spec

----------------------------------------------------------------------------
(* What is under way: jobs, pool threads and tasks. *)

In(x, s) == \E i \in 1..Len(s) : s[i] = x

\* r was accepted by on_request and asks for a file to be compiled.
Accepted(r) == asked[r].method = "compile" /\ ~asked[r].late /\ asked[r].file \in Files

\* A thread at work on a request: accepted, and once compiled, from a text no
\* older than the client's when it asked.
ThreadRight(w) ==
    worker[w].pc # "idle" /\ worker[w].job \in Requests =>
       /\ Accepted(worker[w].job)
       /\ worker[w].pc = "send" => worker[w].text >= asked[worker[w].job].text

\* A response on its way is that of an accepted request, and not a refusal.
TaskRight(t) ==
    t.type = "response" =>
       /\ Accepted(t.id)
       /\ t.code \in {"Ok", "InternalError"}
       /\ t.text >= asked[t.id].text

\* The vfs has the text of the editor, which only grows newer.
WorkInv ==
    /\ contents = doc
    /\ \A r \in Requests : asked[r].method = "compile" =>
          asked[r].file \in Files /\ asked[r].text <= doc[asked[r].file]
    /\ \A r \in Requests : In(r, jobs) => Accepted(r)
    /\ \A w \in Workers : ThreadRight(w)
    /\ \A t \in TaskSet : In(t, tasks) => TaskRight(t)

\* Somebody has the request in hand: the queue, a thread or the task channel.
InHand(r) ==
    \/ In(r, jobs)
    \/ \E w \in Workers : worker[w].pc \in {"compile", "send"} /\ worker[w].job = r
    \/ \E t \in TaskSet : In(t, tasks) /\ t.type = "response" /\ t.id = r

\* Thread w will still compile f, or has compiled the present text of f.
Reporting(w, f) ==
    /\ worker[w].job = "diag"
    /\ \/ worker[w].pc = "compile" /\ In(f, worker[w].files)
       \/ worker[w].pc = "send" /\ In(f, Tail(worker[w].files))
       \/ worker[w].pc = "send" /\ Head(worker[w].files) = f /\ worker[w].text = contents[f]

Pending(f) == In(f, changes) \/ \E w \in Workers : Reporting(w, f)

Reported(f) ==
    \/ Pending(f)
    \/ \E w \in Workers : In(Diagnostics(f, contents[f], w), tasks)
    \/ \E w \in Workers : In([text |-> contents[f], by |-> w], published[f])

\* Only documents the client has opened are changed.
OpenedInv ==
    /\ \A f \in Files : In(f, changes) => contents[f] # 0
    /\ \A w \in Workers : worker[w].pc \in {"compile", "send"} /\ worker[w].job = "diag" =>
          \A f \in Files : In(f, worker[w].files) => contents[f] # 0

\* Every registered request and every change is in somebody's hand, and the
\* present text of every document is reported or will be, unless a text that
\* does not load took them with it.
NoneLost ==
    /\ \A r \in incoming : InHand(r) \/ MayBeLost(r)
    /\ \A r \in Requests : asked[r] # NotAsked => r \in incoming \/ answers[r] # <<>>
    /\ changes # <<>> => In("diag", jobs) \/ \E w \in Workers : worker[w].pc = "take"
    /\ \A w \in Workers : worker[w].pc = "take" => worker[w].job = "diag"
    /\ \A f \in Files : contents[f] # 0 => Reported(f) \/ MayBeUnreported(f)

----------------------------------------------------------------------------
(* Sequences. *)

\* What a sequence holds after an element was added at its end.
LEMMA InAppend ==
  ASSUME NEW S, NEW s \in Seq(S), NEW e \in S
  PROVE  /\ Append(s, e) \in Seq(S) /\ Append(s, e) # <<>>
         /\ \A x : In(x, Append(s, e)) <=> In(x, s) \/ x = e
  <1>1. Append(s, e) \in Seq(S) /\ Len(Append(s, e)) = Len(s) + 1 /\ Len(s) \in Nat
    OBVIOUS
  <1>2. Append(s, e)[Len(s) + 1] = e /\ \A i \in 1..Len(s) : Append(s, e)[i] = s[i]
    OBVIOUS
  <1>3. \A i \in 1..(Len(s) + 1) : i \in 1..Len(s) \/ i = Len(s) + 1
    BY <1>1
  <1>4. ASSUME NEW x, In(x, Append(s, e)) PROVE In(x, s) \/ x = e
    BY <1>1, <1>2, <1>3, <1>4 DEF In
  <1>5. ASSUME NEW x, In(x, s) \/ x = e PROVE In(x, Append(s, e))
    <2>1. 1..Len(s) \subseteq 1..(Len(s) + 1) /\ Len(s) + 1 \in 1..(Len(s) + 1)
      BY <1>1
    <2> QED
      BY <1>1, <1>2, <1>5, <2>1 DEF In
  <1>6. Append(s, e) # <<>>
    BY <1>1
  <1> QED
    BY <1>1, <1>4, <1>5, <1>6

\* The first element of a sequence, and the rest.
LEMMA InTail ==
  ASSUME NEW S, NEW s \in Seq(S), s # <<>>
  PROVE  /\ Tail(s) \in Seq(S) /\ Head(s) \in S
         /\ \A x : In(x, s) <=> x = Head(s) \/ In(x, Tail(s))
  <1>1. Tail(s) \in Seq(S) /\ Len(Tail(s)) = Len(s) - 1 /\ Len(s) \in Nat /\ Len(s) > 0
    OBVIOUS
  <1>2. Head(s) = s[1] /\ s[1] \in S /\ \A i \in 1..(Len(s) - 1) : Tail(s)[i] = s[i + 1]
    BY <1>1
  <1>3. \A i \in 1..Len(s) : i = 1 \/ (i - 1 \in 1..(Len(s) - 1) /\ (i - 1) + 1 = i)
    BY <1>1
  <1>4. ASSUME NEW x, In(x, s) PROVE x = Head(s) \/ In(x, Tail(s))
    <2>1. PICK i \in 1..Len(s) : s[i] = x
      BY <1>4 DEF In
    <2>2. CASE i = 1
      BY <1>2, <2>1, <2>2
    <2>3. CASE i # 1
      <3>1. i - 1 \in 1..Len(Tail(s)) /\ Tail(s)[i - 1] = x
        BY <1>1, <1>2, <1>3, <2>1, <2>3
      <3> QED
        BY <3>1 DEF In
    <2> QED
      BY <2>2, <2>3
  <1>5. ASSUME NEW x, x = Head(s) \/ In(x, Tail(s)) PROVE In(x, s)
    <2>1. CASE x = Head(s)
      <3>1. 1 \in 1..Len(s)
        BY <1>1
      <3> QED
        BY <1>2, <2>1, <3>1 DEF In
    <2>2. CASE In(x, Tail(s))
      <3>1. PICK i \in 1..(Len(s) - 1) : Tail(s)[i] = x
        BY <1>1, <2>2 DEF In
      <3>2. i + 1 \in 1..Len(s) /\ s[i + 1] = x
        BY <1>1, <1>2, <3>1
      <3> QED
        BY <3>2 DEF In
    <2> QED
      BY <1>5, <2>1, <2>2
  <1> QED
    BY <1>1, <1>2, <1>4, <1>5

\* An empty sequence holds nothing, any other something.
LEMMA InEmpty ==
  ASSUME NEW S, NEW s \in Seq(S)
  PROVE  /\ \A x : In(x, s) => x \in S
         /\ s = <<>> => \A x : ~In(x, s)
         /\ s # <<>> => \E x \in S : In(x, s)
  <1>1. Len(s) \in Nat /\ \A i \in 1..Len(s) : s[i] \in S
    OBVIOUS
  <1>2. ASSUME s # <<>> PROVE \E x \in S : In(x, s)
    <2>1. 1 \in 1..Len(s)
      BY <1>2
    <2> QED
      BY <1>1, <2>1 DEF In
  <1> QED
    BY <1>1, <1>2 DEF In

----------------------------------------------------------------------------
(* Types. *)

Jobs == {"diag"} \cup Requests
ThreadSet ==
    [pc : {"idle", "take", "compile", "send"}, job : {"none", "diag"} \cup Requests,
     files : Seq(Files), text : Texts]
AskSet == [method : Methods \cup {"none"}, file : Files \cup {"none"}, text : Texts, late : BOOLEAN]
AnswerSet == [code : Codes, text : Texts]
PubSet == [text : Texts, by : Workers]

\* A thread with a job has something to do.
ThreadOK(w) ==
    /\ worker[w].pc # "idle" => worker[w].job # "none"
    /\ worker[w].pc \in {"compile", "send"} /\ worker[w].job = "diag" => worker[w].files # <<>>

\* TypeOK with its sets named, but for what it says of `asked`, which takes WorkInv.
Typed ==
    /\ server \in {"running", "exited", "failed"}
    /\ shutdown_requested \in BOOLEAN
    /\ incoming \subseteq Requests
    /\ contents \in [Files -> Texts]
    /\ changes \in Seq(Files)
    /\ jobs \in Seq(Jobs)
    /\ worker \in [Workers -> ThreadSet]
    /\ tasks \in Seq(TaskSet)
    /\ doc \in [Files -> Texts]
    /\ asked \in [Requests -> AskSet]
    /\ answers \in [Requests -> Seq(AnswerSet)]
    /\ published \in [Files -> Seq(PubSet)]
    /\ sent \in Nat
    /\ \A w \in Workers : ThreadOK(w)

\* Members of the record sets.
LEMMA Members ==
  /\ \A x \in ThreadSet : /\ x.pc \in {"idle", "take", "compile", "send"}
                          /\ x.job \in {"none", "diag"} \cup Requests
                          /\ x.files \in Seq(Files) /\ x.text \in Texts
  /\ \A x \in AskSet : /\ x.method \in Methods \cup {"none"} /\ x.file \in Files \cup {"none"}
                       /\ x.text \in Texts /\ x.late \in BOOLEAN
  /\ Idle \in ThreadSet /\ Idle.pc = "idle" /\ Idle.job = "none"
  /\ NotAsked \in AskSet /\ NotAsked.method = "none"
  /\ LogTask \in TaskSet /\ LogTask.type = "log"
  /\ \A f \in Files, v \in Texts, w \in Workers :
        Diagnostics(f, v, w) \in TaskSet /\ Diagnostics(f, v, w).type = "diagnostics"
        /\ Diagnostics(f, v, w).file = f /\ Diagnostics(f, v, w).text = v
        /\ Diagnostics(f, v, w).by = w
  /\ \A r \in Requests, c \in Codes, v \in Texts :
        Response(r, c, v) \in TaskSet /\ Response(r, c, v).type = "response"
        /\ Response(r, c, v).id = r /\ Response(r, c, v).code = c /\ Response(r, c, v).text = v
  /\ \A t \in TaskSet :
        \/ t = LogTask
        \/ t.type = "diagnostics" /\ t.file \in Files /\ t.text \in Texts /\ t.by \in Workers /\ t = Diagnostics(t.file, t.text, t.by)
        \/ t.type = "response" /\ t.id \in Requests /\ t.code \in Codes /\ t.text \in Texts
  /\ \A v \in Texts : v \in Nat
  /\ 0 \in Texts
  <1>1. 0 \in Texts /\ \A v \in Texts : v \in Nat
    BY TextAssumption DEF TextAssumption, Texts
  <1>2. \A x \in ThreadSet : /\ x.pc \in {"idle", "take", "compile", "send"}
                             /\ x.job \in {"none", "diag"} \cup Requests
                             /\ x.files \in Seq(Files) /\ x.text \in Texts
    BY DEF ThreadSet
  <1>3. \A x \in AskSet : /\ x.method \in Methods \cup {"none"} /\ x.file \in Files \cup {"none"}
                          /\ x.text \in Texts /\ x.late \in BOOLEAN
    BY DEF AskSet
  <1>4. Idle \in ThreadSet /\ Idle.pc = "idle" /\ Idle.job = "none"
    BY <1>1 DEF Idle, ThreadSet
  <1>5. NotAsked \in AskSet /\ NotAsked.method = "none"
    BY <1>1 DEF NotAsked, AskSet
  <1>6. LogTask \in TaskSet /\ LogTask.type = "log"
    BY DEF LogTask, TaskSet
  <1>7. \A f \in Files, v \in Texts, w \in Workers :
           Diagnostics(f, v, w) \in TaskSet /\ Diagnostics(f, v, w).type = "diagnostics"
           /\ Diagnostics(f, v, w).file = f /\ Diagnostics(f, v, w).text = v
           /\ Diagnostics(f, v, w).by = w
    BY DEF Diagnostics, TaskSet
  <1>8. \A r \in Requests, c \in Codes, v \in Texts :
           Response(r, c, v) \in TaskSet /\ Response(r, c, v).type = "response"
           /\ Response(r, c, v).id = r /\ Response(r, c, v).code = c /\ Response(r, c, v).text = v
    BY DEF Response, TaskSet
  <1>9. ASSUME NEW t \in TaskSet
        PROVE  \/ t = LogTask
               \/ t.type = "diagnostics" /\ t.file \in Files /\ t.text \in Texts /\ t.by \in Workers /\ t = Diagnostics(t.file, t.text, t.by)
               \/ t.type = "response" /\ t.id \in Requests /\ t.code \in Codes /\ t.text \in Texts
    <2>1. CASE t = LogTask
      BY <2>1
    <2>2. CASE t \in [type : {"diagnostics"}, file : Files, text : Texts, by : Workers]
      BY <2>2 DEF Diagnostics
    <2>3. CASE t \in [type : {"response"}, id : Requests, code : Codes, text : Texts]
      BY <2>3
    <2> QED
      BY <2>1, <2>2, <2>3 DEF TaskSet
  <1> QED
    BY <1>1, <1>2, <1>3, <1>4, <1>5, <1>6, <1>7, <1>8, <1>9

\* The end of handle_event: the queue grows by a diagnostics job.
LEMMA Executed ==
  ASSUME Typed, ExecuteThenDiagnostics(<<>>)
  PROVE  jobs' \in Seq(Jobs) /\ \A x : In(x, jobs') <=> In(x, jobs) \/ x = "diag"
  <1>1. jobs \in Seq(Jobs) /\ "diag" \in Jobs
    BY DEF Typed, Jobs
  <1>2. jobs' = Append(jobs, "diag")
    BY <1>1 DEF ExecuteThenDiagnostics
  <1> QED
    BY <1>1, <1>2, InAppend

\* The end of handle_event for an accepted request: its job, then diagnostics.
LEMMA ExecutedJob ==
  ASSUME Typed, NEW r \in Requests, ExecuteThenDiagnostics(<<r>>)
  PROVE  jobs' \in Seq(Jobs) /\ \A x : In(x, jobs') <=> In(x, jobs) \/ x = r \/ x = "diag"
  <1>1. jobs \in Seq(Jobs) /\ "diag" \in Jobs /\ r \in Jobs
    BY DEF Typed, Jobs
  <1>2. jobs' = Append(Append(jobs, r), "diag")
    BY <1>1 DEF ExecuteThenDiagnostics
  <1>3. Append(jobs, r) \in Seq(Jobs) /\ \A x : In(x, Append(jobs, r)) <=> In(x, jobs) \/ x = r
    BY <1>1, InAppend
  <1>4. /\ Append(Append(jobs, r), "diag") \in Seq(Jobs)
        /\ \A x : In(x, Append(Append(jobs, r), "diag")) <=> In(x, Append(jobs, r)) \/ x = "diag"
    BY <1>1, <1>3, InAppend
  <1> QED
    BY <1>2, <1>3, <1>4

\* The main thread's answer to a request.
LEMMA AnswerTyped ==
  ASSUME Typed, NEW r \in Requests, NEW c \in Codes, NEW v \in Texts,
         answers' = [answers EXCEPT ![r] = Append(@, [code |-> c, text |-> v])]
  PROVE  answers' \in [Requests -> Seq(AnswerSet)]
  <1>1. [code |-> c, text |-> v] \in AnswerSet /\ answers[r] \in Seq(AnswerSet)
    BY DEF AnswerSet, Typed
  <1>2. Append(answers[r], [code |-> c, text |-> v]) \in Seq(AnswerSet)
    BY <1>1
  <1> QED
    BY <1>2 DEF Typed

\* set_file_contents keeps the changed files, and adds f unless its text is the same.
LEMMA FileSet ==
  ASSUME Typed, NEW f \in Files, NEW v \in Texts, SetFileContents(f, v)
  PROVE  /\ contents' \in [Files -> Texts] /\ contents' = [contents EXCEPT ![f] = v]
         /\ changes' \in Seq(Files)
         /\ \A x : In(x, changes') <=> In(x, changes) \/ (x = f /\ contents[f] # v)
  <1>1. Append(changes, f) \in Seq(Files) /\ \A x : In(x, Append(changes, f)) <=> In(x, changes) \/ x = f
    BY InAppend DEF Typed
  <1>2. CASE contents[f] = v
    BY <1>1, <1>2 DEF SetFileContents, Typed
  <1>3. CASE contents[f] # v
    BY <1>1, <1>3 DEF SetFileContents, Typed
  <1> QED
    BY <1>2, <1>3

\* A thread's response, perhaps after a log message, goes to the end of the channel.
LEMMA Sent ==
  ASSUME Typed, NEW t \in TaskSet, NEW log \in {<<>>, <<LogTask>>}, tasks' = tasks \o log \o <<t>>
  PROVE  /\ tasks' \in Seq(TaskSet)
         /\ \/ tasks' = Append(tasks, t)
            \/ tasks' = Append(Append(tasks, LogTask), t)
         /\ \A x : In(x, tasks) \/ x = t => In(x, tasks')
         /\ \A x : In(x, tasks') => In(x, tasks) \/ x = LogTask \/ x = t
  <1>1. tasks \in Seq(TaskSet) /\ LogTask \in TaskSet
    BY Members DEF Typed
  <1>2. CASE log = <<>>
    <2>1. tasks' = Append(tasks, t)
      BY <1>1, <1>2
    <2>2. Append(tasks, t) \in Seq(TaskSet)
          /\ \A x : In(x, Append(tasks, t)) <=> In(x, tasks) \/ x = t
      BY <1>1, t \in TaskSet, InAppend
    <2> QED
      BY <2>1, <2>2
  <1>3. CASE log = <<LogTask>>
    <2>1. tasks' = Append(Append(tasks, LogTask), t)
      BY <1>1, <1>3
    <2>2. Append(tasks, LogTask) \in Seq(TaskSet)
          /\ \A x : In(x, Append(tasks, LogTask)) <=> In(x, tasks) \/ x = LogTask
      BY <1>1, InAppend
    <2>3. Append(Append(tasks, LogTask), t) \in Seq(TaskSet)
          /\ \A x : In(x, Append(Append(tasks, LogTask), t)) <=> In(x, Append(tasks, LogTask)) \/ x = t
      <3>1. PICK s \in Seq(TaskSet) : s = Append(tasks, LogTask)
        BY <2>2
      <3>2. Append(s, t) \in Seq(TaskSet) /\ \A x : In(x, Append(s, t)) <=> In(x, s) \/ x = t
        BY InAppend
      <3> QED
        BY <3>1, <3>2
    <2> QED
      BY <2>1, <2>2, <2>3
  <1> QED
    BY <1>2, <1>3

\* Every step keeps the types.
LEMMA TypedStep == Typed /\ WorkInv /\ [Next]_vars => Typed'
  <1> SUFFICES ASSUME Typed, WorkInv, [Next]_vars PROVE Typed'
    OBVIOUS
  <1>t. UNCHANGED worker => \A w \in Workers : ThreadOK(w)'
    BY DEF Typed, ThreadOK
  <1>c. {"Ok", "InternalError", "InvalidParams", "MethodNotFound", "InvalidRequest"} \subseteq Codes
    BY DEF Codes
  <1>1. ASSUME NEW f \in Files, NEW v \in Texts, DidOpen(f, v) \/ DidChange(f, v) PROVE Typed'
    <2>1. contents' \in [Files -> Texts] /\ changes' \in Seq(Files)
      BY <1>1, FileSet DEF DidOpen, DidChange
    <2>2. jobs' \in Seq(Jobs)
      BY <1>1, Executed DEF DidOpen, DidChange
    <2>3. doc' \in [Files -> Texts]
      BY <1>1 DEF DidOpen, DidChange, Typed
    <2>4. sent' \in Nat
      BY <1>1 DEF DidOpen, DidChange, Notify, Typed
    <2>5. UNCHANGED <<server, shutdown_requested, incoming, worker, tasks, asked, answers, published>>
      BY <1>1 DEF DidOpen, DidChange
    <2> QED
      BY <1>t, <2>1, <2>2, <2>3, <2>4, <2>5 DEF Typed
  <1>2. ASSUME NEW r \in Requests, NEW m \in Methods, NEW f \in Files, Request(r, m, f)
        PROVE  Typed'
    <2>1. asked' \in [Requests -> AskSet]
      <3>1. [method |-> m, file |-> f, text |-> doc[f], late |-> shutdown_requested] \in AskSet
        BY DEF AskSet, Typed
      <3> QED
        BY <1>2, <3>1 DEF Request, Typed
    <2>2. tasks' \in Seq(TaskSet)
      BY <1>2, Members DEF Request, Typed
    <2>3. UNCHANGED <<server, contents, changes, worker, doc, published, sent>>
      BY <1>2 DEF Request
    <2>4. ASSUME NEW c \in Codes, RespondNow(r, c), ExecuteThenDiagnostics(<<>>)
          PROVE  incoming' \subseteq Requests /\ answers' \in [Requests -> Seq(AnswerSet)] /\ jobs' \in Seq(Jobs)
      BY <2>4, AnswerTyped, Executed, Members DEF RespondNow, Typed
    <2>5. ASSUME incoming' = incoming \cup {r}, ExecuteThenDiagnostics(<<r>>), UNCHANGED answers
          PROVE  incoming' \subseteq Requests /\ answers' \in [Requests -> Seq(AnswerSet)] /\ jobs' \in Seq(Jobs)
      BY <2>5, ExecutedJob DEF Typed
    <2>6. \/ \E c \in Codes : RespondNow(r, c) /\ ExecuteThenDiagnostics(<<>>)
          \/ incoming' = incoming \cup {r} /\ ExecuteThenDiagnostics(<<r>>) /\ UNCHANGED answers
      BY <1>2, <1>c DEF Request, Dispatch, RequestDispatcher
    <2>7. shutdown_requested' \in BOOLEAN
      BY <1>2 DEF Request, Dispatch, RequestDispatcher, Typed
    <2> QED
      BY <1>t, <2>1, <2>2, <2>3, <2>4, <2>5, <2>6, <2>7 DEF Typed
  <1>3. CASE HandleTask
    <2>1. tasks' \in Seq(TaskSet) /\ Head(tasks) \in TaskSet
      BY <1>3, InTail DEF HandleTask, Typed
    <2>2. jobs' \in Seq(Jobs)
      BY <1>3, Executed DEF HandleTask
    <2>3. UNCHANGED <<server, shutdown_requested, contents, changes, worker, doc, asked, sent>>
      BY <1>3 DEF HandleTask
    <2>4. PICK t \in TaskSet : t = Head(tasks)
      BY <2>1
    <2>5. published' \in [Files -> Seq(PubSet)] /\ incoming' \subseteq Requests
          /\ answers' \in [Requests -> Seq(AnswerSet)]
      <3>1. CASE t.type = "log" /\ UNCHANGED <<incoming, answers, published>>
        BY <3>1 DEF Typed
      <3>2. CASE /\ t.type = "diagnostics"
                 /\ published' = [published EXCEPT ![t.file] = Append(@, [text |-> t.text, by |-> t.by])]
                 /\ UNCHANGED <<incoming, answers>>
        <4>1. t.file \in Files /\ [text |-> t.text, by |-> t.by] \in PubSet
          BY <3>2, Members DEF PubSet
        <4>2. published[t.file] \in Seq(PubSet)
          BY <4>1 DEF Typed
        <4>3. Append(published[t.file], [text |-> t.text, by |-> t.by]) \in Seq(PubSet)
          BY <4>1, <4>2
        <4> QED
          BY <3>2, <4>1, <4>3 DEF Typed
      <3>3. CASE t.type = "response" /\ Respond(t.id, t.code, t.text) /\ UNCHANGED published
        <4>1. t.id \in Requests /\ t.code \in Codes /\ t.text \in Texts
          BY <3>3, Members
        <4>2. CASE t.id \in incoming
          <5>1. incoming' = incoming \ {t.id}
                /\ answers' = [answers EXCEPT ![t.id] = Append(@, [code |-> t.code, text |-> t.text])]
            BY <3>3, <4>2 DEF Respond
          <5> QED
            BY <3>3, <4>1, <5>1, AnswerTyped DEF Typed
        <4>3. CASE t.id \notin incoming
          BY <3>3, <4>3 DEF Respond, Typed
        <4> QED
          BY <4>2, <4>3
      <3> QED
        BY <1>3, <2>4, <3>1, <3>2, <3>3 DEF HandleTask
    <2> QED
      BY <1>t, <2>1, <2>2, <2>3, <2>5 DEF Typed
  <1>4. ASSUME NEW w \in Workers, Work(w) PROVE Typed'
    <2>0. worker[w] \in ThreadSet /\ ThreadOK(w) /\ worker \in [Workers -> ThreadSet]
      BY DEF Typed
    <2>f. UNCHANGED <<server, shutdown_requested, incoming, contents, client>>
      BY <1>4 DEF Work, StartJob, TakeChanges, Compile, SendResponse, SendDiagnostics
    <2>w. ASSUME NEW to \in ThreadSet, worker' = [worker EXCEPT ![w] = to],
                 to.pc # "idle" => to.job # "none",
                 to.pc \in {"compile", "send"} /\ to.job = "diag" => to.files # <<>>
          PROVE  worker' \in [Workers -> ThreadSet] /\ \A u \in Workers : ThreadOK(u)'
      <3>1. worker' \in [Workers -> ThreadSet]
        BY <2>0, <2>w
      <3>2. worker'[w] = to /\ \A u \in Workers : u # w => worker'[u] = worker[u]
        BY <2>0, <2>w
      <3> QED
        BY <2>w, <3>1, <3>2 DEF ThreadOK, Typed
    <2>1. CASE StartJob(w)
      <3>1. jobs' \in Seq(Jobs) /\ Head(jobs) \in Jobs
        BY <2>1, InTail DEF StartJob, Typed
      <3>2. PICK j \in Jobs : j = Head(jobs)
        BY <3>1
      <3>3. PICK to : to = [Idle EXCEPT !.job = j, !.pc = IF j = "diag" THEN "take" ELSE "compile"]
        OBVIOUS
      <3>4. to = [pc |-> IF j = "diag" THEN "take" ELSE "compile", job |-> j, files |-> <<>>, text |-> 0]
        BY <3>3 DEF Idle
      <3>5. j # "none" /\ j \in {"none", "diag"} \cup Requests
        BY NullAssumption DEF NullAssumption, Jobs
      <3>6. to \in ThreadSet
        BY <3>4, <3>5, Members DEF ThreadSet
      <3>7. to.pc \in {"take", "compile"} /\ to.job = j /\ (j = "diag" => to.pc = "take")
        BY <3>4
      <3>8. worker' = [worker EXCEPT ![w] = to]
        BY <2>1, <3>2, <3>3 DEF StartJob, Step
      <3>9. UNCHANGED <<changes, tasks>>
        BY <2>1 DEF StartJob
      <3> QED
        BY <2>f, <2>w, <3>1, <3>5, <3>6, <3>7, <3>8, <3>9 DEF Typed, client
    <2>2. CASE TakeChanges(w)
      <3>1. changes' = <<>> /\ changes' \in Seq(Files) /\ changes \in Seq(Files) /\ worker[w].pc = "take"
        BY <2>2 DEF TakeChanges, Step, Typed
      <3>2. PICK to : to = IF changes = <<>> THEN Idle
                           ELSE [worker[w] EXCEPT !.pc = "compile", !.files = changes]
        OBVIOUS
      <3>3. worker' = [worker EXCEPT ![w] = to]
        BY <2>2, <3>2 DEF TakeChanges, Step
      <3>4. to \in ThreadSet
        BY <2>0, <3>1, <3>2, Members DEF ThreadSet
      <3>5. (to.pc # "idle" => to.job # "none") /\ (to.pc \in {"compile", "send"} => to.files # <<>>)
        <4>1. CASE changes = <<>>
          BY <3>2, <4>1, Members
        <4>2. CASE changes # <<>>
          <5>1. to = [worker[w] EXCEPT !.pc = "compile", !.files = changes]
            BY <3>2, <4>2
          <5>2. to.job = worker[w].job /\ to.files = changes
            BY <2>0, <5>1 DEF ThreadSet
          <5> QED
            BY <2>0, <3>1, <4>2, <5>2 DEF ThreadOK
        <4> QED
          BY <4>1, <4>2
      <3>6. UNCHANGED <<jobs, tasks>>
        BY <2>2 DEF TakeChanges
      <3> QED
        BY <2>f, <2>w, <3>1, <3>3, <3>4, <3>5, <3>6 DEF Typed, client
    <2>3. CASE Compile(w)
      <3>1. worker[w].pc = "compile" /\ UNCHANGED <<changes, jobs, tasks>>
        BY <2>3 DEF Compile
      <3>2. FileOf(w) \in Files
        <4>1. CASE worker[w].job = "diag"
          <5>1. worker[w].files \in Seq(Files) /\ worker[w].files # <<>>
            BY <2>0, <3>1, <4>1, Members DEF ThreadOK
          <5> QED
            BY <4>1, <5>1, InTail DEF FileOf
        <4>2. CASE worker[w].job # "diag"
          <5>1. worker[w].job \in Requests
            BY <2>0, <3>1, <4>2, Members DEF ThreadOK
          <5> QED
            BY <3>1, <4>2, <5>1 DEF FileOf, WorkInv, ThreadRight, Accepted
        <4> QED
          BY <4>1, <4>2
      <3>3. PICK v \in Texts : v = contents[FileOf(w)]
        BY <3>2 DEF Typed
      <3>4. PICK to : to = IF <<FileOf(w), v>> \in Unloadable THEN Idle ELSE [worker[w] EXCEPT !.pc = "send", !.text = v]
        OBVIOUS
      <3>5. worker' = [worker EXCEPT ![w] = to]
        BY <2>3, <3>3, <3>4 DEF Compile, Step
      <3>6. to \in ThreadSet
        BY <2>0, <3>4, Members DEF ThreadSet
      <3>7. (to.pc # "idle" => to.job # "none")
            /\ (to.pc \in {"compile", "send"} /\ to.job = "diag" => to.files # <<>>)
        <4>1. CASE <<FileOf(w), v>> \in Unloadable
          BY <3>4, <4>1, Members
        <4>2. CASE <<FileOf(w), v>> \notin Unloadable
          <5>1. to.job = worker[w].job /\ to.files = worker[w].files
            BY <2>0, <3>4, <4>2 DEF ThreadSet
          <5> QED
            BY <2>0, <3>1, <5>1 DEF ThreadOK
        <4> QED
          BY <4>1, <4>2
      <3> QED
        BY <2>f, <2>w, <3>1, <3>5, <3>6, <3>7 DEF Typed, client
    <2>4. CASE SendResponse(w)
      <3>1. worker[w].job \in Requests /\ worker' = [worker EXCEPT ![w] = Idle] /\ UNCHANGED <<changes, jobs>>
        BY <2>4 DEF SendResponse, Step
      <3>2. PICK c \in {"Ok", "InternalError"}, log \in {<<>>, <<LogTask>>} :
               tasks' = tasks \o log \o <<Response(worker[w].job, c, worker[w].text)>>
        BY <2>4 DEF SendResponse
      <3>3. PICK t \in TaskSet : t = Response(worker[w].job, c, worker[w].text)
        BY <1>c, <2>0, <3>1, Members
      <3>4. tasks' \in Seq(TaskSet)
        BY <3>2, <3>3, Sent
      <3> QED
        BY <2>f, <2>w, <3>1, <3>4, Members DEF Typed, client
    <2>5. CASE SendDiagnostics(w)
      <3>1. worker[w].job = "diag" /\ worker[w].pc = "send" /\ UNCHANGED <<changes, jobs>>
        BY <2>5 DEF SendDiagnostics, Step
      <3>2. worker[w].files \in Seq(Files) /\ worker[w].files # <<>> /\ worker[w].text \in Texts
        BY <2>0, <3>1, Members DEF ThreadOK
      <3>3. PICK rest \in Seq(Files) : rest = Tail(worker[w].files)
        BY <3>2, InTail
      <3>4. PICK to : to = IF rest = <<>> THEN Idle ELSE [worker[w] EXCEPT !.pc = "compile", !.files = rest]
        OBVIOUS
      <3>5. worker' = [worker EXCEPT ![w] = to]
        BY <2>5, <3>3, <3>4 DEF SendDiagnostics, Step
      <3>6. to \in ThreadSet
        BY <2>0, <3>4, Members DEF ThreadSet
      <3>7. (to.pc # "idle" => to.job # "none") /\ (to.pc \in {"compile", "send"} => to.files # <<>>)
        <4>1. CASE rest = <<>>
          BY <3>4, <4>1, Members
        <4>2. CASE rest # <<>>
          <5>1. to.job = worker[w].job /\ to.files = rest
            BY <2>0, <3>4, <4>2 DEF ThreadSet
          <5> QED
            BY <3>1, <4>2, <5>1
        <4> QED
          BY <4>1, <4>2
      <3>8. FileOf(w) \in Files
        BY <3>1, <3>2, InTail DEF FileOf
      <3>9. tasks' \in Seq(TaskSet)
        BY <2>5, <3>2, <3>8, Members DEF SendDiagnostics, Typed
      <3> QED
        BY <2>f, <2>w, <3>1, <3>5, <3>6, <3>7, <3>9 DEF Typed, client
    <2> QED
      BY <1>4, <2>1, <2>2, <2>3, <2>4, <2>5 DEF Work
  <1>5. CASE OtherNotification \/ FailingNotification \/ Exit
    <2>1. jobs' \in Seq(Jobs)
      BY <1>5, Executed DEF OtherNotification, FailingNotification, Exit, Typed
    <2>2. sent' \in Nat /\ server' \in {"running", "exited", "failed"}
      BY <1>5 DEF OtherNotification, FailingNotification, Exit, Typed, Notify, client
    <2>3. UNCHANGED <<shutdown_requested, incoming, contents, changes, worker, tasks, doc,
                      asked, answers, published>>
      BY <1>5 DEF OtherNotification, FailingNotification, Exit, client
    <2> QED
      BY <1>t, <2>1, <2>2, <2>3 DEF Typed
  <1>6. CASE UNCHANGED vars
    BY <1>t, <1>6 DEF vars, Typed
  <1> QED
    BY <1>1, <1>2, <1>3, <1>4, <1>5, <1>6 DEF Next, Client

----------------------------------------------------------------------------
(* What an answer is computed from. *)

\* WorkInv part by part, for the steps that do not touch `asked`.
LEMMA WorkFrame ==
  ASSUME Typed, WorkInv, UNCHANGED asked
  PROVE  /\ \A r \in Requests : Accepted(r)' <=> Accepted(r)
         /\ \A t \in TaskSet : TaskRight(t)' <=> TaskRight(t)
         /\ UNCHANGED worker => \A w \in Workers : ThreadRight(w)'
         /\ UNCHANGED doc => \A r \in Requests : asked'[r].method = "compile" =>
               asked'[r].file \in Files /\ asked'[r].text <= doc'[asked'[r].file]
  <1>1. \A r \in Requests : Accepted(r)' <=> Accepted(r)
    BY DEF Accepted
  <1>2. ASSUME NEW t \in TaskSet PROVE TaskRight(t)' <=> TaskRight(t)
    BY DEF TaskRight, Accepted
  <1>3. ASSUME UNCHANGED worker, NEW w \in Workers PROVE ThreadRight(w)'
    BY <1>3 DEF WorkInv, ThreadRight, Accepted
  <1> QED
    BY <1>1, <1>2, <1>3 DEF WorkInv

\* Every step keeps WorkInv.
LEMMA WorkStep == Typed /\ WorkInv /\ [Next]_vars => WorkInv'
  <1> SUFFICES ASSUME Typed, WorkInv, [Next]_vars PROVE WorkInv'
    OBVIOUS
  <1>d. \A r \in Requests : r # "diag" /\ r # "none"
    BY NullAssumption DEF NullAssumption
  <1>1. ASSUME NEW f \in Files, NEW v \in Texts, DidOpen(f, v) \/ DidChange(f, v) PROVE WorkInv'
    <2>0. v \in {doc[f], doc[f] + 1} /\ doc[f] \in Nat
      BY <1>1, Members DEF DidOpen, DidChange, Typed
    <2>1. UNCHANGED <<worker, tasks, asked>> /\ doc[f] <= v /\ doc' = [doc EXCEPT ![f] = v]
          /\ contents' = [contents EXCEPT ![f] = v]
      BY <1>1, <2>0 DEF DidOpen, DidChange, SetFileContents
    <2>2. contents' = doc'
      BY <2>1 DEF WorkInv
    <2>3. \A g \in Files : doc[g] \in Nat /\ v \in Nat /\ doc'[g] = IF g = f THEN v ELSE doc[g]
      BY <2>1, Members DEF Typed
    <2>4. ASSUME NEW r \in Requests, asked'[r].method = "compile"
          PROVE  asked'[r].file \in Files /\ asked'[r].text <= doc'[asked'[r].file]
      <3>1. asked[r].file \in Files /\ asked[r].text <= doc[asked[r].file] /\ asked[r].text \in Nat
        BY <2>1, <2>4, Members DEF WorkInv, Typed
      <3> QED
        BY <2>1, <2>3, <3>1
    <2>5. \A r \in Requests : In(r, jobs') => Accepted(r)'
      BY <1>1, <1>d, <2>1, Executed, WorkFrame DEF DidOpen, DidChange, WorkInv
    <2> QED
      BY <2>1, <2>2, <2>4, <2>5, WorkFrame DEF WorkInv
  <1>2. ASSUME NEW r \in Requests, NEW m \in Methods, NEW f \in Files, Request(r, m, f)
        PROVE  WorkInv'
    <2>1. /\ asked[r] = NotAsked
          /\ asked' = [asked EXCEPT ![r] = [method |-> m, file |-> f, text |-> doc[f],
                                            late |-> shutdown_requested]]
          /\ UNCHANGED <<contents, worker, doc>>
          /\ tasks' = Append(tasks, LogTask)
      BY <1>2 DEF Request
    <2>2. /\ asked'[r] = [method |-> m, file |-> f, text |-> doc[f], late |-> shutdown_requested]
          /\ \A q \in Requests : q # r => asked'[q] = asked[q]
      BY <2>1 DEF Typed
    <2>3. asked'[r].method = m /\ asked'[r].file = f /\ asked'[r].text = doc[f]
          /\ asked'[r].late = shutdown_requested
      BY <2>2
    <2>4. ~Accepted(r) /\ \A q \in Requests : Accepted(q) => Accepted(q)' /\ q # r
      BY <2>1, <2>2, Members DEF Accepted
    <2>5. \A q \in Requests : asked'[q].method = "compile" =>
             asked'[q].file \in Files /\ asked'[q].text <= doc'[asked'[q].file]
      <3>1. doc[f] <= doc[f]
        BY Members DEF Typed
      <3> QED
        BY <2>1, <2>2, <2>3, <3>1 DEF WorkInv
    <2>6. \A q \in Requests : In(q, jobs') => Accepted(q)'
      <3>1. CASE ExecuteThenDiagnostics(<<>>)
        BY <1>d, <2>4, <3>1, Executed DEF WorkInv
      <3>2. CASE m = "compile" /\ ~shutdown_requested /\ ExecuteThenDiagnostics(<<r>>)
        <4>1. Accepted(r)'
          BY <2>3, <3>2 DEF Accepted
        <4> QED
          BY <1>d, <2>4, <3>2, <4>1, ExecutedJob DEF WorkInv
      <3> QED
        BY <1>2, <3>1, <3>2 DEF Request, Dispatch, RequestDispatcher
    <2>7. ASSUME NEW w \in Workers PROVE ThreadRight(w)'
      BY <2>1, <2>2, <2>4 DEF WorkInv, ThreadRight
    <2>8. ASSUME NEW t \in TaskSet, In(t, tasks') PROVE TaskRight(t)'
      <3>1. In(t, tasks) \/ t = LogTask
        BY <2>1, <2>8, Members, InAppend DEF Typed
      <3>2. CASE t = LogTask
        BY <3>2, Members DEF TaskRight
      <3>3. CASE In(t, tasks)
        <4>1. TaskRight(t) /\ (t.type = "response" => t.id \in Requests)
          BY <3>3, Members DEF WorkInv
        <4> QED
          BY <2>2, <2>4, <4>1 DEF TaskRight
      <3> QED
        BY <3>1, <3>2, <3>3
    <2> QED
      BY <2>1, <2>5, <2>6, <2>7, <2>8 DEF WorkInv
  <1>3. CASE HandleTask
    <2>1. UNCHANGED <<contents, worker, doc, asked>> /\ tasks # <<>> /\ tasks' = Tail(tasks)
      BY <1>3 DEF HandleTask
    <2>2. \A r \in Requests : In(r, jobs') => Accepted(r)'
      BY <1>3, <1>d, <2>1, Executed, WorkFrame DEF HandleTask, WorkInv
    <2>3. \A t \in TaskSet : In(t, tasks') => In(t, tasks)
      BY <2>1, InTail DEF Typed
    <2> QED
      BY <2>1, <2>2, <2>3, WorkFrame DEF WorkInv
  <1>4. ASSUME NEW w \in Workers, Work(w) PROVE WorkInv'
    <2>0. worker[w] \in ThreadSet /\ ThreadOK(w) /\ worker \in [Workers -> ThreadSet]
      BY DEF Typed
    <2>f. UNCHANGED <<contents, doc, asked>>
      BY <1>4 DEF Work, StartJob, TakeChanges, Compile, SendResponse, SendDiagnostics, client
    <2>w. ASSUME NEW to, worker' = [worker EXCEPT ![w] = to],
                 to.pc # "idle" /\ to.job \in Requests =>
                    Accepted(to.job) /\ (to.pc = "send" => to.text >= asked[to.job].text)
          PROVE  \A u \in Workers : ThreadRight(u)'
      <3>2. worker'[w] = to /\ \A u \in Workers : u # w => worker'[u] = worker[u]
        BY <2>0, <2>w
      <3>3. ThreadRight(w)'
        BY <2>f, <2>w, <3>2 DEF ThreadRight, Accepted
      <3>4. ASSUME NEW u \in Workers, u # w PROVE ThreadRight(u)'
        BY <2>f, <3>2, <3>4 DEF WorkInv, ThreadRight, Accepted
      <3> QED
        BY <3>3, <3>4
    <2>i. worker' = [worker EXCEPT ![w] = Idle] => \A u \in Workers : ThreadRight(u)'
      BY <2>w, Members, ZenonT(30)
    <2>j. UNCHANGED jobs => \A r \in Requests : In(r, jobs') => Accepted(r)'
      BY <2>f, WorkFrame DEF WorkInv
    <2>t. UNCHANGED tasks => \A t \in TaskSet : In(t, tasks') => TaskRight(t)'
      BY <2>f, WorkFrame DEF WorkInv
    <2>1. CASE StartJob(w)
      <3>1. jobs # <<>> /\ jobs' = Tail(jobs) /\ UNCHANGED tasks
        BY <2>1 DEF StartJob
      <3>2. \A x : In(x, jobs) <=> x = Head(jobs) \/ In(x, jobs')
        BY <3>1, InTail DEF Typed
      <3>3. PICK j : j = Head(jobs)
        OBVIOUS
      <3>4. PICK to : to = [Idle EXCEPT !.job = j, !.pc = IF j = "diag" THEN "take" ELSE "compile"]
        OBVIOUS
      <3>5. to.job = j /\ to.pc # "send"
        BY <3>4 DEF Idle
      <3>6. worker' = [worker EXCEPT ![w] = to]
        BY <2>1, <3>3, <3>4 DEF StartJob, Step
      <3>7. j \in Requests => Accepted(j)
        BY <3>2, <3>3 DEF WorkInv
      <3>8. \A r \in Requests : In(r, jobs') => Accepted(r)'
        BY <2>f, <3>2, WorkFrame DEF WorkInv
      <3>9. \A u \in Workers : ThreadRight(u)'
        BY <2>w, <3>5, <3>6, <3>7
      <3> QED
        BY <2>f, <2>t, <3>1, <3>8, <3>9, WorkFrame DEF WorkInv
    <2>2. CASE TakeChanges(w)
      <3>1. UNCHANGED <<jobs, tasks>> /\ worker[w].pc = "take"
        BY <2>2 DEF TakeChanges, Step
      <3>2. PICK to : to = [worker[w] EXCEPT !.pc = "compile", !.files = changes]
        OBVIOUS
      <3>3. to.job = worker[w].job /\ to.pc = "compile"
        BY <2>0, <3>2 DEF ThreadSet
      <3>4. worker' = [worker EXCEPT ![w] = Idle] \/ worker' = [worker EXCEPT ![w] = to]
        BY <2>2, <3>2 DEF TakeChanges, Step
      <3>5. worker[w].job \in Requests => Accepted(worker[w].job)
        BY <3>1 DEF WorkInv, ThreadRight
      <3>6. \A u \in Workers : ThreadRight(u)'
        BY <2>i, <2>w, <3>3, <3>4, <3>5
      <3> QED
        BY <2>f, <2>t, <2>j, <3>1, <3>6, WorkFrame DEF WorkInv
    <2>3. CASE Compile(w)
      <3>1. worker[w].pc = "compile" /\ UNCHANGED <<jobs, tasks>>
        BY <2>3 DEF Compile
      <3>2. PICK v : v = contents[FileOf(w)]
        OBVIOUS
      <3>3. PICK to : to = [worker[w] EXCEPT !.pc = "send", !.text = v]
        OBVIOUS
      <3>4. to.job = worker[w].job /\ to.text = v
        BY <2>0, <3>3 DEF ThreadSet
      <3>5. worker' = [worker EXCEPT ![w] = Idle] \/ worker' = [worker EXCEPT ![w] = to]
        BY <2>3, <3>2, <3>3 DEF Compile, Step
      <3>6. ASSUME worker[w].job \in Requests
            PROVE  Accepted(worker[w].job) /\ v >= asked[worker[w].job].text
        <4>1. Accepted(worker[w].job) /\ FileOf(w) = asked[worker[w].job].file
          BY <1>d, <3>1, <3>6 DEF WorkInv, ThreadRight, FileOf
        <4>2. asked[worker[w].job].text <= doc[asked[worker[w].job].file]
          BY <3>6, <4>1 DEF Accepted, WorkInv
        <4>3. asked[worker[w].job].text \in Nat /\ doc[asked[worker[w].job].file] \in Nat
          BY <3>6, <4>1, Members DEF Accepted, Typed
        <4>4. v = doc[asked[worker[w].job].file]
          BY <3>2, <4>1 DEF WorkInv
        <4> QED
          BY <4>1, <4>2, <4>3, <4>4
      <3>7. \A u \in Workers : ThreadRight(u)'
        BY <2>i, <2>w, <3>4, <3>5, <3>6
      <3> QED
        BY <2>f, <2>t, <2>j, <3>1, <3>7, WorkFrame DEF WorkInv
    <2>4. CASE SendResponse(w)
      <3>1. worker[w].job \in Requests /\ worker' = [worker EXCEPT ![w] = Idle]
            /\ worker[w].pc = "send" /\ UNCHANGED jobs
        BY <2>4 DEF SendResponse, Step
      <3>2. PICK c \in {"Ok", "InternalError"}, log \in {<<>>, <<LogTask>>} :
               tasks' = tasks \o log \o <<Response(worker[w].job, c, worker[w].text)>>
        BY <2>4 DEF SendResponse
      <3>3. c \in Codes /\ worker[w].text \in Texts
        BY <2>0, Members DEF Codes
      <3>4. PICK t \in TaskSet : t = Response(worker[w].job, c, worker[w].text)
        BY <3>1, <3>3, Members
      <3>5. TaskRight(t)
        <4>1. t.id = worker[w].job /\ t.code = c /\ t.text = worker[w].text
          BY <3>1, <3>3, <3>4, Members
        <4>2. Accepted(worker[w].job) /\ worker[w].text >= asked[worker[w].job].text
          BY <3>1 DEF WorkInv, ThreadRight
        <4> QED
          BY <4>1, <4>2 DEF TaskRight
      <3>6. \A x : In(x, tasks') => In(x, tasks) \/ x = LogTask \/ x = t
        BY <3>2, <3>4, Sent
      <3>7. TaskRight(LogTask)
        BY Members DEF TaskRight
      <3>8. \A x \in TaskSet : In(x, tasks') => TaskRight(x)'
        BY <2>f, <3>5, <3>6, <3>7, WorkFrame DEF WorkInv
      <3> QED
        BY <2>f, <2>i, <2>j, <3>1, <3>8, WorkFrame DEF WorkInv
    <2>5. CASE SendDiagnostics(w)
      <3>1. worker[w].job = "diag" /\ worker[w].pc = "send" /\ UNCHANGED jobs
        BY <2>5 DEF SendDiagnostics, Step
      <3>2. worker[w].files \in Seq(Files) /\ worker[w].files # <<>> /\ worker[w].text \in Texts
        BY <2>0, <3>1, Members DEF ThreadOK
      <3>3. PICK to : to = [worker[w] EXCEPT !.pc = "compile", !.files = Tail(worker[w].files)]
        OBVIOUS
      <3>4. to.job = "diag"
        BY <2>0, <3>1, <3>3 DEF ThreadSet
      <3>5. worker' = [worker EXCEPT ![w] = Idle] \/ worker' = [worker EXCEPT ![w] = to]
        BY <2>5, <3>3 DEF SendDiagnostics, Step
      <3>6. \A u \in Workers : ThreadRight(u)'
        BY <1>d, <2>i, <2>w, <3>4, <3>5
      <3>7. FileOf(w) \in Files
        BY <3>1, <3>2, InTail DEF FileOf
      <3>8. PICK t \in TaskSet : t = Diagnostics(FileOf(w), worker[w].text, w) /\ t.type = "diagnostics"
        BY <3>2, <3>7, Members
      <3>9. \A x : In(x, tasks') <=> In(x, tasks) \/ x = t
        BY <2>5, <3>8, InAppend DEF SendDiagnostics, Typed
      <3>10. \A x \in TaskSet : In(x, tasks') => TaskRight(x)'
        <4>1. TaskRight(t)'
          BY <3>8 DEF TaskRight
        <4> QED
          BY <2>f, <3>9, <4>1, WorkFrame DEF WorkInv
      <3> QED
        BY <2>f, <2>j, <3>1, <3>6, <3>10, WorkFrame DEF WorkInv
    <2> QED
      BY <1>4, <2>1, <2>2, <2>3, <2>4, <2>5 DEF Work
  <1>5. CASE OtherNotification \/ FailingNotification \/ Exit
    <2>1. UNCHANGED <<contents, worker, tasks, doc, asked>>
      BY <1>5 DEF OtherNotification, FailingNotification, Exit, client
    <2>2. \A r \in Requests : In(r, jobs') => In(r, jobs)
      BY <1>5, <1>d, Executed DEF OtherNotification, FailingNotification, Exit
    <2> QED
      BY <2>1, <2>2, WorkFrame DEF WorkInv
  <1>6. CASE UNCHANGED vars
    <2>1. UNCHANGED <<contents, worker, tasks, doc, asked, jobs>>
      BY <1>6 DEF vars
    <2> QED
      BY <2>1, WorkFrame DEF WorkInv
  <1> QED
    BY <1>1, <1>2, <1>3, <1>4, <1>5, <1>6 DEF Next, Client

\* Nothing is under way at the start.
LEMMA WorkInit == Init => Typed /\ WorkInv
  <1> SUFFICES ASSUME Init PROVE Typed /\ WorkInv
    OBVIOUS
  <1>e. \A x : ~In(x, <<>>)
    BY DEF In
  <1>1. worker \in [Workers -> ThreadSet] /\ \A w \in Workers : worker[w] = Idle
    BY Members DEF Init
  <1>2. \A w \in Workers : ThreadOK(w) /\ ThreadRight(w)
    BY <1>1, Members DEF ThreadOK, ThreadRight
  <1>3. asked \in [Requests -> AskSet] /\ \A r \in Requests : asked[r].method = "none"
    BY Members DEF Init
  <1>4. contents \in [Files -> Texts] /\ doc \in [Files -> Texts] /\ contents = doc
    BY Members DEF Init
  <1>5. jobs = <<>> /\ tasks = <<>> /\ changes = <<>> /\ jobs \in Seq(Jobs) /\ tasks \in Seq(TaskSet)
        /\ changes \in Seq(Files)
    BY DEF Init
  <1>6. answers \in [Requests -> Seq(AnswerSet)] /\ published \in [Files -> Seq(PubSet)]
    BY DEF Init
  <1>7. Typed
    BY <1>1, <1>2, <1>3, <1>4, <1>5, <1>6 DEF Init, Typed
  <1>8. WorkInv
    BY <1>e, <1>2, <1>3, <1>4, <1>5 DEF WorkInv
  <1> QED
    BY <1>7, <1>8

\* The types of the server's and the client's state; a thread in the middle of
\* a job has the files, or the request that was asked, to work on.
THEOREM TypeCorrect == Spec => []TypeOK
  <1>1. Typed /\ WorkInv => TypeOK
    <2> SUFFICES ASSUME Typed, WorkInv PROVE TypeOK
      OBVIOUS
    <2>1. ASSUME NEW w \in Workers
          PROVE  /\ worker[w].pc # "idle" => worker[w].job # "none"
                 /\ worker[w].pc \in {"compile", "send"} =>
                       IF worker[w].job = "diag" THEN worker[w].files # <<>>
                       ELSE asked[worker[w].job] # NotAsked
      <3>1. ThreadOK(w) /\ ThreadRight(w) /\ worker[w].job \in {"none", "diag"} \cup Requests
        BY Members DEF Typed, WorkInv
      <3>2. \A r \in Requests : Accepted(r) => asked[r] # NotAsked
        BY Members DEF Accepted
      <3> QED
        BY <3>1, <3>2 DEF ThreadOK, ThreadRight
    <2> QED
      BY <2>1 DEF Typed, TypeOK, Jobs, ThreadSet, AskSet, AnswerSet, PubSet
  <1> QED
    BY WorkInit, TypedStep, WorkStep, <1>1, PTL DEF Spec

\* An answer x to r is computed from no older text than the client's own, and a
\* refusal exactly if r came after shutdown.
RightAnswer(r, x) ==
    /\ x.code = "Ok" /\ asked[r].method = "compile" => x.text >= asked[r].text
    /\ x.code = "InvalidRequest" <=> asked[r].late

\* A step that adds a first right answer and changes no answered request.
LEMMA AnswerAdded ==
  ASSUME OnceInv, AnswersRight, NEW r \in Requests, NEW x,
         answers' = [answers EXCEPT ![r] = Append(@, x)], answers[r] = <<>>,
         \A q \in Requests : q # r => asked'[q] = asked[q],
         RightAnswer(r, x)'
  PROVE  AnswersRight'
  <1>1. Append(<<>>, x) = <<x>>
    OBVIOUS
  <1>2. answers'[r] = <<x>> /\ \A q \in Requests : q # r => answers'[q] = answers[q]
    BY <1>1 DEF OnceInv
  <1>3. \A i \in 1..Len(<<x>>) : <<x>>[i] = x
    OBVIOUS
  <1>4. ASSUME NEW q \in Requests, NEW i \in 1..Len(answers'[q])
        PROVE  /\ answers'[q][i].code = "Ok" /\ asked'[q].method = "compile"
                     => answers'[q][i].text >= asked'[q].text
               /\ answers'[q][i].code = "InvalidRequest" <=> asked'[q].late
    <2>1. CASE q = r
      BY <1>2, <1>3, <2>1 DEF RightAnswer
    <2>2. CASE q # r
      BY <1>2, <2>2 DEF AnswersRight, ReadsOwnEdits, RefusedIffLate
    <2> QED
      BY <2>1, <2>2
  <1> QED
    BY <1>4 DEF AnswersRight, ReadsOwnEdits, RefusedIffLate

\* Every step keeps what the answers say right.
LEMMA RightStep == Typed /\ OnceInv /\ WorkInv /\ AnswersRight /\ [Next]_vars => AnswersRight'
  <1> SUFFICES ASSUME Typed, OnceInv, WorkInv, AnswersRight, [Next]_vars PROVE AnswersRight'
    OBVIOUS
  <1>1. ASSUME UNCHANGED <<answers, asked>> PROVE AnswersRight'
    BY <1>1 DEF AnswersRight, ReadsOwnEdits, RefusedIffLate
  <1>2. ASSUME NEW r \in Requests, NEW m \in Methods, NEW f \in Files, Request(r, m, f)
        PROVE  AnswersRight'
    <2>1. /\ asked[r] = NotAsked
          /\ asked' = [asked EXCEPT ![r] = [method |-> m, file |-> f, text |-> doc[f],
                                            late |-> shutdown_requested]]
      BY <1>2 DEF Request
    <2>2. /\ asked'[r] = [method |-> m, file |-> f, text |-> doc[f], late |-> shutdown_requested]
          /\ \A q \in Requests : q # r => asked'[q] = asked[q]
      BY <2>1 DEF Typed
    <2>3. asked'[r].method = m /\ asked'[r].late = shutdown_requested
      BY <2>2
    <2>4. answers[r] = <<>> /\ shutdown_requested \in BOOLEAN
      BY <2>1 DEF OnceInv, Typed
    <2>5. ASSUME NEW c \in Codes, RespondNow(r, c), c = "InvalidRequest" <=> shutdown_requested,
                 c = "Ok" => m # "compile"
          PROVE  AnswersRight'
      <3>1. PICK x : x = [code |-> c, text |-> 0]
        OBVIOUS
      <3>2. x.code = c /\ answers' = [answers EXCEPT ![r] = Append(@, x)]
        BY <2>5, <3>1 DEF RespondNow
      <3>3. RightAnswer(r, x)'
        BY <2>3, <2>4, <2>5, <3>2 DEF RightAnswer
      <3> QED
        BY <2>2, <2>4, <3>2, <3>3, AnswerAdded
    <2>6. ASSUME UNCHANGED answers PROVE AnswersRight'
      <3>1. \A q \in Requests : q = r => Len(answers'[q]) = 0
        BY <2>4, <2>6
      <3>2. ASSUME NEW q \in Requests, NEW i \in 1..Len(answers'[q])
            PROVE  /\ answers'[q][i].code = "Ok" /\ asked'[q].method = "compile"
                         => answers'[q][i].text >= asked'[q].text
                   /\ answers'[q][i].code = "InvalidRequest" <=> asked'[q].late
        <4>1. q # r
          BY <3>1
        <4> QED
          BY <2>2, <2>6, <4>1 DEF AnswersRight, ReadsOwnEdits, RefusedIffLate
      <3> QED
        BY <3>2 DEF AnswersRight, ReadsOwnEdits, RefusedIffLate
    <2>7. \/ \E c \in Codes : /\ RespondNow(r, c) /\ (c = "InvalidRequest" <=> shutdown_requested)
                              /\ (c = "Ok" => m # "compile")
          \/ UNCHANGED answers
      BY <1>2, <2>4 DEF Request, Dispatch, RequestDispatcher, Codes
    <2> QED
      BY <2>5, <2>6, <2>7
  <1>3. CASE HandleTask
    <2>1. UNCHANGED asked /\ tasks # <<>>
      BY <1>3 DEF HandleTask
    <2>2. Head(tasks) \in TaskSet /\ In(Head(tasks), tasks)
      BY <2>1, InTail DEF Typed
    <2>3. PICK t \in TaskSet : t = Head(tasks)
      BY <2>2
    <2>4. CASE UNCHANGED answers
      BY <1>1, <2>1, <2>4
    <2>5. CASE t.type = "response" /\ Respond(t.id, t.code, t.text) /\ t.id \in incoming
      <3>1. t.id \in Requests /\ TaskRight(t)
        BY <2>2, <2>3, <2>5, Members DEF WorkInv
      <3>2. PICK r \in Requests : r = t.id
        BY <3>1
      <3>3. PICK x : x = [code |-> t.code, text |-> t.text]
        OBVIOUS
      <3>4. x.code = t.code /\ x.text = t.text /\ answers' = [answers EXCEPT ![r] = Append(@, x)]
        BY <2>5, <3>2, <3>3 DEF Respond
      <3>5. answers[r] = <<>>
        BY <2>5, <3>2 DEF OnceInv
      <3>6. RightAnswer(r, x)'
        BY <2>1, <2>5, <3>1, <3>2, <3>4 DEF TaskRight, Accepted, RightAnswer
      <3> QED
        BY <2>1, <3>4, <3>5, <3>6, AnswerAdded
    <2> QED
      BY <1>3, <2>3, <2>4, <2>5 DEF HandleTask, Respond
  <1>4. ASSUME NEW w \in Workers, Work(w) PROVE AnswersRight'
    BY <1>1, <1>4 DEF Work, StartJob, TakeChanges, Compile, SendResponse, SendDiagnostics, client
  <1>5. ASSUME NEW f \in Files, NEW v \in Texts, DidOpen(f, v) \/ DidChange(f, v) PROVE AnswersRight'
    BY <1>1, <1>5 DEF DidOpen, DidChange
  <1>6. CASE OtherNotification \/ FailingNotification \/ Exit
    BY <1>1, <1>6 DEF OtherNotification, FailingNotification, Exit, client
  <1>7. CASE UNCHANGED vars
    BY <1>1, <1>7 DEF vars
  <1> QED
    BY <1>2, <1>3, <1>4, <1>5, <1>6, <1>7 DEF Next, Client

\* Whatever edits, threads and requests race: a client's request sees the edits
\* it sent before, and it is refused if and only if it came after `shutdown`.
THEOREM Right == Spec => []AnswersRight
  <1>1. Init => AnswersRight
    <2> SUFFICES ASSUME Init, NEW r \in Requests PROVE Len(answers[r]) = 0
      BY DEF AnswersRight, ReadsOwnEdits, RefusedIffLate
    <2> QED
      BY DEF Init
  <1> QED
    BY WorkInit, TypedStep, WorkStep, OnceInit, OnceStep, RightStep, <1>1, PTL DEF Spec

----------------------------------------------------------------------------
(* Nothing is forgotten. *)

\* Nothing is pending at the start.
LEMMA LostInit == Init => NoneLost
  BY Members DEF Init, NoneLost

\* What may have been lost stays so: documents only go on to newer texts.
LEMMA ExcuseGrows ==
  ASSUME Typed, \A g \in Files : contents'[g] \in Nat /\ contents[g] <= contents'[g]
  PROVE  /\ \A r \in Requests : asked'[r] = asked[r] /\ MayBeLost(r) => MayBeLost(r)'
         /\ \A f \in Files : contents'[f] = contents[f] /\ MayBeUnreported(f) => MayBeUnreported(f)'
  <1>1. \A f, v : <<f, v>> \in Unloadable => f \in Files
    BY TextAssumption DEF TextAssumption
  <1>n. (\A v \in Texts : v \in Nat) /\ \A g \in Files : contents[g] \in Nat
    BY Members DEF Typed
  <1>2. ASSUME NEW r \in Requests, asked'[r] = asked[r], MayBeLost(r) PROVE MayBeLost(r)'
    <2>1. PICK v \in Texts : /\ <<asked[r].file, v>> \in Unloadable
                             /\ asked[r].text <= v /\ v <= contents[asked[r].file]
      BY <1>2 DEF MayBeLost
    <2>2. asked[r].file \in Files
      BY <1>1, <2>1
    <2>3. v <= contents'[asked[r].file]
      BY <1>n, <2>1, <2>2
    <2> QED
      BY <1>2, <2>1, <2>3 DEF MayBeLost
  <1>3. ASSUME NEW f \in Files, contents'[f] = contents[f], MayBeUnreported(f) PROVE MayBeUnreported(f)'
    <2>1. CASE <<f, contents[f]>> \in Unloadable
      BY <1>3, <2>1 DEF MayBeUnreported
    <2>2. ASSUME NEW g \in Files \ {f}, NEW v \in Texts, <<g, v>> \in Unloadable, 0 < v, v <= contents[g]
          PROVE  MayBeUnreported(f)'
      <3>1. v <= contents'[g]
        BY <1>n, <2>2
      <3> QED
        BY <2>2, <3>1 DEF MayBeUnreported
    <2> QED
      BY <1>3, <2>1, <2>2 DEF MayBeUnreported
  <1> QED
    BY <1>2, <1>3

\* An edit goes on to the same text or the next.
LEMMA EditGrows ==
  ASSUME Typed, WorkInv, NEW f \in Files, NEW v \in Texts, DidOpen(f, v) \/ DidChange(f, v)
  PROVE  /\ v # 0
         /\ \A g \in Files : contents'[g] = IF g = f THEN v ELSE contents[g]
         /\ \A g \in Files : contents'[g] \in Nat /\ contents[g] \in Nat /\ contents[g] <= contents'[g]
  <1>1. v \in Nat /\ \A g \in Files : contents[g] \in Nat /\ contents[g] = doc[g]
    BY Members DEF Typed, WorkInv
  <1>2. v \in {doc[f], doc[f] + 1} /\ (v > 0 \/ contents[f] # 0)
    BY DEF DidOpen, DidChange
  <1>3. \A g \in Files : contents'[g] = IF g = f THEN v ELSE contents[g]
    BY FileSet DEF DidOpen, DidChange, Typed
  <1>4. contents[f] <= v /\ v # 0
    BY <1>1, <1>2
  <1>5. ASSUME NEW g \in Files PROVE contents'[g] \in Nat /\ contents[g] \in Nat /\ contents[g] <= contents'[g]
    BY <1>1, <1>3, <1>4
  <1> QED
    BY <1>3, <1>4, <1>5

\* Only opened documents are changed, and none is closed again.
LEMMA OpenedStep == Typed /\ WorkInv /\ OpenedInv /\ [Next]_vars => OpenedInv'
  <1> SUFFICES ASSUME Typed, WorkInv, OpenedInv, [Next]_vars PROVE OpenedInv'
    OBVIOUS
  <1>1. ASSUME NEW f \in Files, NEW v \in Texts, DidOpen(f, v) \/ DidChange(f, v) PROVE OpenedInv'
    <2>1. UNCHANGED worker /\ \A x : In(x, changes') => In(x, changes) \/ x = f
      BY <1>1, FileSet DEF DidOpen, DidChange
    <2>2. v # 0 /\ \A g \in Files : contents'[g] = IF g = f THEN v ELSE contents[g]
      BY <1>1, EditGrows
    <2> QED
      BY <2>1, <2>2 DEF OpenedInv
  <1>2. ASSUME UNCHANGED <<contents, changes, worker>> PROVE OpenedInv'
    BY <1>2 DEF OpenedInv
  <1>3. ASSUME NEW w \in Workers, Work(w) PROVE OpenedInv'
    <2>0. worker[w] \in ThreadSet /\ ThreadOK(w) /\ worker \in [Workers -> ThreadSet]
      BY DEF Typed
    <2>f. UNCHANGED contents
      BY <1>3 DEF Work, StartJob, TakeChanges, Compile, SendResponse, SendDiagnostics
    <2>w. ASSUME NEW to, worker' = [worker EXCEPT ![w] = to],
                 \A f \in Files : In(f, changes') => In(f, changes),
                 to.pc \in {"compile", "send"} /\ to.job = "diag" =>
                    \A f \in Files : In(f, to.files) => contents[f] # 0
          PROVE  OpenedInv'
      <3>1. worker'[w] = to /\ \A u \in Workers : u # w => worker'[u] = worker[u]
        BY <2>0, <2>w
      <3> QED
        BY <2>f, <2>w, <3>1 DEF OpenedInv
    <2>i. worker' = [worker EXCEPT ![w] = Idle] /\ UNCHANGED changes => OpenedInv'
      <3>1. Idle.pc = "idle"
        BY Members
      <3> QED
        BY <2>w, <3>1
    <2>1. CASE StartJob(w)
      <3>1. PICK to : to = [Idle EXCEPT !.job = Head(jobs),
                                        !.pc = IF Head(jobs) = "diag" THEN "take" ELSE "compile"]
        OBVIOUS
      <3>2. to.pc = "compile" => to.job # "diag"
        BY <3>1 DEF Idle
      <3>3. to.pc # "send"
        BY <3>1 DEF Idle
      <3>4. worker' = [worker EXCEPT ![w] = to] /\ UNCHANGED changes
        BY <2>1, <3>1 DEF StartJob, Step
      <3> QED
        BY <2>w, <3>2, <3>3, <3>4
    <2>2. CASE TakeChanges(w)
      <3>1. changes' = <<>> /\ \A x : ~In(x, <<>>)
        BY <2>2 DEF TakeChanges, In
      <3>2. CASE worker' = [worker EXCEPT ![w] = Idle]
        <4>1. Idle.pc = "idle"
          BY Members
        <4> QED
          BY <2>w, <3>1, <3>2, <4>1
      <3>3. CASE worker' = [worker EXCEPT ![w] = [worker[w] EXCEPT !.pc = "compile", !.files = changes]]
        <4>1. PICK to : to = [worker[w] EXCEPT !.pc = "compile", !.files = changes]
          OBVIOUS
        <4>2. to.files = changes
          BY <2>0, <4>1 DEF ThreadSet
        <4> QED
          BY <2>w, <3>1, <3>3, <4>1, <4>2 DEF OpenedInv
      <3> QED
        BY <2>2, <3>2, <3>3 DEF TakeChanges, Step
    <2>3. CASE Compile(w)
      <3>1. worker[w].pc = "compile" /\ UNCHANGED changes
        BY <2>3 DEF Compile
      <3>2. PICK to : to = [worker[w] EXCEPT !.pc = "send", !.text = contents[FileOf(w)]]
        OBVIOUS
      <3>3. to.files = worker[w].files /\ to.job = worker[w].job
        BY <2>0, <3>2 DEF ThreadSet
      <3>4. worker' = [worker EXCEPT ![w] = Idle] \/ worker' = [worker EXCEPT ![w] = to]
        BY <2>3, <3>2 DEF Compile, Step
      <3> QED
        BY <2>i, <2>w, <3>1, <3>3, <3>4 DEF OpenedInv
    <2>4. CASE SendResponse(w)
      BY <2>i, <2>4 DEF SendResponse, Step
    <2>5. CASE SendDiagnostics(w)
      <3>1. worker[w].job = "diag" /\ worker[w].pc = "send" /\ UNCHANGED changes
        BY <2>5 DEF SendDiagnostics, Step
      <3>2. worker[w].files \in Seq(Files) /\ worker[w].files # <<>>
        BY <2>0, <3>1, Members DEF ThreadOK
      <3>3. PICK to : to = [worker[w] EXCEPT !.pc = "compile", !.files = Tail(worker[w].files)]
        OBVIOUS
      <3>4. to.files = Tail(worker[w].files)
        BY <2>0, <3>3 DEF ThreadSet
      <3>5. \A f \in Files : In(f, to.files) => contents[f] # 0
        BY <3>1, <3>2, <3>4, InTail DEF OpenedInv
      <3>6. worker' = [worker EXCEPT ![w] = Idle] \/ worker' = [worker EXCEPT ![w] = to]
        BY <2>5, <3>3 DEF SendDiagnostics, Step
      <3> QED
        BY <2>i, <2>w, <3>1, <3>5, <3>6
    <2> QED
      BY <1>3, <2>1, <2>2, <2>3, <2>4, <2>5 DEF Work
  <1>4. ASSUME NEW r \in Requests, NEW m \in Methods, NEW f \in Files, Request(r, m, f) PROVE OpenedInv'
    BY <1>2, <1>4 DEF Request
  <1>5. CASE HandleTask \/ OtherNotification \/ FailingNotification \/ Exit \/ UNCHANGED vars
    BY <1>2, <1>5 DEF HandleTask, OtherNotification, FailingNotification, Exit, client, vars
  <1> QED
    BY <1>1, <1>3, <1>4, <1>5 DEF Next, Client

\* On the main thread: every event queues diagnostics, so a change is never
\* left without a job, and an accepted request has one of its own.
LEMMA LostMain ==
  ASSUME Typed, NoneLost, \A x : In(x, jobs) => In(x, jobs'), In("diag", jobs'), UNCHANGED worker,
         \A r \in incoming' : InHand(r) \/ In(r, jobs') \/ MayBeLost(r)',
         \A r \in incoming', t \in TaskSet :
            In(t, tasks) /\ t.type = "response" /\ t.id = r => In(t, tasks'),
         \A r \in Requests : asked'[r] # NotAsked => r \in incoming' \/ answers'[r] # <<>>,
         \A f \in Files : contents'[f] # 0 => Reported(f)' \/ MayBeUnreported(f)'
  PROVE  NoneLost'
  <1>1. ASSUME NEW r \in incoming' PROVE InHand(r)' \/ MayBeLost(r)'
    BY DEF InHand
  <1>2. \A w \in Workers : worker'[w].pc = "take" => worker'[w].job = "diag"
    BY DEF NoneLost
  <1> QED
    BY <1>1, <1>2 DEF NoneLost

\* Every step of the main loop keeps NoneLost.
LEMMA LostClient ==
  ASSUME Typed, OnceInv, WorkInv, NoneLost, Client \/ HandleTask
  PROVE  NoneLost'
  <1>g. ASSUME UNCHANGED contents
        PROVE  /\ \A r \in Requests : asked'[r] = asked[r] /\ MayBeLost(r) => MayBeLost(r)'
               /\ \A f \in Files : MayBeUnreported(f) => MayBeUnreported(f)'
    BY <1>g DEF MayBeLost, MayBeUnreported
  <1>q. incoming \subseteq Requests
    BY DEF Typed
  <1>1. ASSUME NEW f \in Files, NEW v \in Texts, DidOpen(f, v) \/ DidChange(f, v) PROVE NoneLost'
    <2>1. UNCHANGED <<incoming, worker, tasks, asked, answers, published>>
          /\ ExecuteThenDiagnostics(<<>>) /\ SetFileContents(f, v)
      BY <1>1 DEF DidOpen, DidChange
    <2>2. \A x : In(x, changes') <=> In(x, changes) \/ (x = f /\ contents[f] # v)
      BY <2>1, FileSet
    <2>3. \A g \in Files : contents'[g] = IF g = f THEN v ELSE contents[g]
      BY <2>1, FileSet DEF Typed
    <2>g. /\ \A r \in Requests : asked'[r] = asked[r] /\ MayBeLost(r) => MayBeLost(r)'
          /\ \A g \in Files : contents'[g] = contents[g] /\ MayBeUnreported(g) => MayBeUnreported(g)'
      <3>1. \A g \in Files : contents'[g] \in Nat /\ contents[g] <= contents'[g]
        BY <1>1, EditGrows
      <3> QED
        BY <3>1, ExcuseGrows
    <2>4. ASSUME NEW g \in Files, contents'[g] # 0 PROVE Reported(g)' \/ MayBeUnreported(g)'
      <3>1. CASE contents'[g] # contents[g]
        BY <2>2, <2>3, <3>1 DEF Reported, Pending
      <3>2. CASE contents'[g] = contents[g]
        <4>1. Reported(g) \/ MayBeUnreported(g)
          BY <2>4, <3>2 DEF NoneLost
        <4>2. \A w \in Workers : Reporting(w, g) => Reporting(w, g)'
          BY <2>1, <3>2 DEF Reporting
        <4>3. Reported(g) => Reported(g)'
          BY <2>1, <2>2, <3>2, <4>2 DEF Reported, Pending, Diagnostics
        <4> QED
          BY <2>g, <3>2, <4>1, <4>3
      <3> QED
        BY <3>1, <3>2
    <2>5. \A r \in Requests : asked'[r] # NotAsked => r \in incoming' \/ answers'[r] # <<>>
      BY <2>1 DEF NoneLost
    <2>6. \A r \in incoming' : InHand(r) \/ MayBeLost(r)'
      BY <1>q, <2>1, <2>g DEF NoneLost
    <2> QED
      BY <2>1, <2>4, <2>5, <2>6, Executed, LostMain
  <1>f. ASSUME UNCHANGED <<contents, changes, worker, published>>, \A t : In(t, tasks) => In(t, tasks')
        PROVE  \A f \in Files : contents'[f] # 0 => Reported(f)' \/ MayBeUnreported(f)'
    <2> SUFFICES ASSUME NEW f \in Files, contents'[f] # 0 PROVE Reported(f)' \/ MayBeUnreported(f)'
      OBVIOUS
    <2>1. Reported(f) \/ MayBeUnreported(f)
      BY <1>f DEF NoneLost
    <2>2. \A w \in Workers : Reporting(w, f) => Reporting(w, f)'
      BY <1>f DEF Reporting
    <2>3. Reported(f) => Reported(f)'
      BY <1>f, <2>2 DEF Reported, Pending, Diagnostics
    <2> QED
      BY <1>f, <1>g, <2>1, <2>3
  <1>2. ASSUME NEW r \in Requests, NEW m \in Methods, NEW f \in Files, Request(r, m, f)
        PROVE  NoneLost'
    <2>1. /\ asked' = [asked EXCEPT ![r] = [method |-> m, file |-> f, text |-> doc[f],
                                            late |-> shutdown_requested]]
          /\ UNCHANGED <<contents, changes, worker, published>>
          /\ tasks' = Append(tasks, LogTask)
      BY <1>2 DEF Request
    <2>2. \A q \in Requests : q # r => asked'[q] = asked[q]
      BY <2>1 DEF Typed
    <2>3. \A t : In(t, tasks) => In(t, tasks')
      BY <2>1, Members, InAppend DEF Typed
    <2>a. r \notin incoming
      BY <1>2 DEF Request, OnceInv
    <2>b. \A q \in incoming : InHand(q) \/ MayBeLost(q)'
      BY <1>g, <1>q, <2>1, <2>2, <2>a DEF NoneLost
    <2>4. \A g \in Files : contents'[g] # 0 => Reported(g)' \/ MayBeUnreported(g)'
      BY <1>f, <2>1, <2>3
    <2>5. ASSUME NEW c \in Codes, RespondNow(r, c), ExecuteThenDiagnostics(<<>>) PROVE NoneLost'
      <3>1. answers[r] \in Seq(AnswerSet) /\ [code |-> c, text |-> 0] \in AnswerSet
        BY Members DEF Typed, AnswerSet
      <3>x. PICK x \in AnswerSet : x = [code |-> c, text |-> 0]
        BY <3>1
      <3>a. Append(answers[r], x) \in Seq(AnswerSet) /\ Append(answers[r], x) # <<>>
        BY <3>1, InAppend
      <3>2. PICK a \in Seq(AnswerSet) : a = Append(answers[r], [code |-> c, text |-> 0]) /\ a # <<>>
        BY <3>x, <3>a
      <3>3. answers' = [answers EXCEPT ![r] = a] /\ UNCHANGED incoming
        BY <2>5, <3>2 DEF RespondNow
      <3>4. \A q \in Requests : asked'[q] # NotAsked => q \in incoming' \/ answers'[q] # <<>>
        BY <2>2, <3>2, <3>3 DEF NoneLost, Typed
      <3>5. \A q \in incoming' : InHand(q) \/ MayBeLost(q)'
        BY <2>b, <3>3
      <3> QED
        BY <2>1, <2>3, <2>4, <2>5, <3>4, <3>5, Executed, LostMain
    <2>6. ASSUME incoming' = incoming \cup {r}, ExecuteThenDiagnostics(<<r>>), UNCHANGED answers
          PROVE  NoneLost'
      <3>1. \A q \in Requests : asked'[q] # NotAsked => q \in incoming' \/ answers'[q] # <<>>
        BY <2>2, <2>6 DEF NoneLost
      <3>2. (\A x : In(x, jobs) => In(x, jobs')) /\ In(r, jobs') /\ In("diag", jobs')
        BY <2>6, ExecutedJob
      <3>3. \A q \in incoming' : InHand(q) \/ In(q, jobs') \/ MayBeLost(q)'
        BY <2>6, <2>b, <3>2
      <3> QED
        BY <2>1, <2>3, <2>4, <3>1, <3>2, <3>3, LostMain
    <2>7. \/ \E c \in Codes : RespondNow(r, c) /\ ExecuteThenDiagnostics(<<>>)
          \/ incoming' = incoming \cup {r} /\ ExecuteThenDiagnostics(<<r>>) /\ UNCHANGED answers
      BY <1>2 DEF Request, Dispatch, RequestDispatcher, Codes
    <2> QED
      BY <2>5, <2>6, <2>7
  <1>3. CASE HandleTask
    <2>1. UNCHANGED <<contents, changes, worker, asked>> /\ tasks # <<>> /\ tasks' = Tail(tasks)
          /\ ExecuteThenDiagnostics(<<>>)
      BY <1>3 DEF HandleTask
    <2>2. Head(tasks) \in TaskSet /\ \A x : In(x, tasks) <=> x = Head(tasks) \/ In(x, tasks')
      BY <2>1, InTail DEF Typed
    <2>3. PICK t \in TaskSet : t = Head(tasks)
      BY <2>2
    <2>4. \/ t.type = "log" /\ UNCHANGED <<incoming, answers, published>>
          \/ /\ t.type = "diagnostics"
             /\ published' = [published EXCEPT ![t.file] = Append(@, [text |-> t.text, by |-> t.by])]
             /\ UNCHANGED <<incoming, answers>>
          \/ t.type = "response" /\ Respond(t.id, t.code, t.text) /\ UNCHANGED published
      BY <1>3, <2>3 DEF HandleTask
    <2>5. incoming' \subseteq incoming
          /\ (t.type = "response" => t.id \notin incoming')
          /\ \A r \in Requests : asked'[r] # NotAsked => r \in incoming' \/ answers'[r] # <<>>
      <3>1. CASE t.type # "response" /\ UNCHANGED <<incoming, answers>>
        BY <2>1, <3>1 DEF NoneLost
      <3>2. CASE t.type = "response" /\ Respond(t.id, t.code, t.text) /\ t.id \in incoming
        <4>1. t.id \in Requests /\ t.code \in Codes /\ t.text \in Texts
          BY <3>2, Members
        <4>2. answers[t.id] \in Seq(AnswerSet) /\ [code |-> t.code, text |-> t.text] \in AnswerSet
          BY <4>1 DEF Typed, AnswerSet
        <4>x. PICK x \in AnswerSet : x = [code |-> t.code, text |-> t.text]
          BY <4>2
        <4>a. Append(answers[t.id], x) \in Seq(AnswerSet) /\ Append(answers[t.id], x) # <<>>
          BY <4>2, InAppend
        <4>3. PICK a \in Seq(AnswerSet) : a = Append(answers[t.id], [code |-> t.code, text |-> t.text])
                                          /\ a # <<>>
          BY <4>x, <4>a
        <4>4. answers' = [answers EXCEPT ![t.id] = a] /\ incoming' = incoming \ {t.id}
          BY <3>2, <4>3 DEF Respond
        <4>5. \A r \in Requests : answers'[r] = IF r = t.id THEN a ELSE answers[r]
          BY <4>1, <4>4 DEF Typed
        <4> QED
          BY <2>1, <4>3, <4>4, <4>5 DEF NoneLost
      <3>3. CASE t.type = "response" /\ Respond(t.id, t.code, t.text) /\ t.id \notin incoming
        BY <2>1, <3>3 DEF Respond, NoneLost
      <3> QED
        BY <2>4, <3>1, <3>2, <3>3
    <2>6. ASSUME NEW f \in Files, contents'[f] # 0 PROVE Reported(f)' \/ MayBeUnreported(f)'
      <3>1. /\ Reported(f) \/ MayBeUnreported(f)
            /\ contents'[f] = contents[f] /\ contents[f] \in Texts
        BY <2>1, <2>6 DEF NoneLost, Typed
      <3>2. Pending(f) => Pending(f)'
        BY <2>1 DEF Pending, Reporting
      <3>p. published[f] \in Seq(PubSet)
        BY DEF Typed
      <3>3. \A v : In(v, published[f]) => In(v, published'[f])
        <4>1. CASE UNCHANGED published
          BY <4>1
        <4>2. CASE /\ t.type = "diagnostics"
                   /\ published' = [published EXCEPT ![t.file] = Append(@, [text |-> t.text, by |-> t.by])]
          <5>1. t.file \in Files
            BY <4>2, Members
          <5>2. PICK e \in PubSet : e = [text |-> t.text, by |-> t.by]
            BY <4>2, Members DEF PubSet
          <5>3. published'[f] = IF f = t.file THEN Append(published[f], e) ELSE published[f]
            BY <4>2, <5>1, <5>2 DEF Typed
          <5> QED
            BY <3>p, <5>3, InAppend
        <4> QED
          BY <2>4, <4>1, <4>2
      <3>4. ASSUME NEW w \in Workers, In(Diagnostics(f, contents[f], w), tasks) PROVE Reported(f)'
        <4>1. CASE In(Diagnostics(f, contents[f], w), tasks')
          BY <3>1, <4>1 DEF Reported, Diagnostics
        <4>2. CASE t = Diagnostics(f, contents[f], w)
          <5>1. t.type = "diagnostics" /\ t.file = f /\ t.text = contents[f] /\ t.by = w
            BY <3>1, <4>2, Members
          <5>2. PICK e \in PubSet : e = [text |-> contents[f], by |-> w]
            BY <3>1 DEF PubSet
          <5>3. published'[f] = Append(published[f], e)
            BY <2>4, <5>1, <5>2 DEF Typed
          <5>4. In([text |-> contents[f], by |-> w], published'[f])
            BY <3>p, <5>2, <5>3, InAppend
          <5> QED
            BY <3>1, <5>4 DEF Reported
        <4> QED
          BY <2>2, <2>3, <3>4, <4>1, <4>2
      <3>5. Reported(f) => Reported(f)'
        BY <3>1, <3>2, <3>3, <3>4 DEF Reported
      <3> QED
        BY <1>g, <2>1, <3>1, <3>5
    <2>7. \A r \in incoming', x \in TaskSet :
             In(x, tasks) /\ x.type = "response" /\ x.id = r => In(x, tasks')
      BY <2>2, <2>3, <2>5
    <2>8. \A r \in incoming' : InHand(r) \/ MayBeLost(r)'
      BY <1>g, <1>q, <2>1, <2>5 DEF NoneLost
    <2> QED
      BY <2>1, <2>5, <2>6, <2>7, <2>8, Executed, LostMain
  <1>4. CASE OtherNotification
    <2>1. UNCHANGED <<incoming, contents, changes, worker, tasks, asked, answers, published>>
          /\ ExecuteThenDiagnostics(<<>>)
      BY <1>4 DEF OtherNotification
    <2>2. \A f \in Files : contents'[f] # 0 => Reported(f)' \/ MayBeUnreported(f)'
      BY <1>f, <2>1
    <2>3. \A r \in Requests : asked'[r] # NotAsked => r \in incoming' \/ answers'[r] # <<>>
      BY <2>1 DEF NoneLost
    <2>4. \A r \in incoming' : InHand(r) \/ MayBeLost(r)'
      BY <1>g, <1>q, <2>1 DEF NoneLost
    <2> QED
      BY <2>1, <2>2, <2>3, <2>4, Executed, LostMain
  <1>5. CASE FailingNotification \/ Exit
    <2>1. UNCHANGED <<incoming, contents, changes, jobs, worker, tasks, asked, answers, published>>
      BY <1>5 DEF FailingNotification, Exit, client
    <2> QED
      BY <2>1 DEF NoneLost, InHand, Reported, Pending, Reporting, MayBeLost, MayBeUnreported
  <1> QED
    BY <1>1, <1>2, <1>3, <1>4, <1>5 DEF Client

\* A step of thread w: what the other threads have in hand stays there.
LEMMA LostPool ==
  ASSUME Typed, NoneLost, NEW w \in Workers, NEW to,
         UNCHANGED <<incoming, contents, client>>, worker' = [worker EXCEPT ![w] = to],
         \A t : In(t, tasks) => In(t, tasks'),
         \A r \in Requests : In(r, jobs) => In(r, jobs') \/ InHand(r)',
         \A r \in Requests : worker[w].pc \in {"compile", "send"} /\ worker[w].job = r =>
            InHand(r)' \/ MayBeLost(r),
         changes' # <<>> => /\ changes' = changes
                            /\ worker[w].pc # "take"
                            /\ In("diag", jobs) => In("diag", jobs') \/ to.pc = "take",
         to.pc = "take" => to.job = "diag",
         \A f \in Files : In(f, changes) \/ Reporting(w, f) => Reported(f)' \/ MayBeUnreported(f)
  PROVE  NoneLost'
  <1>1. worker'[w] = to /\ \A u \in Workers : u # w => worker'[u] = worker[u]
    BY DEF Typed
  <1>2. UNCHANGED <<asked, answers, published>>
    BY DEF client
  <1>g. /\ \A r \in Requests : MayBeLost(r) => MayBeLost(r)'
        /\ \A f \in Files : MayBeUnreported(f) => MayBeUnreported(f)'
    BY <1>2 DEF MayBeLost, MayBeUnreported
  <1>3. ASSUME NEW r \in incoming' PROVE InHand(r)' \/ MayBeLost(r)'
    <2>1. r \in Requests /\ (InHand(r) \/ MayBeLost(r))
      BY DEF Typed, NoneLost
    <2>2. ASSUME NEW u \in Workers, u # w, worker[u].pc \in {"compile", "send"}, worker[u].job = r
          PROVE  InHand(r)'
      BY <1>1, <2>2 DEF InHand
    <2>3. ASSUME NEW t \in TaskSet, In(t, tasks), t.type = "response", t.id = r PROVE InHand(r)'
      BY <2>3 DEF InHand
    <2>4. In(r, jobs) => InHand(r)'
      BY <2>1 DEF InHand
    <2>5. worker[w].pc \in {"compile", "send"} /\ worker[w].job = r => InHand(r)' \/ MayBeLost(r)
      BY <2>1
    <2>6. InHand(r) => InHand(r)' \/ MayBeLost(r)
      BY <2>2, <2>3, <2>4, <2>5 DEF InHand
    <2> QED
      BY <1>g, <2>1, <2>6
  <1>4. ASSUME NEW f \in Files, contents'[f] # 0 PROVE Reported(f)' \/ MayBeUnreported(f)'
    <2>1. (Reported(f) \/ MayBeUnreported(f)) /\ contents' = contents
      BY <1>4 DEF NoneLost
    <2>2. ASSUME NEW u \in Workers, u # w, Reporting(u, f) PROVE Reported(f)'
      BY <1>1, <2>1, <2>2 DEF Reporting, Reported, Pending
    <2>3. ASSUME NEW u \in Workers,
                 \/ In(Diagnostics(f, contents[f], u), tasks)
                 \/ In([text |-> contents[f], by |-> u], published[f])
          PROVE  Reported(f)'
      BY <1>2, <2>1, <2>3 DEF Reported, Diagnostics
    <2>4. In(f, changes) \/ Reporting(w, f) => Reported(f)' \/ MayBeUnreported(f)
      OBVIOUS
    <2>5. Reported(f) => Reported(f)' \/ MayBeUnreported(f)
      BY <2>2, <2>3, <2>4 DEF Reported, Pending
    <2> QED
      BY <1>g, <2>1, <2>5
  <1>5. ASSUME changes' # <<>> PROVE In("diag", jobs') \/ \E u \in Workers : worker'[u].pc = "take"
    <2>1. In("diag", jobs) \/ \E u \in Workers : u # w /\ worker[u].pc = "take"
      BY <1>5 DEF NoneLost
    <2> QED
      BY <1>1, <1>5, <2>1
  <1>6. \A u \in Workers : worker'[u].pc = "take" => worker'[u].job = "diag"
    BY <1>1 DEF NoneLost
  <1> QED
    BY <1>2, <1>3, <1>4, <1>5, <1>6 DEF NoneLost

\* Every step of the pool keeps NoneLost: a job is finished by a task, and a
\* change that was taken is compiled and sent.
LEMMA LostWork ==
  ASSUME Typed, WorkInv, OpenedInv, NoneLost, NEW w \in Workers, Work(w)
  PROVE  NoneLost'
  <1>d. \A r \in Requests : r # "diag" /\ r # "none"
    BY NullAssumption DEF NullAssumption
  <1>0. worker[w] \in ThreadSet /\ ThreadOK(w) /\ worker \in [Workers -> ThreadSet]
    BY DEF Typed
  <1>f. UNCHANGED <<incoming, contents, client>>
    BY DEF Work, StartJob, TakeChanges, Compile, SendResponse, SendDiagnostics
  <1>c. ASSUME UNCHANGED changes, NEW f \in Files, In(f, changes) PROVE Reported(f)'
    BY <1>c DEF Reported, Pending
  <1>w. ASSUME NEW to, worker' = [worker EXCEPT ![w] = to]
        PROVE  worker'[w] = to
    BY <1>0, <1>w
  <1>r. ASSUME NEW r, worker'[w].pc \in {"compile", "send"}, worker'[w].job = r
        PROVE  InHand(r)'
    BY <1>r DEF InHand
  <1>1. CASE StartJob(w)
    <2>1. jobs # <<>> /\ jobs' = Tail(jobs) /\ UNCHANGED <<changes, tasks>> /\ worker[w].pc = "idle"
      BY <1>1 DEF StartJob, Step
    <2>2. \A x : In(x, jobs) <=> x = Head(jobs) \/ In(x, jobs')
      BY <2>1, InTail DEF Typed
    <2>3. PICK j : j = Head(jobs)
      OBVIOUS
    <2>4. PICK to : to = [Idle EXCEPT !.job = j, !.pc = IF j = "diag" THEN "take" ELSE "compile"]
      OBVIOUS
    <2>5. to.job = j /\ to.pc = IF j = "diag" THEN "take" ELSE "compile"
      BY <2>4 DEF Idle
    <2>6. worker' = [worker EXCEPT ![w] = to] /\ worker'[w] = to
      BY <1>1, <1>w, <2>3, <2>4 DEF StartJob, Step
    <2>7. \A r \in Requests : In(r, jobs) => In(r, jobs') \/ InHand(r)'
      BY <1>d, <1>r, <2>2, <2>3, <2>5, <2>6
    <2>8. In("diag", jobs) => In("diag", jobs') \/ to.pc = "take"
      BY <2>2, <2>3, <2>5
    <2>9. \A f \in Files : ~Reporting(w, f)
      BY <2>1 DEF Reporting
    <2> QED
      BY <1>c, <1>f, <2>1, <2>5, <2>6, <2>7, <2>8, <2>9, LostPool
  <1>2. CASE TakeChanges(w)
    <2>1. changes' = <<>> /\ UNCHANGED <<jobs, tasks>> /\ worker[w].pc = "take" /\ worker[w].job = "diag"
      BY <1>2 DEF TakeChanges, Step, NoneLost
    <2>2. PICK to : to = IF changes = <<>> THEN Idle
                         ELSE [worker[w] EXCEPT !.pc = "compile", !.files = changes]
      OBVIOUS
    <2>3. worker' = [worker EXCEPT ![w] = to] /\ worker'[w] = to
      BY <1>2, <1>w, <2>2 DEF TakeChanges, Step
    <2>4. changes # <<>> => to.pc = "compile" /\ to.job = "diag" /\ to.files = changes
      BY <1>0, <2>1, <2>2 DEF ThreadSet
    <2>5. to.pc # "take"
      BY <2>2, <2>4, Members
    <2>6. ASSUME NEW f \in Files, In(f, changes) PROVE Reported(f)'
      <3>1. changes # <<>>
        BY <2>6, InEmpty DEF Typed
      <3> QED
        BY <2>3, <2>4, <2>6, <3>1 DEF Reported, Pending, Reporting
    <2>7. \A f \in Files : ~Reporting(w, f)
      BY <2>1 DEF Reporting
    <2> QED
      BY <1>f, <2>1, <2>3, <2>5, <2>6, <2>7, LostPool
  <1>3. CASE Compile(w)
    <2>1. worker[w].pc = "compile" /\ UNCHANGED <<changes, jobs, tasks>>
      BY <1>3 DEF Compile
    <2>2. PICK to : to = [worker[w] EXCEPT !.pc = "send", !.text = contents[FileOf(w)]]
      OBVIOUS
    <2>a. CASE <<FileOf(w), contents[FileOf(w)]>> \in Unloadable
      <3>1. worker' = [worker EXCEPT ![w] = Idle]
        BY <1>3, <2>a DEF Compile, Step
      <3>2. FileOf(w) \in Files /\ contents[FileOf(w)] \in Texts /\ contents[FileOf(w)] \in Nat
        <4>1. FileOf(w) \in Files
          BY <2>a, TextAssumption DEF TextAssumption
        <4> QED
          BY <4>1, Members DEF Typed
      <3>3. ASSUME NEW r \in Requests, worker[w].job = r PROVE MayBeLost(r)
        <4>1. Accepted(r) /\ FileOf(w) = asked[r].file
          BY <1>d, <2>1, <3>3 DEF WorkInv, ThreadRight, FileOf
        <4>2. asked[r].text <= contents[asked[r].file]
          BY <3>3, <4>1 DEF Accepted, WorkInv
        <4> QED
          BY <2>a, <3>2, <4>1, <4>2 DEF MayBeLost
      <3>4. ASSUME NEW f \in Files, Reporting(w, f) PROVE MayBeUnreported(f)
        <4>1. worker[w].job = "diag" /\ worker[w].files \in Seq(Files) /\ worker[w].files # <<>>
          BY <1>0, <2>1, <3>4, Members DEF Reporting, ThreadOK
        <4>2. FileOf(w) = Head(worker[w].files) /\ In(FileOf(w), worker[w].files)
          BY <4>1, InTail DEF FileOf
        <4>3. contents[FileOf(w)] # 0
          BY <2>1, <3>2, <4>1, <4>2 DEF OpenedInv
        <4>4. 0 < contents[FileOf(w)] /\ contents[FileOf(w)] <= contents[FileOf(w)]
          BY <3>2, <4>3
        <4>5. CASE f = FileOf(w)
          BY <2>a, <4>5 DEF MayBeUnreported
        <4>6. CASE f # FileOf(w)
          BY <2>a, <3>2, <4>4, <4>6 DEF MayBeUnreported
        <4> QED
          BY <4>5, <4>6
      <3> QED
        BY <1>c, <1>f, <2>1, <3>1, <3>3, <3>4, LostPool, Members
    <2>b. CASE <<FileOf(w), contents[FileOf(w)]>> \notin Unloadable
      <3>1. worker' = [worker EXCEPT ![w] = to] /\ worker'[w] = to
        BY <1>3, <1>w, <2>2, <2>b DEF Compile, Step
      <3>2. to.pc = "send" /\ to.job = worker[w].job /\ to.files = worker[w].files
            /\ to.text = contents[FileOf(w)]
        BY <1>0, <2>2 DEF ThreadSet
      <3>3. ASSUME NEW f \in Files, Reporting(w, f) PROVE Reported(f)'
        <4>1. worker[w].job = "diag" /\ In(f, worker[w].files) /\ worker[w].files \in Seq(Files)
              /\ worker[w].files # <<>>
          BY <1>0, <2>1, <3>3, Members DEF Reporting, ThreadOK
        <4>2. f = Head(worker[w].files) \/ In(f, Tail(worker[w].files))
          BY <4>1, InTail
        <4>3. FileOf(w) = Head(worker[w].files)
          BY <4>1 DEF FileOf
        <4>4. Reporting(w, f)'
          BY <1>f, <3>1, <3>2, <4>1, <4>2, <4>3 DEF Reporting
        <4> QED
          BY <4>4 DEF Reported, Pending
      <3>4. \A r \in Requests : worker[w].job = r => InHand(r)'
        BY <1>r, <3>1, <3>2
      <3> QED
        BY <1>c, <1>f, <2>1, <3>1, <3>2, <3>3, <3>4, LostPool
    <2> QED
      BY <2>a, <2>b
  <1>4. CASE SendResponse(w)
    <2>1. worker[w].job \in Requests /\ worker' = [worker EXCEPT ![w] = Idle]
          /\ worker[w].pc = "send" /\ UNCHANGED <<changes, jobs>>
      BY <1>4 DEF SendResponse, Step
    <2>2. PICK c \in {"Ok", "InternalError"}, log \in {<<>>, <<LogTask>>} :
             tasks' = tasks \o log \o <<Response(worker[w].job, c, worker[w].text)>>
      BY <1>4 DEF SendResponse
    <2>3. c \in Codes /\ worker[w].text \in Texts
      BY <1>0, Members DEF Codes
    <2>4. PICK t \in TaskSet : t = Response(worker[w].job, c, worker[w].text)
      BY <2>1, <2>3, Members
    <2>5. \A x : In(x, tasks) \/ x = t => In(x, tasks')
      BY <2>2, <2>4, Sent
    <2>6. t.type = "response" /\ t.id = worker[w].job
      BY <2>1, <2>3, <2>4, Members
    <2>7. \A r \in Requests : worker[w].job = r => InHand(r)'
      BY <2>5, <2>6 DEF InHand
    <2>8. \A f \in Files : ~Reporting(w, f)
      BY <1>d, <2>1 DEF Reporting
    <2> QED
      BY <1>c, <1>f, <2>1, <2>5, <2>7, <2>8, LostPool, Members
  <1>5. CASE SendDiagnostics(w)
    <2>1. worker[w].job = "diag" /\ worker[w].pc = "send" /\ UNCHANGED <<changes, jobs>>
      BY <1>5 DEF SendDiagnostics, Step
    <2>2. worker[w].files \in Seq(Files) /\ worker[w].files # <<>> /\ worker[w].text \in Texts
      BY <1>0, <2>1, Members DEF ThreadOK
    <2>3. PICK rest \in Seq(Files) : rest = Tail(worker[w].files)
      BY <2>2, InTail
    <2>4. PICK to : to = IF rest = <<>> THEN Idle ELSE [worker[w] EXCEPT !.pc = "compile", !.files = rest]
      OBVIOUS
    <2>5. worker' = [worker EXCEPT ![w] = to] /\ worker'[w] = to
      BY <1>5, <1>w, <2>3, <2>4 DEF SendDiagnostics, Step
    <2>6. rest # <<>> => to.pc = "compile" /\ to.job = "diag" /\ to.files = rest
      BY <1>0, <2>1, <2>4 DEF ThreadSet
    <2>7. to.pc # "take"
      BY <2>4, <2>6, Members
    <2>8. FileOf(w) = Head(worker[w].files) /\ FileOf(w) \in Files
      BY <2>1, <2>2, InTail DEF FileOf
    <2>9. PICK t \in TaskSet : t = Diagnostics(FileOf(w), worker[w].text, w)
      BY <2>2, <2>8, Members
    <2>10. \A x : In(x, tasks') <=> In(x, tasks) \/ x = t
      BY <1>5, <2>9, InAppend DEF SendDiagnostics, Typed
    <2>11. ASSUME NEW f \in Files, Reporting(w, f) PROVE Reported(f)'
      <3>1. CASE In(f, rest)
        <4>1. rest # <<>>
          BY <3>1, InEmpty
        <4> QED
          BY <2>5, <2>6, <3>1, <4>1 DEF Reported, Pending, Reporting
      <3>2. CASE Head(worker[w].files) = f /\ worker[w].text = contents[f]
        BY <1>f, <2>8, <2>9, <2>10, <3>2 DEF Reported, Diagnostics
      <3> QED
        BY <2>1, <2>3, <2>11, <3>1, <3>2 DEF Reporting
    <2> QED
      BY <1>c, <1>d, <1>f, <2>1, <2>5, <2>7, <2>10, <2>11, LostPool
  <1> QED
    BY <1>1, <1>2, <1>3, <1>4, <1>5 DEF Work

\* Every step keeps NoneLost.
LEMMA LostStep == Typed /\ OnceInv /\ WorkInv /\ OpenedInv /\ NoneLost /\ [Next]_vars => NoneLost'
  <1> SUFFICES ASSUME Typed, OnceInv, WorkInv, OpenedInv, NoneLost, [Next]_vars PROVE NoneLost'
    OBVIOUS
  <1>1. CASE Client \/ HandleTask
    BY <1>1, LostClient
  <1>2. ASSUME NEW w \in Workers, Work(w) PROVE NoneLost'
    BY <1>2, LostWork
  <1>3. CASE UNCHANGED vars
    BY <1>3 DEF vars, NoneLost, InHand, Reported, Pending, Reporting, MayBeLost, MayBeUnreported
  <1> QED
    BY <1>1, <1>2, <1>3 DEF Next

\* Whenever the queue, the threads and the channel are empty, every request has
\* exactly one answer, no change is left untaken and the present text of every
\* document was reported, but for a request or a document that a text which
\* load_program rejects can have taken with it.
THEOREM Forgotten == Spec => []NothingForgotten
  <1>1. Typed /\ OnceInv /\ NoneLost => NothingForgotten
    <2> SUFFICES ASSUME Typed, OnceInv, NoneLost, Quiet
                 PROVE  /\ changes = <<>>
                        /\ \A r \in Requests : asked[r] # NotAsked =>
                              \/ r \notin incoming /\ Len(answers[r]) = 1
                              \/ r \in incoming /\ MayBeLost(r)
                        /\ \A f \in Files : contents[f] # 0 =>
                              \/ \E i \in 1..Len(published[f]) : published[f][i].text = contents[f]
                              \/ MayBeUnreported(f)
      BY DEF NothingForgotten
    <2>1. (\A x : ~In(x, jobs) /\ ~In(x, tasks)) /\ \A w \in Workers : worker[w] = Idle
      BY DEF Quiet, In
    <2>2. \A r \in incoming : MayBeLost(r)
      BY <2>1, Members DEF NoneLost, InHand
    <2>3. changes = <<>>
      BY <2>1, Members DEF NoneLost
    <2>4. ASSUME NEW r \in Requests, asked[r] # NotAsked, r \notin incoming PROVE Len(answers[r]) = 1
      <3>1. answers[r] # <<>>
        BY <2>4 DEF NoneLost
      <3>2. PICK x : answers[r] = <<x>>
        BY <3>1 DEF OnceInv
      <3> QED
        BY <3>2
    <2>5. ASSUME NEW f \in Files, contents[f] # 0, ~MayBeUnreported(f)
          PROVE  \E i \in 1..Len(published[f]) : published[f][i].text = contents[f]
      <3>1. ~Pending(f)
        BY <2>1, <2>3, Members DEF Pending, Reporting, In
      <3>2. PICK w \in Workers : In([text |-> contents[f], by |-> w], published[f])
        BY <2>1, <2>5, <3>1 DEF NoneLost, Reported
      <3>3. PICK i \in 1..Len(published[f]) : published[f][i] = [text |-> contents[f], by |-> w]
        BY <3>2 DEF In
      <3> QED
        BY <3>3
    <2> QED
      BY <2>2, <2>3, <2>4, <2>5
  <1>2. Init => OpenedInv
    BY Members DEF Init, OpenedInv, In
  <1> QED
    BY WorkInit, TypedStep, WorkStep, OnceInit, OnceStep, OpenedStep, LostInit, LostStep, <1>1, <1>2, PTL
       DEF Spec

----------------------------------------------------------------------------
(* How late diagnostics can be. *)

\* The n-th report on f, counting those received, p, and then the tasks in the
\* channel, s, is about text v and sent by thread w.
ReportAt(p, s, f, n, v, w) ==
    \/ n \in 1..Len(p) /\ p[n] = [text |-> v, by |-> w]
    \/ n - Len(p) \in 1..Len(s) /\ s[n - Len(p)] = Diagnostics(f, v, w)

\* No thread sends an older text than any that was reported before its last report.
Orderly(p, s, f) ==
    \A i, k, j \in Nat, v1, v2, v3 \in Texts, w1, w \in Workers :
       /\ i <= k /\ k < j
       /\ ReportAt(p, s, f, i, v1, w1)
       /\ ReportAt(p, s, f, k, v2, w) /\ ReportAt(p, s, f, j, v3, w)
       => v1 <= v3

\* Text t is no older than any that was reported before the last report of w.
Since(p, s, f, w, t) ==
    \A i, k \in Nat, v1, v2 \in Texts, w1 \in Workers :
       i <= k /\ ReportAt(p, s, f, i, v1, w1) /\ ReportAt(p, s, f, k, v2, w) => v1 <= t

UpTo(p, s, f, t) ==
    \A n \in Nat, v \in Texts, w \in Workers : ReportAt(p, s, f, n, v, w) => v <= t

Sends(w, f) == worker[w].pc = "send" /\ worker[w].job = "diag" /\ Head(worker[w].files) = f

\* A thread reads the text after its last report was sent, and no report is
\* about a text the document has not reached.
LateInv ==
    /\ \A f \in Files : /\ Orderly(published[f], tasks, f)
                        /\ UpTo(published[f], tasks, f, contents[f])
    /\ \A w \in Workers, f \in Files : Sends(w, f) =>
          worker[w].text <= contents[f] /\ Since(published[f], tasks, f, w, worker[w].text)

\* Reports that keep their order, as when one position drops out.
LEMMA Carried ==
  ASSUME NEW p, NEW s, NEW p2, NEW s2, NEW f, NEW d \in Nat, NEW e \in {0, 1},
         \A n \in Nat, v \in Texts, w \in Workers :
            ReportAt(p2, s2, f, n, v, w) => ReportAt(p, s, f, IF n <= d THEN n ELSE n + e, v, w)
  PROVE  /\ Orderly(p, s, f) => Orderly(p2, s2, f)
         /\ \A t : UpTo(p, s, f, t) => UpTo(p2, s2, f, t)
         /\ \A w \in Workers : \A t : Since(p, s, f, w, t) => Since(p2, s2, f, w, t)
  <1> DEFINE h(n) == IF n <= d THEN n ELSE n + e
  <1>1. \A n \in Nat : h(n) \in Nat
    OBVIOUS
  <1>2. \A i, k \in Nat : (i <= k => h(i) <= h(k)) /\ (i < k => h(i) < h(k))
    OBVIOUS
  <1>3. \A n \in Nat, v \in Texts, w \in Workers :
           ReportAt(p2, s2, f, n, v, w) => ReportAt(p, s, f, h(n), v, w)
    OBVIOUS
  <1> HIDE DEF h
  <1>4. ASSUME Orderly(p, s, f) PROVE Orderly(p2, s2, f)
    <2> SUFFICES ASSUME NEW i \in Nat, NEW k \in Nat, NEW j \in Nat,
                        NEW v1 \in Texts, NEW v2 \in Texts, NEW v3 \in Texts,
                        NEW w1 \in Workers, NEW w \in Workers,
                        i <= k, k < j, ReportAt(p2, s2, f, i, v1, w1),
                        ReportAt(p2, s2, f, k, v2, w), ReportAt(p2, s2, f, j, v3, w)
                 PROVE  v1 <= v3
      BY DEF Orderly
    <2>1. h(i) \in Nat /\ h(k) \in Nat /\ h(j) \in Nat /\ h(i) <= h(k) /\ h(k) < h(j)
      BY <1>1, <1>2
    <2>2. /\ ReportAt(p, s, f, h(i), v1, w1) /\ ReportAt(p, s, f, h(k), v2, w)
          /\ ReportAt(p, s, f, h(j), v3, w)
      BY <1>3
    <2> QED
      BY <1>4, <2>1, <2>2 DEF Orderly
  <1>5. ASSUME NEW t, UpTo(p, s, f, t) PROVE UpTo(p2, s2, f, t)
    BY <1>1, <1>3, <1>5 DEF UpTo
  <1>6. ASSUME NEW w \in Workers, NEW t, Since(p, s, f, w, t) PROVE Since(p2, s2, f, w, t)
    <2> SUFFICES ASSUME NEW i \in Nat, NEW k \in Nat, NEW v1 \in Texts, NEW v2 \in Texts, NEW w1 \in Workers,
                        i <= k, ReportAt(p2, s2, f, i, v1, w1), ReportAt(p2, s2, f, k, v2, w)
                 PROVE  v1 <= t
      BY DEF Since
    <2>1. h(i) \in Nat /\ h(k) \in Nat /\ h(i) <= h(k)
      BY <1>1, <1>2
    <2>2. ReportAt(p, s, f, h(i), v1, w1) /\ ReportAt(p, s, f, h(k), v2, w)
      BY <1>3
    <2> QED
      BY <1>6, <2>1, <2>2 DEF Since
  <1> QED
    BY <1>4, <1>5, <1>6

\* The first task of the channel, a report on f, becomes the last one received.
LEMMA ReportHandled ==
  ASSUME NEW p \in Seq(PubSet), NEW s \in Seq(TaskSet), s # <<>>, NEW f \in Files,
         NEW v0 \in Texts, NEW w0 \in Workers, Head(s) = Diagnostics(f, v0, w0),
         NEW n \in Nat, NEW v \in Texts, NEW w \in Workers,
         ReportAt(Append(p, [text |-> v0, by |-> w0]), Tail(s), f, n, v, w)
  PROVE  ReportAt(p, s, f, n, v, w)
  <1>1. PICK e \in PubSet : e = [text |-> v0, by |-> w0]
    BY DEF PubSet
  <1>2. PICK q \in Seq(PubSet) : q = Append(p, e)
    BY <1>1, InAppend
  <1>3. Len(q) = Len(p) + 1 /\ Len(p) \in Nat /\ q[Len(p) + 1] = e /\ \A i \in 1..Len(p) : q[i] = p[i]
    BY <1>2
  <1>4. PICK z \in Seq(TaskSet) : z = Tail(s)
    BY InTail
  <1>5. Len(z) = Len(s) - 1 /\ Len(s) \in Nat /\ Len(s) > 0 /\ \A i \in 1..(Len(s) - 1) : z[i] = s[i + 1]
    BY <1>4
  <1>6. s[1] = Diagnostics(f, v0, w0)
    BY <1>5
  <1>7. ReportAt(q, z, f, n, v, w)
    BY <1>1, <1>2, <1>4
  <1>8. CASE n \in 1..Len(q) /\ q[n] = [text |-> v, by |-> w]
    <2>1. CASE n \in 1..Len(p)
      BY <1>3, <1>8, <2>1 DEF ReportAt
    <2>2. CASE n = Len(p) + 1
      <3>1. v = v0 /\ w = w0
        BY <1>1, <1>3, <1>8, <2>2
      <3>2. n - Len(p) = 1 /\ 1 \in 1..Len(s)
        BY <1>3, <1>5, <2>2
      <3> QED
        BY <1>6, <3>1, <3>2 DEF ReportAt
    <2> QED
      BY <1>3, <1>8, <2>1, <2>2
  <1>9. CASE n - Len(q) \in 1..Len(z) /\ z[n - Len(q)] = Diagnostics(f, v, w)
    <2>1. n - Len(p) \in 1..Len(s) /\ (n - Len(q)) + 1 = n - Len(p) /\ n - Len(q) \in 1..(Len(s) - 1)
      BY <1>3, <1>5, <1>9
    <2>2. s[(n - Len(q)) + 1] = z[n - Len(q)]
      BY <1>5, <2>1
    <2>3. s[n - Len(p)] = Diagnostics(f, v, w)
      BY <1>9, <2>1, <2>2
    <2> QED
      BY <2>1, <2>3 DEF ReportAt
  <1> QED
    BY <1>7, <1>8, <1>9 DEF ReportAt

\* The first task of the channel is handled and is no report on f.
LEMMA TaskPassed ==
  ASSUME NEW p \in Seq(PubSet), NEW s \in Seq(TaskSet), s # <<>>, NEW f \in Files,
         NEW n \in Nat, NEW v \in Texts, NEW w \in Workers,
         ReportAt(p, Tail(s), f, n, v, w)
  PROVE  ReportAt(p, s, f, IF n <= Len(p) THEN n ELSE n + 1, v, w)
  <1>0. Len(p) \in Nat
    OBVIOUS
  <1>4. PICK z \in Seq(TaskSet) : z = Tail(s)
    BY InTail
  <1>5. Len(z) = Len(s) - 1 /\ Len(s) \in Nat /\ Len(s) > 0 /\ \A i \in 1..(Len(s) - 1) : z[i] = s[i + 1]
    BY <1>4
  <1>6. ReportAt(p, z, f, n, v, w)
    BY <1>4
  <1>7. CASE n \in 1..Len(p) /\ p[n] = [text |-> v, by |-> w]
    BY <1>0, <1>7 DEF ReportAt
  <1>8. CASE n - Len(p) \in 1..Len(z) /\ z[n - Len(p)] = Diagnostics(f, v, w)
    <2>1. n > Len(p) /\ (n + 1) - Len(p) \in 1..Len(s) /\ (n - Len(p)) + 1 = (n + 1) - Len(p)
      BY <1>0, <1>5, <1>8
    <2>2. s[(n - Len(p)) + 1] = z[n - Len(p)]
      BY <1>5, <1>8
    <2>3. s[(n + 1) - Len(p)] = Diagnostics(f, v, w)
      BY <1>8, <2>1, <2>2
    <2>4. ReportAt(p, s, f, n + 1, v, w)
      BY <2>1, <2>3 DEF ReportAt
    <2>5. (IF n <= Len(p) THEN n ELSE n + 1) = n + 1
      BY <1>0, <2>1
    <2> QED
      BY <2>4, <2>5
  <1> QED
    BY <1>6, <1>7, <1>8 DEF ReportAt

\* A task is added to the channel: only a report on f adds to the reports on f.
LEMMA TaskAdded ==
  ASSUME NEW p \in Seq(PubSet), NEW s \in Seq(TaskSet), NEW t \in TaskSet, NEW f \in Files,
         NEW n \in Nat, NEW v \in Texts, NEW w \in Workers,
         ReportAt(p, Append(s, t), f, n, v, w)
  PROVE  \/ ReportAt(p, s, f, n, v, w) /\ n <= Len(p) + Len(s)
         \/ n = Len(p) + Len(s) + 1 /\ t = Diagnostics(f, v, w)
  <1>1. PICK z \in Seq(TaskSet) : z = Append(s, t)
    BY InAppend
  <1>2. Len(z) = Len(s) + 1 /\ Len(s) \in Nat /\ Len(p) \in Nat /\ z[Len(s) + 1] = t
        /\ \A i \in 1..Len(s) : z[i] = s[i]
    BY <1>1
  <1>3. ReportAt(p, z, f, n, v, w)
    BY <1>1
  <1>4. CASE n \in 1..Len(p) /\ p[n] = [text |-> v, by |-> w]
    <2>1. n <= Len(p) + Len(s)
      BY <1>2, <1>4
    <2> QED
      BY <1>4, <2>1 DEF ReportAt
  <1>5. CASE n - Len(p) \in 1..Len(z) /\ z[n - Len(p)] = Diagnostics(f, v, w)
    <2>1. CASE n - Len(p) \in 1..Len(s)
      <3>1. n <= Len(p) + Len(s)
        BY <1>2, <2>1
      <3> QED
        BY <1>2, <1>5, <2>1, <3>1 DEF ReportAt
    <2>2. CASE n - Len(p) = Len(s) + 1
      BY <1>2, <1>5, <2>2
    <2> QED
      BY <1>2, <1>5, <2>1, <2>2
  <1> QED
    BY <1>3, <1>4, <1>5 DEF ReportAt

\* A task that is no report, or no longer in the channel, leaves the reports on
\* every document in order.
LEMMA LateFrame ==
  ASSUME Typed, LateInv, \A f \in Files : contents'[f] \in Nat /\ contents[f] <= contents'[f],
         \A f \in Files :
            /\ Orderly(published[f], tasks, f) => Orderly(published'[f], tasks', f)
            /\ \A t : UpTo(published[f], tasks, f, t) => UpTo(published'[f], tasks', f, t)
            /\ \A w \in Workers : \A t : Since(published[f], tasks, f, w, t) =>
                                     Since(published'[f], tasks', f, w, t),
         \A w \in Workers, f \in Files : Sends(w, f)' => worker'[w].text = worker[w].text /\ Sends(w, f)
  PROVE  LateInv'
  <1>n. /\ \A f \in Files : contents[f] \in Nat
        /\ \A w \in Workers : worker[w].text \in Nat
        /\ \A v \in Texts : v \in Nat
    BY Members DEF Typed
  <1>1. ASSUME NEW f \in Files PROVE Orderly(published'[f], tasks', f)
    BY DEF LateInv
  <1>2. ASSUME NEW f \in Files PROVE UpTo(published'[f], tasks', f, contents'[f])
    <2>1. UpTo(published'[f], tasks', f, contents[f])
      BY DEF LateInv
    <2> QED
      BY <1>n, <2>1 DEF UpTo
  <1>3. ASSUME NEW w \in Workers, NEW f \in Files, Sends(w, f)'
        PROVE  worker'[w].text <= contents'[f] /\ Since(published'[f], tasks', f, w, worker'[w].text)
    <2>1. worker'[w].text = worker[w].text /\ worker[w].text <= contents[f]
          /\ Since(published[f], tasks, f, w, worker[w].text)
      BY <1>3 DEF LateInv
    <2>2. Since(published'[f], tasks', f, w, worker[w].text)
      BY <2>1
    <2> QED
      BY <1>n, <2>1, <2>2
  <1> QED
    BY <1>1, <1>2, <1>3 DEF LateInv

\* Adding a task that is no report.
LEMMA NoReport ==
  ASSUME NEW p \in Seq(PubSet), NEW s \in Seq(TaskSet), NEW t \in TaskSet, t.type # "diagnostics",
         NEW f \in Files
  PROVE  /\ Orderly(p, s, f) => Orderly(p, Append(s, t), f)
         /\ \A x : UpTo(p, s, f, x) => UpTo(p, Append(s, t), f, x)
         /\ \A w \in Workers : \A x : Since(p, s, f, w, x) => Since(p, Append(s, t), f, w, x)
  <1>0. PICK d \in Nat, e \in {0, 1} : e = 0
    OBVIOUS
  <1>t. PICK s2 : s2 = Append(s, t)
    OBVIOUS
  <1>1. ASSUME NEW n \in Nat, NEW v \in Texts, NEW w \in Workers, ReportAt(p, s2, f, n, v, w)
        PROVE  ReportAt(p, s, f, IF n <= d THEN n ELSE n + e, v, w)
    <2>1. t # Diagnostics(f, v, w)
      BY Members
    <2>2. ReportAt(p, s, f, n, v, w)
      BY <1>t, <1>1, <2>1, TaskAdded
    <2>3. (IF n <= d THEN n ELSE n + e) = n
      BY <1>0
    <2> QED
      BY <2>2, <2>3
  <1>2. /\ Orderly(p, s, f) => Orderly(p, s2, f)
        /\ \A x : UpTo(p, s, f, x) => UpTo(p, s2, f, x)
        /\ \A w \in Workers : \A x : Since(p, s, f, w, x) => Since(p, s2, f, w, x)
    BY <1>1, Carried
  <1> QED
    BY <1>t, <1>2

\* Every step keeps the reports in order.
LEMMA LateStep == Typed /\ WorkInv /\ LateInv /\ [Next]_vars => LateInv'
  <1> SUFFICES ASSUME Typed, WorkInv, LateInv, [Next]_vars PROVE LateInv'
    OBVIOUS
  <1>n. /\ \A f \in Files : contents[f] \in Nat /\ contents[f] <= contents[f] /\ published[f] \in Seq(PubSet)
        /\ tasks \in Seq(TaskSet)
    BY Members DEF Typed
  <1>s. ASSUME UNCHANGED worker
        PROVE  \A w \in Workers, f \in Files : Sends(w, f)' => worker'[w].text = worker[w].text /\ Sends(w, f)
    BY <1>s DEF Sends
  <1>1. ASSUME NEW f \in Files, NEW v \in Texts, DidOpen(f, v) \/ DidChange(f, v) PROVE LateInv'
    <2>1. UNCHANGED <<worker, tasks, published>>
      BY <1>1 DEF DidOpen, DidChange
    <2>2. \A g \in Files : contents'[g] \in Nat /\ contents[g] <= contents'[g]
      BY <1>1, EditGrows
    <2> QED
      BY <1>s, <2>1, <2>2, LateFrame
  <1>2. ASSUME UNCHANGED <<worker, tasks, published, contents>> PROVE LateInv'
    BY <1>n, <1>s, <1>2, LateFrame
  <1>3. ASSUME NEW r \in Requests, NEW m \in Methods, NEW f \in Files, Request(r, m, f) PROVE LateInv'
    <2>1. UNCHANGED <<worker, published, contents>> /\ tasks' = Append(tasks, LogTask)
      BY <1>3 DEF Request
    <2>2. LogTask \in TaskSet /\ LogTask.type # "diagnostics"
      BY Members
    <2>3. \A g \in Files :
            /\ Orderly(published[g], tasks, g) => Orderly(published'[g], tasks', g)
            /\ \A t : UpTo(published[g], tasks, g, t) => UpTo(published'[g], tasks', g, t)
            /\ \A w \in Workers : \A t : Since(published[g], tasks, g, w, t) =>
                                     Since(published'[g], tasks', g, w, t)
      BY <1>n, <2>1, <2>2, NoReport
    <2> QED
      BY <1>n, <1>s, <2>1, <2>3, LateFrame
  <1>4. CASE HandleTask
    <2>1. UNCHANGED <<worker, contents>> /\ tasks # <<>> /\ tasks' = Tail(tasks)
      BY <1>4 DEF HandleTask
    <2>2. PICK t \in TaskSet : t = Head(tasks)
      BY <1>n, <2>1, InTail
    <2>3. \/ t.type # "diagnostics" /\ UNCHANGED published
          \/ /\ t.type = "diagnostics"
             /\ published' = [published EXCEPT ![t.file] = Append(@, [text |-> t.text, by |-> t.by])]
      BY <1>4, <2>2 DEF HandleTask
    <2>4. ASSUME NEW f \in Files, NEW d \in Nat, NEW e \in {0, 1},
                 \A n \in Nat, v \in Texts, w \in Workers :
                    ReportAt(published'[f], tasks', f, n, v, w) =>
                    ReportAt(published[f], tasks, f, IF n <= d THEN n ELSE n + e, v, w)
          PROVE  /\ Orderly(published[f], tasks, f) => Orderly(published'[f], tasks', f)
                 /\ \A x : UpTo(published[f], tasks, f, x) => UpTo(published'[f], tasks', f, x)
                 /\ \A w \in Workers : \A x : Since(published[f], tasks, f, w, x) =>
                                          Since(published'[f], tasks', f, w, x)
      BY <2>4, Carried
    <2>5. ASSUME NEW f \in Files
          PROVE  /\ Orderly(published[f], tasks, f) => Orderly(published'[f], tasks', f)
                 /\ \A x : UpTo(published[f], tasks, f, x) => UpTo(published'[f], tasks', f, x)
                 /\ \A w \in Workers : \A x : Since(published[f], tasks, f, w, x) =>
                                          Since(published'[f], tasks', f, w, x)
      <3>1. CASE t.type = "diagnostics" /\ t.file = f
        <4>1. t.text \in Texts /\ t.by \in Workers /\ t = Diagnostics(f, t.text, t.by)
          BY <3>1, Members
        <4>2. PICK v0 \in Texts, w0 \in Workers : v0 = t.text /\ w0 = t.by
          BY <4>1
        <4>3. published'[f] = Append(published[f], [text |-> v0, by |-> w0]) /\ Head(tasks) = Diagnostics(f, v0, w0)
          BY <2>2, <2>3, <3>1, <4>1, <4>2 DEF Typed
        <4>4. ASSUME NEW n \in Nat, NEW v \in Texts, NEW w \in Workers,
                     ReportAt(published'[f], tasks', f, n, v, w)
              PROVE  ReportAt(published[f], tasks, f, IF n <= 0 THEN n ELSE n + 0, v, w)
          <5>1. ReportAt(published[f], tasks, f, n, v, w)
            BY <1>n, <2>1, <4>3, <4>4, ReportHandled
          <5>2. (IF n <= 0 THEN n ELSE n + 0) = n
            OBVIOUS
          <5> QED
            BY <5>1, <5>2
        <4> QED
          BY <2>4, <4>4
      <3>2. CASE ~(t.type = "diagnostics" /\ t.file = f)
        <4>1. published'[f] = published[f]
          BY <2>3, <3>2, Members DEF Typed
        <4>2. PICK d \in Nat : d = Len(published[f])
          BY <1>n
        <4>3. ASSUME NEW n \in Nat, NEW v \in Texts, NEW w \in Workers,
                     ReportAt(published'[f], tasks', f, n, v, w)
              PROVE  ReportAt(published[f], tasks, f, IF n <= d THEN n ELSE n + 1, v, w)
          BY <1>n, <2>1, <4>1, <4>2, <4>3, TaskPassed
        <4> QED
          BY <2>4, <4>3
      <3> QED
        BY <3>1, <3>2
    <2> QED
      BY <1>n, <1>s, <2>1, <2>5, LateFrame
  <1>5. ASSUME NEW w \in Workers, Work(w) PROVE LateInv'
    <2>0. worker[w] \in ThreadSet /\ ThreadOK(w) /\ worker \in [Workers -> ThreadSet]
      BY DEF Typed
    <2>f. UNCHANGED <<contents, published>>
      BY <1>5 DEF Work, StartJob, TakeChanges, Compile, SendResponse, SendDiagnostics, client
    <2>w. ASSUME NEW to, worker' = [worker EXCEPT ![w] = to], to.pc # "send"
          PROVE  \A u \in Workers, f \in Files : Sends(u, f)' => worker'[u].text = worker[u].text /\ Sends(u, f)
      <3>1. worker'[w] = to /\ \A u \in Workers : u # w => worker'[u] = worker[u]
        BY <2>0, <2>w
      <3> QED
        BY <2>w, <3>1 DEF Sends
    <2>t. ASSUME NEW to, worker' = [worker EXCEPT ![w] = to], to.pc # "send", UNCHANGED tasks
          PROVE  LateInv'
      <3>1. \A u \in Workers, f \in Files : Sends(u, f)' => worker'[u].text = worker[u].text /\ Sends(u, f)
        BY <2>t, <2>w
      <3> QED
        BY <1>n, <2>f, <2>t, <3>1, LateFrame
    <2>1. CASE StartJob(w)
      <3>1. PICK to : to = [Idle EXCEPT !.job = Head(jobs),
                                        !.pc = IF Head(jobs) = "diag" THEN "take" ELSE "compile"]
        OBVIOUS
      <3>2. to.pc # "send"
        BY <3>1 DEF Idle
      <3> QED
        BY <2>t, <2>1, <3>1, <3>2 DEF StartJob, Step
    <2>2. CASE TakeChanges(w)
      <3>1. PICK to : to = IF changes = <<>> THEN Idle
                           ELSE [worker[w] EXCEPT !.pc = "compile", !.files = changes]
        OBVIOUS
      <3>2. to.pc # "send"
        BY <2>0, <3>1, Members DEF ThreadSet
      <3> QED
        BY <2>t, <2>2, <3>1, <3>2 DEF TakeChanges, Step
    <2>3. CASE Compile(w)
      <3>1. UNCHANGED tasks
        BY <2>3 DEF Compile
      <3>2. CASE worker' = [worker EXCEPT ![w] = Idle]
        <4>1. Idle.pc # "send"
          BY Members
        <4> QED
          BY <2>t, <3>1, <3>2, <4>1
      <3>3. CASE worker' = [worker EXCEPT ![w] = [worker[w] EXCEPT !.pc = "send", !.text = contents[FileOf(w)]]]
        <4>1. PICK to : to = [worker[w] EXCEPT !.pc = "send", !.text = contents[FileOf(w)]]
          OBVIOUS
        <4>2. to.job = worker[w].job /\ to.files = worker[w].files /\ to.text = contents[FileOf(w)]
          BY <2>0, <4>1 DEF ThreadSet
        <4>3. worker'[w] = to /\ \A u \in Workers : u # w => worker'[u] = worker[u]
          BY <2>0, <3>3, <4>1
        <4>4. ASSUME NEW f \in Files, Sends(w, f)'
              PROVE  worker'[w].text <= contents'[f] /\ Since(published'[f], tasks', f, w, worker'[w].text)
          <5>1. FileOf(w) = f
            BY <4>2, <4>3, <4>4 DEF Sends, FileOf
          <5>2. worker'[w].text = contents[f]
            BY <4>2, <4>3, <5>1
          <5>3. UpTo(published[f], tasks, f, contents[f])
            BY DEF LateInv
          <5>4. Since(published[f], tasks, f, w, contents[f])
            BY <5>3 DEF UpTo, Since
          <5> QED
            BY <1>n, <2>f, <3>1, <5>2, <5>4
        <4>5. ASSUME NEW u \in Workers, u # w, NEW f \in Files, Sends(u, f)'
              PROVE  worker'[u].text <= contents'[f] /\ Since(published'[f], tasks', f, u, worker'[u].text)
          <5>1. Sends(u, f) /\ worker'[u] = worker[u]
            BY <4>3, <4>5 DEF Sends
          <5> QED
            BY <2>f, <3>1, <5>1 DEF LateInv
        <4>6. \A f \in Files : Orderly(published'[f], tasks', f) /\ UpTo(published'[f], tasks', f, contents'[f])
          BY <2>f, <3>1 DEF LateInv
        <4> QED
          BY <4>4, <4>5, <4>6 DEF LateInv
      <3> QED
        BY <2>3, <3>2, <3>3 DEF Compile, Step
    <2>4. CASE SendResponse(w)
      <3>1. worker[w].job \in Requests /\ worker' = [worker EXCEPT ![w] = Idle]
        BY <2>4 DEF SendResponse, Step
      <3>2. PICK c \in {"Ok", "InternalError"}, log \in {<<>>, <<LogTask>>} :
               tasks' = tasks \o log \o <<Response(worker[w].job, c, worker[w].text)>>
        BY <2>4 DEF SendResponse
      <3>3. c \in Codes /\ worker[w].text \in Texts
        BY <2>0, Members DEF Codes
      <3>4. PICK t \in TaskSet : t = Response(worker[w].job, c, worker[w].text) /\ t.type # "diagnostics"
        BY <3>1, <3>3, Members
      <3>5. tasks' = Append(tasks, t) \/ tasks' = Append(Append(tasks, LogTask), t)
        BY <3>2, <3>4, Sent
      <3>6. LogTask \in TaskSet /\ LogTask.type # "diagnostics"
        BY Members
      <3>7. PICK z \in Seq(TaskSet) : z = Append(tasks, LogTask)
        BY <1>n, <3>6, InAppend
      <3>8. ASSUME NEW g \in Files
            PROVE  /\ Orderly(published[g], tasks, g) => Orderly(published'[g], tasks', g)
                   /\ \A x : UpTo(published[g], tasks, g, x) => UpTo(published'[g], tasks', g, x)
                   /\ \A u \in Workers : \A x : Since(published[g], tasks, g, u, x) =>
                                            Since(published'[g], tasks', g, u, x)
        <4>1. CASE tasks' = Append(tasks, t)
          BY <1>n, <2>f, <3>4, <4>1, NoReport
        <4>2. CASE tasks' = Append(z, t)
          <5>1. /\ Orderly(published[g], tasks, g) => Orderly(published[g], z, g)
                /\ \A x : UpTo(published[g], tasks, g, x) => UpTo(published[g], z, g, x)
                /\ \A u \in Workers : \A x : Since(published[g], tasks, g, u, x) => Since(published[g], z, g, u, x)
            BY <1>n, <3>6, <3>7, NoReport
          <5>2. /\ Orderly(published[g], z, g) => Orderly(published[g], tasks', g)
                /\ \A x : UpTo(published[g], z, g, x) => UpTo(published[g], tasks', g, x)
                /\ \A u \in Workers : \A x : Since(published[g], z, g, u, x) => Since(published[g], tasks', g, u, x)
            BY <1>n, <3>4, <4>2, NoReport
          <5> QED
            BY <2>f, <5>1, <5>2
        <4> QED
          BY <3>5, <3>7, <4>1, <4>2
      <3>9. \A u \in Workers, f \in Files : Sends(u, f)' => worker'[u].text = worker[u].text /\ Sends(u, f)
        BY <2>w, <3>1, Members
      <3> QED
        BY <1>n, <2>f, <3>8, <3>9, LateFrame
    <2>5. CASE SendDiagnostics(w)
      <3>1. worker[w].job = "diag" /\ worker[w].pc = "send"
            /\ tasks' = Append(tasks, Diagnostics(FileOf(w), worker[w].text, w))
        BY <2>5 DEF SendDiagnostics, Step
      <3>2. worker[w].files \in Seq(Files) /\ worker[w].files # <<>> /\ worker[w].text \in Texts
        BY <2>0, <3>1, Members DEF ThreadOK
      <3>3. PICK g \in Files : g = FileOf(w) /\ g = Head(worker[w].files)
        BY <3>1, <3>2, InTail DEF FileOf
      <3>4. PICK x \in Texts : x = worker[w].text
        BY <3>2
      <3>5. PICK t \in TaskSet : t = Diagnostics(g, x, w) /\ t.file = g /\ t.text = x /\ t.by = w
        BY <3>3, <3>4, Members
      <3>6. tasks' = Append(tasks, t)
        BY <3>1, <3>3, <3>4, <3>5
      <3>7. x <= contents[g] /\ Since(published[g], tasks, g, w, x)
        BY <3>1, <3>3, <3>4 DEF Sends, LateInv
      <3>8. PICK to : to = IF Tail(worker[w].files) = <<>> THEN Idle
                           ELSE [worker[w] EXCEPT !.pc = "compile", !.files = Tail(worker[w].files)]
        OBVIOUS
      <3>9. to.pc # "send" /\ worker' = [worker EXCEPT ![w] = to]
        BY <2>0, <2>5, <3>8, Members DEF SendDiagnostics, Step, ThreadSet
      <3>10. worker'[w] = to /\ \A u \in Workers : u # w => worker'[u] = worker[u]
        BY <2>0, <3>9
      <3>11. ASSUME NEW f \in Files, NEW n \in Nat, NEW v \in Texts, NEW u \in Workers,
                    ReportAt(published[f], tasks', f, n, v, u)
             PROVE  \/ /\ ReportAt(published[f], tasks, f, n, v, u)
                       /\ n <= Len(published[f]) + Len(tasks)
                    \/ /\ n = Len(published[f]) + Len(tasks) + 1
                       /\ f = g /\ v = x /\ u = w
        <4>1. \/ ReportAt(published[f], tasks, f, n, v, u) /\ n <= Len(published[f]) + Len(tasks)
              \/ n = Len(published[f]) + Len(tasks) + 1 /\ t = Diagnostics(f, v, u)
          BY <1>n, <3>6, <3>11, TaskAdded
        <4>2. t = Diagnostics(f, v, u) => f = g /\ v = x /\ u = w
          BY <3>5, Members
        <4> QED
          BY <4>1, <4>2
      <3>12. ASSUME NEW f \in Files PROVE Orderly(published[f], tasks', f)
        <4> SUFFICES ASSUME NEW i \in Nat, NEW k \in Nat, NEW j \in Nat,
                            NEW v1 \in Texts, NEW v2 \in Texts, NEW v3 \in Texts,
                            NEW w1 \in Workers, NEW u \in Workers,
                            i <= k, k < j, ReportAt(published[f], tasks', f, i, v1, w1),
                            ReportAt(published[f], tasks', f, k, v2, u), ReportAt(published[f], tasks', f, j, v3, u)
                     PROVE  v1 <= v3
          BY DEF Orderly
        <4>1. PICK l \in Nat : l = Len(published[f]) + Len(tasks)
          BY <1>n
        <4>2. j <= l + 1
          BY <3>11, <4>1
        <4>3. i <= l /\ k <= l
          BY <4>2
        <4>4. ReportAt(published[f], tasks, f, i, v1, w1) /\ ReportAt(published[f], tasks, f, k, v2, u)
          BY <3>11, <4>1, <4>3
        <4>5. CASE ReportAt(published[f], tasks, f, j, v3, u)
          BY <4>4, <4>5 DEF LateInv, Orderly
        <4>6. CASE f = g /\ v3 = x /\ u = w
          BY <3>7, <4>4, <4>6 DEF Since
        <4> QED
          BY <3>11, <4>5, <4>6
      <3>13. ASSUME NEW f \in Files PROVE UpTo(published[f], tasks', f, contents[f])
        BY <3>7, <3>11 DEF LateInv, UpTo
      <3>14. ASSUME NEW u \in Workers, NEW f \in Files, Sends(u, f)'
             PROVE  worker'[u].text <= contents[f] /\ Since(published[f], tasks', f, u, worker'[u].text)
        <4>1. u # w
          BY <3>9, <3>10, <3>14 DEF Sends
        <4>2. Sends(u, f) /\ worker'[u] = worker[u]
          BY <3>10, <3>14, <4>1 DEF Sends
        <4>3. worker[u].text <= contents[f] /\ Since(published[f], tasks, f, u, worker[u].text)
          BY <4>2 DEF LateInv
        <4>4. Since(published[f], tasks', f, u, worker[u].text)
          <5> SUFFICES ASSUME NEW i \in Nat, NEW k \in Nat, NEW v1 \in Texts, NEW v2 \in Texts, NEW w1 \in Workers,
                              i <= k, ReportAt(published[f], tasks', f, i, v1, w1),
                              ReportAt(published[f], tasks', f, k, v2, u)
                       PROVE  v1 <= worker[u].text
            BY DEF Since
          <5>1. PICK l \in Nat : l = Len(published[f]) + Len(tasks)
            BY <1>n
          <5>2. ReportAt(published[f], tasks, f, k, v2, u) /\ k <= l
            BY <3>11, <4>1, <5>1
          <5>3. i <= l
            BY <5>2
          <5>4. ReportAt(published[f], tasks, f, i, v1, w1)
            BY <3>11, <5>1, <5>3
          <5> QED
            BY <4>3, <5>2, <5>4 DEF Since
        <4> QED
          BY <4>2, <4>3, <4>4
      <3> QED
        BY <2>f, <3>12, <3>13, <3>14 DEF LateInv
    <2> QED
      BY <1>5, <2>1, <2>2, <2>3, <2>4, <2>5 DEF Work
  <1>6. CASE OtherNotification \/ FailingNotification \/ Exit \/ UNCHANGED vars
    BY <1>2, <1>6 DEF OtherNotification, FailingNotification, Exit, client, vars
  <1> QED
    BY <1>1, <1>3, <1>4, <1>5, <1>6 DEF Next, Client

\* However many threads the pool has: diagnostics of an older text that arrive
\* after those of a newer one are the first that their thread has sent since.
THEOREM Late == Spec => []LateOnce
  <1>1. Init => LateInv
    <2> SUFFICES ASSUME Init PROVE LateInv
      OBVIOUS
    <2>1. tasks = <<>> /\ \A f \in Files : published[f] = <<>>
      BY DEF Init
    <2>2. \A f \in Files : \A n, v, w : ~ReportAt(published[f], tasks, f, n, v, w)
      BY <2>1 DEF ReportAt
    <2>3. \A w \in Workers, f \in Files : ~Sends(w, f)
      BY Members DEF Init, Sends
    <2> QED
      BY <2>2, <2>3 DEF LateInv, Orderly, UpTo
  <1>2. Typed /\ LateInv => LateOnce
    <2> SUFFICES ASSUME Typed, LateInv, NEW f \in Files,
                        NEW i \in 1..Len(published[f]), NEW j \in 1..Len(published[f]), i < j,
                        published[f][i].text > published[f][j].text,
                        NEW k \in i..(j - 1), published[f][k].by = published[f][j].by
                 PROVE  FALSE
      BY DEF LateOnce
    <2>1. PICK p \in Seq(PubSet) : p = published[f]
      BY DEF Typed
    <2>2. k \in 1..Len(p) /\ i <= k /\ k < j /\ i \in Nat /\ j \in Nat /\ k \in Nat
      BY <2>1
    <2>3. p[i] \in PubSet /\ p[j] \in PubSet /\ p[k] \in PubSet
      BY <2>1, <2>2
    <2>4. \A e \in PubSet : e.text \in Texts /\ e.by \in Workers /\ e = [text |-> e.text, by |-> e.by]
      BY DEF PubSet
    <2>a. PICK v1 \in Texts, w1 \in Workers : p[i] = [text |-> v1, by |-> w1] /\ v1 = p[i].text
      BY <2>3, <2>4
    <2>b. PICK v2 \in Texts, w \in Workers : p[k] = [text |-> v2, by |-> w] /\ w = p[k].by
      BY <2>3, <2>4
    <2>c. PICK v3 \in Texts : p[j] = [text |-> v3, by |-> p[j].by] /\ v3 = p[j].text
      BY <2>3, <2>4
    <2>d. p[j].by = w
      BY <2>1, <2>b
    <2>5. /\ p[i] = [text |-> v1, by |-> w1] /\ p[k] = [text |-> v2, by |-> w]
          /\ p[j] = [text |-> v3, by |-> w] /\ v1 = p[i].text /\ v3 = p[j].text
      BY <2>a, <2>b, <2>c, <2>d
    <2>6. /\ ReportAt(p, tasks, f, i, v1, w1) /\ ReportAt(p, tasks, f, k, v2, w)
          /\ ReportAt(p, tasks, f, j, v3, w)
      BY <2>1, <2>2, <2>5 DEF ReportAt
    <2>7. Orderly(p, tasks, f)
      BY <2>1 DEF LateInv
    <2>8. v1 <= v3
      BY <2>2, <2>6, <2>7 DEF Orderly
    <2>9. v1 \in Nat /\ v3 \in Nat
      BY Members
    <2> QED
      BY <2>1, <2>5, <2>8, <2>9
  <1> QED
    BY WorkInit, TypedStep, WorkStep, LateStep, <1>1, <1>2, PTL DEF Spec
=============================================================================
