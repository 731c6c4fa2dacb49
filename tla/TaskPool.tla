------------------------------ MODULE TaskPool ------------------------------
(***************************************************************************)
(* What an Executor promises (compiler_base/parallel, trait Executor): the *)
(* tasks are taken in order, at most Capacity of them are in hand at once, *)
(* each is done at most once, and the run may be abandoned at any point.   *)
(***************************************************************************)
EXTENDS Integers, Sequences, FiniteSets

CONSTANTS Tasks, Order, Capacity

VARIABLES todo,    \* tasks not taken yet, in order
          active,  \* tasks announced and not yet finished
          done,    \* tasks whose completion has been announced
          verdict  \* "running", or what the run returned: "ok" or "err"

poolVars == <<todo, active, done, verdict>>

Init == todo = Order /\ active = {} /\ done = {} /\ verdict = "running"

\* Announcing a task may fail, and then the run is abandoned in the same step.
Take ==
    /\ verdict = "running"
    /\ todo # <<>>
    /\ Cardinality(active) < Capacity
    /\ active' = active \cup {Head(todo)}
    /\ todo' = Tail(todo)
    /\ verdict' \in {"running", "err"}
    /\ UNCHANGED done

Complete(t) ==
    /\ verdict = "running"
    /\ t \in active
    /\ t \notin done
    /\ active' = active \ {t}
    /\ done' = done \cup {t}
    /\ verdict' \in {"running", "err"}
    /\ UNCHANGED todo

\* Ok needs every task done; giving up may happen at any time.
Return ==
    /\ verdict = "running"
    /\ \/ verdict' = "err"
       \/ verdict' = "ok" /\ todo = <<>> /\ active = {}
    /\ UNCHANGED <<todo, active, done>>

Next == Take \/ (\E t \in Tasks : Complete(t)) \/ Return

Spec == Init /\ [][Next]_poolVars
=============================================================================
