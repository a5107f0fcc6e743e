------------------------------ MODULE TaskPool ------------------------------
(***************************************************************************)
(* What a user of ThreadPool (protocol/vca_threadpool.h) is promised,      *)
(* without threads, mutex or condition variable: accepted tasks start in   *)
(* the order they were accepted, each one once, at most PoolSize of them   *)
(* at a time; a closed pool accepts nothing but still starts what it has   *)
(* accepted.  ThreadPool implements this specification with its mutex and  *)
(* condition variable, and the pool part of VcaService behaves as it says. *)
(***************************************************************************)
EXTENDS Naturals, Sequences, FiniteSets

CONSTANTS Tasks,     \* the tasks that can be given to the pool
          PoolSize   \* the number of worker threads

VARIABLES queue,     \* accepted tasks that have not started, oldest first
          running,   \* the tasks that some worker is executing
          closed     \* the destructor has set the stop flag

poolVars == <<queue, running, closed>>

Queued == {queue[i] : i \in DOMAIN queue}

PoolInit ==
    /\ queue = <<>>
    /\ running = {}
    /\ closed = FALSE

Accept(t) ==
    /\ ~closed
    /\ t \notin Queued \cup running
    /\ queue' = Append(queue, t)
    /\ UNCHANGED <<running, closed>>

Start ==
    /\ queue # <<>>
    /\ Cardinality(running) < PoolSize
    /\ running' = running \cup {Head(queue)}
    /\ queue' = Tail(queue)
    /\ UNCHANGED closed

Complete(t) ==
    /\ t \in running
    /\ running' = running \ {t}
    /\ UNCHANGED <<queue, closed>>

Close ==
    /\ ~closed
    /\ closed' = TRUE
    /\ UNCHANGED <<queue, running>>

PoolNext ==
    \/ \E t \in Tasks : Accept(t) \/ Complete(t)
    \/ Start
    \/ Close

\* A task may run for ever, so only the start of the oldest task is fair.
PoolSpec ==
    /\ PoolInit
    /\ [][PoolNext]_poolVars
    /\ WF_poolVars(Start)

=============================================================================
