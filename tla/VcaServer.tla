------------------------------ MODULE VcaServer ------------------------------
(***************************************************************************)
(* The asynchronous server with the pool it really has: VcaService, whose  *)
(* queue and workers are those of ThreadPool instead of the abstract ones. *)
(* The thread that runs Handler is the only caller of enqueue              *)
(* (vca_service.cpp:509); a worker runs the lambda it has taken, which     *)
(* handles one context, and loops.  The pool is a local variable of        *)
(* Handler, whose loop never ends: it is not destroyed while the server    *)
(* runs.                                                                   *)
(*                                                                         *)
(* The queue is shared: tasks of ThreadPool is tasks of VcaService.  The   *)
(* lambda captures the tag by value, so the context stands for its task.   *)
(***************************************************************************)
EXTENDS VcaService

CONSTANTS Workers,   \* the threads of ThreadPool pool(...)
          NoThread   \* the holder of a free mutex

ASSUME ServerAssumption ==
    /\ IsFiniteSet(Workers) /\ PoolSize = Cardinality(Workers)
    /\ NoThread \notin Workers

VARIABLES
    queue_mutex,  \* the worker that holds the mutex between two steps
    wpc,          \* where each worker is in its loop
    job,          \* the context whose lambda each worker has taken
    ppc,          \* where the loop is in enqueue
    given,        \* contexts whose lambda was ever given to the pool
    done          \* contexts whose lambda has ended

threadVars == <<queue_mutex, wpc, job, ppc, given, done>>
serverVars == <<vars, threadVars>>

Loop == "loop"

\* TLC evaluates ~TRUE under UNCHANGED, where it does not accept FALSE.
Threads == INSTANCE ThreadPool WITH
               Producers <- {Loop}, Tasks <- Ctxs, NoTask <- NoCtx,
               stop <- ~TRUE, owner <- "alive", rejected <- {}

ServerTypeOK == TypeOK /\ Threads!TypeOK

ServerInit ==
    /\ Init
    /\ queue_mutex = NoThread
    /\ wpc = [w \in Workers |-> "lock"]
    /\ job = [w \in Workers |-> NoCtx]
    /\ ppc = [p \in {Loop} |-> "out"]
    /\ given = {}
    /\ done = {}

-----------------------------------------------------------------------------
(* The thread that runs Handler.                                           *)

\* Outside enqueue the loop does not touch the pool.
OutOfEnqueue == ppc[Loop] = "out" /\ UNCHANGED threadVars

RegistersType(t) == RegisterRequest(t) /\ OutOfEnqueue
FetchesEvent(c) == Fetch(c) /\ OutOfEnqueue
ArmsNext == Rearm /\ OutOfEnqueue

\* Mutation: the lambda captures the tag by reference and finds it reset.
EnqueuesLambda_resetTag ==
    /\ Enqueue_afterReset
    /\ Threads!Push(Loop, NoCtx)

\* pool.enqueue: the lambda is appended while the mutex is free ...
EnqueuesLambda ==
    /\ Enqueue
    /\ Threads!Push(Loop, htc)

\* Mutation: nobody is notified of the lambda.
NotifiesWorker_forgotten ==
    /\ Alive
    /\ UNCHANGED vars
    /\ Threads!NotifyOne_forgotten(Loop)

\* ... and a worker is notified after the unlock; the loop then goes on.
NotifiesWorker ==
    /\ Alive
    /\ UNCHANGED vars
    /\ Threads!NotifyOne(Loop)

LoopStep ==
    \/ \E t \in Types : RegistersType(t)
    \/ \E c \in Ctxs : FetchesEvent(c)
    \/ ArmsNext \/ EnqueuesLambda \/ NotifiesWorker

-----------------------------------------------------------------------------
(* The workers.                                                            *)

LocksQueue(w) ==
    /\ Alive
    /\ UNCHANGED vars
    /\ Threads!Acquire(w)

FallsAsleep(w) ==
    /\ Alive
    /\ UNCHANGED vars
    /\ Threads!PredicateFails(w) \/ Threads!Sleep(w)

WakesUp(w) ==
    /\ Alive
    /\ UNCHANGED vars
    /\ Threads!SpuriousWakeup(w)

\* Mutation: a worker runs the lambda without taking it out of the queue.
TakesLambda_leavesIt(w) ==
    /\ Alive
    /\ Threads!Take_noPop(w)
    /\ work' = [work EXCEPT ![Head(tasks)] = "controller"]
    /\ UNCHANGED <<ctxVars, loopVars, tasks, lost, rpcVars>>

\* The worker takes the oldest lambda out of the queue and calls it.
TakesLambda(w) ==
    /\ Alive
    /\ Threads!Take(w)
    /\ work' = [work EXCEPT ![Head(tasks)] = "controller"]
    /\ UNCHANGED <<ctxVars, loopVars, lost, rpcVars>>

\* The steps inside the lambda.
ControllerEnds(w) ==
    /\ wpc[w] = "run"
    /\ ControllerReturns(job[w]) \/ ControllerHangs(job[w])
    /\ UNCHANGED threadVars

WritesStatus(w) ==
    /\ wpc[w] = "run"
    /\ SetStatus(job[w])
    /\ UNCHANGED threadVars

\* The lambda has called Finish, or an exception leaves it: task() returns.
LambdaEnds(w) ==
    /\ Threads!Execute(w)
    /\ ControllerThrows(job[w]) \/ Finish(job[w])

WorkerStep(w) ==
    \/ LocksQueue(w) \/ FallsAsleep(w) \/ TakesLambda(w)
    \/ ControllerEnds(w) \/ WritesStatus(w) \/ LambdaEnds(w)

-----------------------------------------------------------------------------
(* The gRPC runtime and the clients know nothing of the threads.           *)

RuntimeSends(c) == (SendAnswer(c) \/ SendToNobody(c)) /\ UNCHANGED threadVars
RuntimeMatches(k) == Match(k) /\ UNCHANGED threadVars
ClientStep(k) ==
    (ClientSends(k) \/ ClientCancels(k) \/ ClientReturns(k)) /\ UNCHANGED threadVars

ServerNext ==
    \/ LoopStep
    \/ \E w \in Workers : WorkerStep(w) \/ WakesUp(w)
    \/ \E c \in Ctxs : RuntimeSends(c)
    \/ \E k \in Calls : RuntimeMatches(k) \/ ClientStep(k)

ServerSpec == ServerInit /\ [][ServerNext]_serverVars

\* The fairness of VcaService with that of ThreadPool: a thread that can go on
\* does; one that waits for the mutex gets it when it is free again and again,
\* though spurious wake-ups take it ever anew (SF of LocksQueue and of
\* EnqueuesLambda).
ServerFairness ==
    /\ \A t \in Types : WF_serverVars(RegistersType(t))
    /\ \A c \in Ctxs : SF_serverVars(FetchesEvent(c))
    /\ WF_serverVars(ArmsNext) /\ SF_serverVars(EnqueuesLambda)
    /\ WF_serverVars(NotifiesWorker)
    /\ \A w \in Workers : WF_serverVars(WorkerStep(w)) /\ SF_serverVars(LocksQueue(w))
    /\ \A c \in Ctxs : WF_serverVars(RuntimeSends(c))
    /\ \A k \in Calls : SF_serverVars(RuntimeMatches(k))

ServerFairSpec == ServerSpec /\ ServerFairness

-----------------------------------------------------------------------------
(* Properties.                                                             *)

\* A worker is in a lambda exactly as long as the service says that somebody
\* works on its context: no request is without its thread and no thread holds
\* a context that the loop may delete (lines 509-716 inside task()).
ThreadsHoldTheirContexts ==
    /\ Busy = Threads!Running
    /\ \A v, w \in Workers : job[v] = job[w] /\ job[v] # NoCtx => v = w

\* The inductive invariant behind the theorems of VcaServer_proofs.
ServerInv ==
    /\ ServerTypeOK
    /\ IInv
    /\ Threads!IInv
    /\ ThreadsHoldTheirContexts
    /\ done \cap (Queued \cup Busy) = {}

\* With real threads the server is still the service: each of their steps is
\* one of VcaService or is not seen there.
ImplementsService == Spec

\* What VcaService takes to be fair of its pool is what the threads do: a lambda
\* is queued whatever the workers do with the mutex, and the oldest is taken as
\* soon as some worker is not in a lambda.
ImplementsFairPool == WF_vars(Enqueue) /\ WF_vars(Take)

=============================================================================
