-------------------------- MODULE VcaServer_proofs --------------------------
(***************************************************************************)
(* What holds of the server with real threads, for every number of types,  *)
(* calls, contexts and workers.  Its steps are steps of ThreadPool and of  *)
(* VcaService at once, so the theorems about either hold of it; what has   *)
(* to be shown is that the two agree.  Two facts of the one side are what  *)
(* the other needs: a worker outside a lambda leaves room in the service's *)
(* pool, and the tag the loop enqueues is in no other place.               *)
(***************************************************************************)
EXTENDS VcaServer, VcaServiceRefinement_proofs, FiniteSetTheorems

\* The theorems about the pool, of the pool of this server.
T == INSTANCE ThreadPool_proofs WITH
         Producers <- {Loop}, Tasks <- Ctxs, NoTask <- NoCtx,
         stop <- ~TRUE, owner <- "alive", rejected <- {}

LEMMA SameFiniteSets ==
    /\ \A S : T!IsFiniteSet(S) <=> IsFiniteSet(S)
    /\ \A S : T!Cardinality(S) = Cardinality(S)
  BY DEF T!IsFiniteSet, IsFiniteSet, T!Cardinality, Cardinality

\* The assumptions of the pool are met: the service has a worker at least.
LEMMA PoolAssumption == T!ThreadPoolAssumption
<1>1. Workers # {}
  BY ServerAssumption, ServiceAssumption, FS_EmptySet
<1>2. IsFiniteSet({Loop})
  BY FS_Singleton
<1>3. QED
  BY <1>1, <1>2, SameFiniteSets, ServerAssumption, ServiceAssumption
     DEF T!ThreadPoolAssumption

\* T and Threads are the same instance of ThreadPool.
LEMMA SamePlaces ==
    /\ T!Queued = Threads!Queued /\ T!Running = Threads!Running
    /\ T!MutexFree = Threads!MutexFree /\ T!Sleeping = Threads!Sleeping
    /\ \A t : T!Fresh(t) <=> Threads!Fresh(t)
  BY DEF T!Queued, Threads!Queued, T!Running, Threads!Running, T!MutexFree, Threads!MutexFree,
         T!Sleeping, Threads!Sleeping, T!Fresh, Threads!Fresh

LEMMA SameInvariant ==
    /\ T!IInv <=> Threads!IInv
    /\ T!TypeOK <=> Threads!TypeOK
<1>1. T!TypeOK <=> Threads!TypeOK
  BY DEF T!TypeOK, Threads!TypeOK, T!WorkerPC, Threads!WorkerPC, T!OwnerPC, Threads!OwnerPC
<1>2. /\ T!JobInv <=> Threads!JobInv
      /\ T!MutexInv <=> Threads!MutexInv
      /\ T!StopInv <=> Threads!StopInv
      /\ T!NobodySleepsThroughStop <=> Threads!NobodySleepsThroughStop
  BY DEF T!JobInv, Threads!JobInv, T!MutexInv, Threads!MutexInv, T!StopInv, Threads!StopInv,
         T!NobodySleepsThroughStop, Threads!NobodySleepsThroughStop
<1>3. T!Accounted <=> Threads!Accounted
  BY SamePlaces DEF T!Accounted, Threads!Accounted
<1>4. T!NoLostWakeup <=> Threads!NoLostWakeup
  <2>1. T!AwakeIdle = Threads!AwakeIdle /\ T!Notifying = Threads!Notifying
    BY DEF T!AwakeIdle, Threads!AwakeIdle, T!Notifying, Threads!Notifying
  <2>2. \A S : T!Cardinality(S) = Threads!Cardinality(S)
    BY DEF T!Cardinality, Threads!Cardinality
  <2>3. QED
    BY <2>1, <2>2, SamePlaces DEF T!NoLostWakeup, Threads!NoLostWakeup
<1>5. QED
  BY <1>1, <1>2, <1>3, <1>4 DEF T!IInv, Threads!IInv

LEMMA SameAfterStep ==
    /\ T!IInv' => Threads!IInv' /\ Threads!TypeOK'
    /\ Threads!Running' = T!Running'
<1>1. T!IInv => Threads!IInv /\ Threads!TypeOK
  BY SameInvariant DEF T!IInv
<1>2. T!IInv' => Threads!IInv' /\ Threads!TypeOK'
  BY <1>1, PTL
<1>3. Threads!Running' = T!Running'
  BY DEF Threads!Running, T!Running
<1>4. QED
  BY <1>2, <1>3

LEMMA SameSteps ==
    /\ \A w \in Workers :
          /\ Threads!Acquire(w) => T!Acquire(w)
          /\ Threads!PredicateFails(w) => T!PredicateFails(w)
          /\ Threads!Sleep(w) => T!Sleep(w)
          /\ Threads!SpuriousWakeup(w) => T!SpuriousWakeup(w)
          /\ Threads!Take(w) => T!Take(w)
          /\ Threads!Execute(w) => T!Execute(w)
    /\ Threads!NotifyOne(Loop) => T!NotifyOne(Loop)
    /\ Threads!Push(Loop, htc) => T!Push(Loop, htc)
<1>1. ASSUME NEW w \in Workers
      PROVE  /\ Threads!Acquire(w) => T!Acquire(w)
             /\ Threads!PredicateFails(w) => T!PredicateFails(w)
             /\ Threads!Sleep(w) => T!Sleep(w)
             /\ Threads!SpuriousWakeup(w) => T!SpuriousWakeup(w)
             /\ Threads!Take(w) => T!Take(w)
             /\ Threads!Execute(w) => T!Execute(w)
  BY SamePlaces
     DEF Threads!Acquire, T!Acquire, Threads!PredicateFails, T!PredicateFails, Threads!Sleep,
         T!Sleep, Threads!SpuriousWakeup, T!SpuriousWakeup, Threads!Take, T!Take,
         Threads!Execute, T!Execute
<1>2. Threads!NotifyOne(Loop) => T!NotifyOne(Loop)
  BY SamePlaces DEF Threads!NotifyOne, T!NotifyOne
<1>3. Threads!Push(Loop, htc) => T!Push(Loop, htc)
  BY SamePlaces DEF Threads!Push, T!Push
<1>4. QED
  BY <1>1, <1>2, <1>3

-----------------------------------------------------------------------------
(* What the invariant says to each side.                                   *)

LEMMA InvFacts ==
    ASSUME ServerInv
    PROVE  /\ IInv /\ TypeOK /\ T!IInv /\ T!Once
           /\ Busy = T!Running /\ Queued = T!Queued
           /\ \A w \in Workers : wpc[w] = "run" => job[w] \in Ctxs /\ job[w] \in Busy
           /\ htc \in Ctxs \/ pc # "enqueue"
<1>1. IInv /\ TypeOK /\ T!IInv
  BY SameInvariant DEF ServerInv, IInv
<1>2. Busy = T!Running
  BY SamePlaces DEF ServerInv, ThreadsHoldTheirContexts
<1>3. Queued = T!Queued
  BY DEF Queued, T!Queued
<1>4. T!Once
  <2>1. T!Distinct(tasks)
    BY <1>1 DEF IInv, ContextInOnePlace, T!Distinct
  <2>2. Queued \cap Busy = {}
    BY <1>1 DEF IInv, ContextInOnePlace
  <2>3. QED
    BY <1>2, <1>3, <2>1, <2>2 DEF T!Once, ServerInv, ThreadsHoldTheirContexts
<1>5. ASSUME NEW w \in Workers, wpc[w] = "run"
      PROVE  job[w] \in Ctxs /\ job[w] \in Busy
  BY <1>1, <1>2, <1>5 DEF T!Running, Busy
<1>6. htc \in Ctxs \/ pc # "enqueue"
  BY <1>1 DEF IInv, LoopInv
<1>7. QED
  BY <1>1, <1>2, <1>3, <1>4, <1>5, <1>6

\* Back from what the two sides keep to the invariant.
LEMMA FactsInv ==
    ASSUME IInv', T!IInv', T!Once', Busy' = T!Running'
    PROVE  ServerInv'
<1>1. Threads!IInv' /\ Threads!TypeOK' /\ Threads!Running' = T!Running'
  BY SameAfterStep
<1>2. TypeOK'
  BY DEF IInv
<1>3. ThreadsHoldTheirContexts'
  BY <1>1 DEF ThreadsHoldTheirContexts, T!Once
<1>4. (done \cap (Queued \cup Busy))' = {}
  BY DEF T!Once, T!Queued, Queued
<1>5. QED
  BY <1>1, <1>2, <1>3, <1>4 DEF ServerInv, ServerTypeOK

-----------------------------------------------------------------------------
(* Each step of the server is one of the pool.                             *)

\* Steps that take place outside the pool.
LEMMA OutsidePool ==
    ASSUME ServerInv,
           \/ \E t \in Types : RegistersType(t)
           \/ \E c \in Ctxs : FetchesEvent(c)
           \/ ArmsNext
           \/ \E w \in Workers : ControllerEnds(w) \/ WritesStatus(w)
           \/ \E c \in Ctxs : RuntimeSends(c)
           \/ \E k \in Calls : RuntimeMatches(k) \/ ClientStep(k)
           \/ UNCHANGED serverVars
    PROVE  UNCHANGED <<tasks, threadVars>>
<1>1. CASE \/ \E t \in Types : RegistersType(t)
           \/ \E c \in Ctxs : FetchesEvent(c)
           \/ ArmsNext
  BY <1>1 DEF RegistersType, FetchesEvent, ArmsNext, OutOfEnqueue, RegisterRequest, Fetch,
              FetchRequest, FetchFinished, FetchFailed, Rearm, workVars
<1>2. CASE \E w \in Workers : ControllerEnds(w) \/ WritesStatus(w)
  BY <1>2 DEF ControllerEnds, WritesStatus, ControllerReturns, ControllerHangs, SetStatus
<1>3. CASE \/ \E c \in Ctxs : RuntimeSends(c)
           \/ \E k \in Calls : RuntimeMatches(k) \/ ClientStep(k)
  BY <1>3 DEF RuntimeSends, RuntimeMatches, ClientStep, SendAnswer, SendToNobody, Match,
              ClientSends, ClientCancels, ClientReturns, workVars
<1>4. CASE UNCHANGED serverVars
  BY <1>4 DEF serverVars, vars
<1>5. QED
  BY <1>1, <1>2, <1>3, <1>4

LEMMA PoolStep ==
    ASSUME ServerInv, [ServerNext]_serverVars
    PROVE  [T!Next]_T!vars
<1> USE DEF T!Next, T!Worker
<1>1. CASE UNCHANGED <<tasks, threadVars>>
  BY <1>1 DEF threadVars, T!vars
<1>2. CASE EnqueuesLambda
  BY <1>2, InvFacts, SameSteps DEF EnqueuesLambda, Enqueue
<1>3. CASE NotifiesWorker
  BY <1>3, SameSteps DEF NotifiesWorker
<1>4. ASSUME NEW w \in Workers, LocksQueue(w) \/ FallsAsleep(w) \/ WakesUp(w)
      PROVE  T!Acquire(w) \/ T!PredicateFails(w) \/ T!Sleep(w) \/ T!SpuriousWakeup(w)
  BY <1>4, SameSteps DEF LocksQueue, FallsAsleep, WakesUp
<1>5. ASSUME NEW w \in Workers, TakesLambda(w) \/ LambdaEnds(w)
      PROVE  T!Take(w) \/ T!Execute(w)
  BY <1>5, SameSteps DEF TakesLambda, LambdaEnds
<1>6. QED
  BY <1>1, <1>2, <1>3, <1>4, <1>5, OutsidePool DEF ServerNext, LoopStep, WorkerStep

-----------------------------------------------------------------------------
(* Each step of the server is one of the service.                          *)

\* Steps that the service does not see.
LEMMA UnseenByService ==
    ASSUME \/ NotifiesWorker
           \/ \E w \in Workers : LocksQueue(w) \/ FallsAsleep(w) \/ WakesUp(w)
           \/ UNCHANGED serverVars
    PROVE  UNCHANGED vars
  BY DEF NotifiesWorker, LocksQueue, FallsAsleep, WakesUp, serverVars

\* A worker that takes a lambda was in none: there is room for one more.
LEMMA TakeIsServiceTake ==
    ASSUME ServerInv, NEW w \in Workers, TakesLambda(w)
    PROVE  Take
<1>1. wpc[w] # "run" /\ tasks # <<>> /\ tasks' = Tail(tasks)
  BY DEF TakesLambda, Threads!Take
<1>2. Cardinality(T!Running) < Cardinality(Workers)
  BY <1>1, InvFacts, PoolAssumption, SameFiniteSets, T!RoomToRun
<1>3. Cardinality(Busy) < PoolSize
  BY <1>2, InvFacts, ServerAssumption
<1>4. QED
  BY <1>1, <1>3 DEF TakesLambda, Take

LEMMA ServiceStep ==
    ASSUME ServerInv, [ServerNext]_serverVars
    PROVE  [Next]_vars
<1> USE DEF Next
<1>1. CASE LoopStep /\ ~NotifiesWorker
  BY <1>1 DEF LoopStep, RegistersType, FetchesEvent, ArmsNext, EnqueuesLambda
<1>2. ASSUME NEW w \in Workers, TakesLambda(w)
      PROVE  Take
  BY <1>2, TakeIsServiceTake
<1>3. ASSUME NEW w \in Workers, ControllerEnds(w) \/ WritesStatus(w) \/ LambdaEnds(w)
      PROVE  \E c \in Ctxs : Controller(c) \/ SetStatus(c) \/ Finish(c)
  <2>1. wpc[w] = "run"
    BY <1>3 DEF ControllerEnds, WritesStatus, LambdaEnds, Threads!Execute
  <2>2. job[w] \in Ctxs
    BY <2>1, InvFacts
  <2>3. QED
    BY <1>3, <2>2 DEF ControllerEnds, WritesStatus, LambdaEnds, Controller
<1>4. CASE \/ \E c \in Ctxs : RuntimeSends(c)
           \/ \E k \in Calls : RuntimeMatches(k) \/ ClientStep(k)
  BY <1>4 DEF RuntimeSends, RuntimeMatches, ClientStep
<1>5. QED
  BY <1>1, <1>2, <1>3, <1>4, UnseenByService DEF ServerNext, WorkerStep

-----------------------------------------------------------------------------
(* The two sides agree on who works.                                       *)

\* Steps that start and end no lambda.
LEMMA SameWorkers ==
    ASSUME ServerInv, Busy' = Busy, T!Running' = T!Running
    PROVE  Busy' = T!Running'
  BY InvFacts

LEMMA NobodyStartsOrEnds ==
    ASSUME ServerInv,
           \/ LoopStep
           \/ \E w \in Workers : \/ LocksQueue(w) \/ FallsAsleep(w) \/ WakesUp(w)
                                 \/ ControllerEnds(w) \/ WritesStatus(w)
           \/ \E c \in Ctxs : RuntimeSends(c)
           \/ \E k \in Calls : RuntimeMatches(k) \/ ClientStep(k)
           \/ UNCHANGED serverVars
    PROVE  Busy' = T!Running'
<1>1. CASE UNCHANGED <<tasks, threadVars>> /\ UNCHANGED work
  <2>1. Busy' = Busy /\ T!Running' = T!Running
    BY <1>1 DEF Busy, T!Running, threadVars
  <2>2. QED
    BY <2>1, SameWorkers
<1>2. CASE EnqueuesLambda
  <2>1. htc \in Ctxs /\ T!Push(Loop, htc) /\ Loop \in {Loop}
    BY <1>2, InvFacts, SameSteps DEF EnqueuesLambda, Enqueue
  <2>2. T!Running' = T!Running
    BY <2>1, InvFacts, PoolAssumption, T!PushPlaces
  <2>3. Busy' = Busy
    BY <1>2 DEF EnqueuesLambda, Enqueue, Busy
  <2>4. QED
    BY <2>2, <2>3, SameWorkers
<1>3. CASE \/ NotifiesWorker
           \/ \E w \in Workers : LocksQueue(w) \/ FallsAsleep(w) \/ WakesUp(w)
  <2>1. \/ T!NotifyOne(Loop)
        \/ \E w \in Workers : \/ T!Acquire(w) \/ T!PredicateFails(w) \/ T!Sleep(w)
                              \/ T!SpuriousWakeup(w)
    BY <1>3, SameSteps DEF NotifiesWorker, LocksQueue, FallsAsleep, WakesUp
  <2>2. T!TypeOK
    BY InvFacts DEF T!IInv
  <2>3. T!Quiet
    BY <2>1, <2>2, PoolAssumption, T!QuietSteps
  <2>4. T!Running' = T!Running
    BY <2>3, PoolAssumption, T!QuietRunning
  <2>5. Busy' = Busy
    BY <1>3, UnseenByService DEF vars, Busy
  <2>6. QED
    BY <2>4, <2>5, SameWorkers
<1>4. CASE \E w \in Workers : ControllerEnds(w) \/ WritesStatus(w)
  <2>1. PICK w \in Workers : ControllerEnds(w) \/ WritesStatus(w)
    BY <1>4
  <2>2. PICK c \in Ctxs : c = job[w] /\ c \in Busy
    BY <2>1, InvFacts DEF ControllerEnds, WritesStatus
  <2>3. /\ \A d \in Ctxs \ {c} : work'[d] = work[d]
        /\ work'[c] # "none"
    BY <2>1, <2>2, InvFacts DEF ControllerEnds, WritesStatus, ControllerReturns,
       ControllerHangs, SetStatus, TypeOK
  <2>4. Busy' = Busy
    BY <2>2, <2>3 DEF Busy
  <2>5. T!Running' = T!Running
    BY <2>1 DEF ControllerEnds, WritesStatus, threadVars, T!Running
  <2>6. QED
    BY <2>4, <2>5, SameWorkers
<1>5. CASE \/ \E t \in Types : RegistersType(t)
           \/ \E c \in Ctxs : FetchesEvent(c)
           \/ ArmsNext
           \/ \E c \in Ctxs : RuntimeSends(c)
           \/ \E k \in Calls : RuntimeMatches(k) \/ ClientStep(k)
           \/ UNCHANGED serverVars
  <2>1. UNCHANGED <<tasks, threadVars>>
    BY <1>5, OutsidePool
  <2>2. UNCHANGED work
    BY <1>5 DEF RegistersType, FetchesEvent, ArmsNext, RegisterRequest, Fetch, FetchRequest,
                FetchFinished, FetchFailed, Rearm, RuntimeSends, RuntimeMatches, ClientStep,
                SendAnswer, SendToNobody, Match, ClientSends, ClientCancels, ClientReturns,
                workVars, serverVars, vars
  <2>3. QED
    BY <1>1, <2>1, <2>2
<1>6. QED
  BY <1>2, <1>3, <1>4, <1>5 DEF LoopStep

LEMMA LambdaStarts ==
    ASSUME ServerInv, NEW w \in Workers, TakesLambda(w)
    PROVE  Busy' = T!Running'
<1>1. T!Take(w)
  BY SameSteps DEF TakesLambda
<1>2. PICK h \in Ctxs : h = Head(tasks) /\ T!Running' = T!Running \cup {h}
  BY <1>1, InvFacts, PoolAssumption, T!TakePlaces
<1>3. Busy' = Busy \cup {h}
  BY <1>2, InvFacts DEF TakesLambda, Busy, TypeOK
<1>4. QED
  BY <1>2, <1>3, InvFacts

LEMMA LambdaGoes ==
    ASSUME ServerInv, NEW w \in Workers, LambdaEnds(w)
    PROVE  Busy' = T!Running'
<1>1. T!Execute(w)
  BY SameSteps DEF LambdaEnds
<1>2. PICK c \in Ctxs : c = job[w] /\ T!Running' = T!Running \ {c}
  BY <1>1, InvFacts, PoolAssumption, T!ExecutePlaces DEF LambdaEnds, Threads!Execute
<1>3. work' = [work EXCEPT ![c] = "none"]
  BY <1>2 DEF LambdaEnds, ControllerThrows, Finish
<1>4. Busy' = Busy \ {c}
  BY <1>3, InvFacts DEF Busy, TypeOK
<1>5. QED
  BY <1>2, <1>4, InvFacts

-----------------------------------------------------------------------------
(* The theorems.                                                           *)

LEMMA ServerInitInv == ServerInit => ServerInv /\ T!Init
<1> SUFFICES ASSUME ServerInit
             PROVE  ServerInv /\ T!Init
  OBVIOUS
<1>1. IInv /\ TypeOK
  BY InitInv, ServiceAssumption DEF ServerInit, IInv
<1>2. T!Init
  BY DEF ServerInit, Init, T!Init
<1>3. Threads!IInv /\ Threads!TypeOK
  BY <1>2, PoolAssumption, T!InitInv, SameInvariant DEF T!IInv
<1>4. Busy = {} /\ Queued = {} /\ Threads!Running = {}
  BY DEF ServerInit, Init, Busy, Queued, Threads!Running
<1>5. ThreadsHoldTheirContexts
  BY <1>4 DEF ThreadsHoldTheirContexts, ServerInit
<1>6. QED
  BY <1>1, <1>2, <1>3, <1>4, <1>5 DEF ServerInv, ServerTypeOK

LEMMA ServerStepInv ==
    ASSUME ServerInv, [ServerNext]_serverVars
    PROVE  ServerInv'
<1>1. IInv'
  BY ServiceStep, InvFacts, NextInv, ServiceAssumption
<1>2. T!IInv' /\ T!Once'
  BY PoolStep, InvFacts, PoolAssumption, T!NextInv, T!StepOnce
<1>3. Busy' = T!Running'
  BY NobodyStartsOrEnds, LambdaStarts, LambdaGoes DEF ServerNext, WorkerStep
<1>4. QED
  BY <1>1, <1>2, <1>3, FactsInv

\* The inductive invariant holds in every reachable state of every server.
THEOREM ServerInvariant == ServerSpec => []ServerInv
<1>1. ServerInv /\ [ServerNext]_serverVars => ServerInv'
  BY ServerStepInv
<1>2. QED
  BY <1>1, ServerInitInv, PTL DEF ServerSpec

\* The variables of the server and of its threads keep their types.
THEOREM ServerTypes == ServerSpec => []ServerTypeOK
<1>1. ServerInv => ServerTypeOK
  BY DEF ServerInv
<1>2. QED
  BY <1>1, ServerInvariant, PTL

\* A worker is in a lambda exactly as long as the service counts on it: each
\* context in work has one thread (vca_service.cpp:509-716 inside task() of
\* vca_threadpool.h:82).
THEOREM ContextsHaveTheirThreads == ServerSpec => []ThreadsHoldTheirContexts
<1>1. ServerInv => ThreadsHoldTheirContexts
  BY DEF ServerInv
<1>2. QED
  BY <1>1, ServerInvariant, PTL

\* The server with the mutex, the condition variable and the threads of the pool
\* is the service that takes its pool to be an abstract one: in particular no
\* more than PoolSize contexts are in work, whoever wakes when.
THEOREM ServerImplementsService == ServerSpec => ImplementsService
<1>1. ServerInit => Init
  BY DEF ServerInit
<1>2. ServerInv /\ [ServerNext]_serverVars => [Next]_vars
  BY ServiceStep
<1>3. QED
  BY <1>1, <1>2, ServerInvariant, PTL DEF ServerSpec, ImplementsService, Spec

\* Its pool, with the mutex, the condition variable and the threads, is ThreadPool,
\* with the loop as the only producer and no destructor: whatever ThreadPool_proofs
\* shows of every pool holds in the server (vca_service.cpp:237, 509).
THEOREM ServerHasThreadPool == ServerSpec => T!Spec
<1>1. ServerInv /\ [ServerNext]_serverVars => [T!Next]_T!vars
  BY PoolStep
<1>2. QED
  BY <1>1, ServerInitInv, ServerInvariant, PTL DEF ServerSpec, T!Spec

\* What holds of the service holds of the server with threads: no thread and no
\* event ever refers to a context the loop has deleted (lines 256-348).
THEOREM ServerKeepsContextsAlive == ServerSpec => []NoUseAfterFree
  BY ServerImplementsService, ContextsAreAlive DEF ImplementsService

\* And the clients see CallService: each call's controller function runs at most
\* once, on one thread, and its answer comes after that (lines 509-716).
THEOREM ServerImplementsCallService == ServerSpec => ImplementsCallService
  BY ServerImplementsService, ServiceImplementsCallService DEF ImplementsService

=============================================================================
