-------------------------- MODULE ThreadPool_proofs --------------------------
(***************************************************************************)
(* What the thread pool guarantees for every number of workers, producers  *)
(* and tasks: its variables keep their types, the mutex protocol holds, no *)
(* worker sleeps through the destructor, the destructor drains the queue,  *)
(* each task is in one place, no wake-up is lost, and every step of the    *)
(* pool is a step of TaskPool or changes nothing there.  The inductive     *)
(* invariant is IInv of ThreadPool; the lemmas of the first part take it   *)
(* across the steps of one thread, one conjunct at a time.                 *)
(***************************************************************************)
EXTENDS ThreadPool, QueueLemmas, FiniteSetTheorems, TLAPS

\* The members of the queue after a push and after a pop.
LEMMA QueuedAfterAppend ==
    ASSUME TypeOK, NEW t \in Tasks, tasks' = Append(tasks, t)
    PROVE  tasks' \in Seq(Tasks) /\ Queued' = Queued \cup {t}
  BY PushMembers DEF TypeOK, Queued, Members

LEMMA QueuedAfterTail ==
    ASSUME TypeOK, tasks # <<>>, tasks' = Tail(tasks)
    PROVE  /\ tasks' \in Seq(Tasks) /\ Head(tasks) \in Tasks
           /\ Queued = Queued' \cup {Head(tasks)}
<1>1. Queued = Members(tasks) /\ Queued' = Members(Tail(tasks))
  BY DEF Queued, Members
<1>2. QED
  BY <1>1, PopMembers DEF TypeOK

-----------------------------------------------------------------------------
(* The steps of a worker.                                                  *)

LEMMA AcquireInv ==
    ASSUME ThreadPoolAssumption, IInv, NEW w \in Workers, Acquire(w)
    PROVE  IInv'
<1> USE DEF Acquire, TypeOK, IInv
<1>1. TypeOK'
  BY DEF WorkerPC, OwnerPC
<1>2. JobInv'
  BY DEF JobInv
<1>3. MutexInv'
  BY DEF MutexInv, MutexFree, ThreadPoolAssumption
<1>4. StopInv'
  BY DEF StopInv
<1>5. NobodySleepsThroughStop'
  BY DEF NobodySleepsThroughStop
<1>6. Accounted'
  BY DEF Accounted, Queued, Running
<1>7. QED
  BY <1>1, <1>2, <1>3, <1>4, <1>5, <1>6

LEMMA PredicateFailsInv ==
    ASSUME ThreadPoolAssumption, IInv, NEW w \in Workers, PredicateFails(w)
    PROVE  IInv'
<1> USE DEF PredicateFails, TypeOK, IInv
<1>1. TypeOK'
  BY DEF WorkerPC, OwnerPC
<1>2. JobInv'
  BY DEF JobInv
<1>3. MutexInv'
  BY DEF MutexInv, MutexFree, ThreadPoolAssumption
<1>4. StopInv'
  BY DEF StopInv
<1>5. NobodySleepsThroughStop'
  BY DEF NobodySleepsThroughStop, StopInv, MutexInv
<1>6. Accounted'
  BY DEF Accounted, Queued, Running
<1>7. QED
  BY <1>1, <1>2, <1>3, <1>4, <1>5, <1>6

LEMMA SleepInv ==
    ASSUME ThreadPoolAssumption, IInv, NEW w \in Workers, Sleep(w)
    PROVE  IInv'
<1> USE DEF Sleep, TypeOK, IInv
<1>1. TypeOK'
  BY DEF WorkerPC, OwnerPC
<1>2. JobInv'
  BY DEF JobInv
<1>3. MutexInv'
  BY DEF MutexInv, MutexFree, ThreadPoolAssumption
<1>4. StopInv'
  BY DEF StopInv
<1>5. NobodySleepsThroughStop'
  BY DEF NobodySleepsThroughStop, StopInv, MutexInv
<1>6. Accounted'
  BY DEF Accounted, Queued, Running
<1>7. QED
  BY <1>1, <1>2, <1>3, <1>4, <1>5, <1>6

LEMMA SpuriousWakeupInv ==
    ASSUME ThreadPoolAssumption, IInv, NEW w \in Workers, SpuriousWakeup(w)
    PROVE  IInv'
<1> USE DEF SpuriousWakeup, TypeOK, IInv
<1>1. TypeOK'
  BY DEF WorkerPC, OwnerPC
<1>2. JobInv'
  BY DEF JobInv
<1>3. MutexInv'
  BY DEF MutexInv, MutexFree, ThreadPoolAssumption
<1>4. StopInv'
  BY DEF StopInv
<1>5. NobodySleepsThroughStop'
  BY DEF NobodySleepsThroughStop
<1>6. Accounted'
  BY DEF Accounted, Queued, Running
<1>7. QED
  BY <1>1, <1>2, <1>3, <1>4, <1>5, <1>6

LEMMA ExitInv ==
    ASSUME ThreadPoolAssumption, IInv, NEW w \in Workers, Exit(w)
    PROVE  IInv'
<1> USE DEF Exit, TypeOK, IInv
<1>1. TypeOK'
  BY DEF WorkerPC, OwnerPC
<1>2. JobInv'
  BY DEF JobInv
<1>3. MutexInv'
  BY DEF MutexInv, MutexFree, ThreadPoolAssumption
<1>4. StopInv'
  BY DEF StopInv
<1>5. NobodySleepsThroughStop'
  BY DEF NobodySleepsThroughStop
<1>6. Accounted'
  BY DEF Accounted, Queued, Running
<1>7. QED
  BY <1>1, <1>2, <1>3, <1>4, <1>5, <1>6

LEMMA TakeInv ==
    ASSUME ThreadPoolAssumption, IInv, NEW w \in Workers, Take(w)
    PROVE  IInv'
<1> USE DEF Take, TypeOK, IInv
<1>1. TypeOK'
  BY QueuedAfterTail DEF WorkerPC, OwnerPC
<1>2. JobInv'
  BY QueuedAfterTail DEF JobInv, ThreadPoolAssumption
<1>3. MutexInv'
  BY QueuedAfterTail DEF MutexInv, MutexFree, ThreadPoolAssumption
<1>4. StopInv'
  BY QueuedAfterTail DEF StopInv
<1>5. NobodySleepsThroughStop'
  BY DEF NobodySleepsThroughStop
<1>6. Accounted'
  <2>1. Queued = Queued' \cup {Head(tasks)}
    BY QueuedAfterTail
  <2>2. Running' = Running \cup {Head(tasks)}
    BY DEF Running
  <2>3. QED
    BY <2>1, <2>2 DEF Accounted
<1>7. QED
  BY <1>1, <1>2, <1>3, <1>4, <1>5, <1>6

LEMMA ExecuteInv ==
    ASSUME ThreadPoolAssumption, IInv, NEW w \in Workers, Execute(w)
    PROVE  IInv'
<1> USE DEF Execute, TypeOK, IInv
<1>1. TypeOK'
  BY DEF WorkerPC, OwnerPC, JobInv
<1>2. JobInv'
  BY DEF JobInv
<1>3. MutexInv'
  BY DEF MutexInv, MutexFree, ThreadPoolAssumption
<1>4. StopInv'
  BY DEF StopInv
<1>5. NobodySleepsThroughStop'
  BY DEF NobodySleepsThroughStop
<1>6. Accounted'
  <2>1. Running = Running' \cup {job[w]}
    BY DEF Running, JobInv
  <2>2. QED
    BY <2>1 DEF Accounted, Queued
<1>7. QED
  BY <1>1, <1>2, <1>3, <1>4, <1>5, <1>6

-----------------------------------------------------------------------------
(* The steps of a thread in enqueue and of the destructor.                 *)

LEMMA PushInv ==
    ASSUME ThreadPoolAssumption, IInv, NEW p \in Producers, NEW t \in Tasks, Push(p, t)
    PROVE  IInv'
<1> USE DEF Push, TypeOK, IInv
<1>1. TypeOK'
  BY QueuedAfterAppend DEF WorkerPC, OwnerPC
<1>2. JobInv'
  BY DEF JobInv
<1>3. MutexInv'
  BY DEF MutexInv, MutexFree, ThreadPoolAssumption
<1>4. StopInv'
  BY DEF StopInv
<1>5. NobodySleepsThroughStop'
  BY DEF NobodySleepsThroughStop
<1>6. Accounted'
  <2>1. Queued' = Queued \cup {t}
    BY QueuedAfterAppend
  <2>2. Running' = Running
    BY DEF Running
  <2>3. QED
    BY <2>1, <2>2 DEF Accounted
<1>7. QED
  BY <1>1, <1>2, <1>3, <1>4, <1>5, <1>6

LEMMA RejectInv ==
    ASSUME ThreadPoolAssumption, IInv, NEW p \in Producers, NEW t \in Tasks, Reject(p, t)
    PROVE  IInv'
<1> USE DEF Reject, TypeOK, IInv
<1>1. TypeOK'
  BY DEF WorkerPC, OwnerPC
<1>2. JobInv'
  BY DEF JobInv
<1>3. MutexInv'
  BY DEF MutexInv, MutexFree, ThreadPoolAssumption
<1>4. StopInv'
  BY DEF StopInv
<1>5. NobodySleepsThroughStop'
  BY DEF NobodySleepsThroughStop
<1>6. Accounted'
  <2>1. Queued' = Queued /\ Running' = Running
    BY DEF Queued, Running
  <2>2. QED
    BY <2>1 DEF Accounted
<1>7. QED
  BY <1>1, <1>2, <1>3, <1>4, <1>5, <1>6

LEMMA NotifyOneInv ==
    ASSUME ThreadPoolAssumption, IInv, NEW p \in Producers, NotifyOne(p)
    PROVE  IInv'
<1> USE DEF NotifyOne, Sleeping, TypeOK, IInv
<1>1. TypeOK'
  BY DEF WorkerPC, OwnerPC
<1>2. JobInv'
  BY DEF JobInv
<1>3. MutexInv'
  BY DEF MutexInv, MutexFree, ThreadPoolAssumption
<1>4. StopInv'
  BY DEF StopInv
<1>5. NobodySleepsThroughStop'
  BY DEF NobodySleepsThroughStop
<1>6. Accounted'
  BY DEF Accounted, Queued, Running
<1>7. QED
  BY <1>1, <1>2, <1>3, <1>4, <1>5, <1>6

LEMMA RaiseStopInv ==
    ASSUME ThreadPoolAssumption, IInv, RaiseStop
    PROVE  IInv'
<1> USE DEF RaiseStop, TypeOK, IInv
<1>1. TypeOK'
  BY DEF WorkerPC, OwnerPC
<1>2. JobInv'
  BY DEF JobInv
<1>3. MutexInv'
  BY DEF MutexInv, MutexFree, ThreadPoolAssumption
<1>4. StopInv'
  BY DEF StopInv
<1>5. NobodySleepsThroughStop'
  BY DEF NobodySleepsThroughStop
<1>6. Accounted'
  BY DEF Accounted, Queued, Running
<1>7. QED
  BY <1>1, <1>2, <1>3, <1>4, <1>5, <1>6

LEMMA NotifyAllInv ==
    ASSUME ThreadPoolAssumption, IInv, NotifyAll
    PROVE  IInv'
<1> USE DEF NotifyAll, Sleeping, TypeOK, IInv
<1>1. TypeOK'
  BY DEF WorkerPC, OwnerPC
<1>2. JobInv'
  BY DEF JobInv
<1>3. MutexInv'
  BY DEF MutexInv, MutexFree, ThreadPoolAssumption
<1>4. StopInv'
  BY DEF StopInv
<1>5. NobodySleepsThroughStop'
  BY DEF NobodySleepsThroughStop, StopInv, MutexInv
<1>6. Accounted'
  BY DEF Accounted, Queued, Running
<1>7. QED
  BY <1>1, <1>2, <1>3, <1>4, <1>5, <1>6

LEMMA JoinAllInv ==
    ASSUME ThreadPoolAssumption, IInv, JoinAll
    PROVE  IInv'
<1> USE DEF JoinAll, TypeOK, IInv
<1>1. TypeOK'
  BY DEF WorkerPC, OwnerPC
<1>2. JobInv'
  BY DEF JobInv
<1>3. MutexInv'
  BY DEF MutexInv, MutexFree, ThreadPoolAssumption
<1>4. StopInv'
  BY DEF StopInv
<1>5. NobodySleepsThroughStop'
  BY DEF NobodySleepsThroughStop
<1>6. Accounted'
  BY DEF Accounted, Queued, Running
<1>7. QED
  BY <1>1, <1>2, <1>3, <1>4, <1>5, <1>6

-----------------------------------------------------------------------------
(* The theorems.                                                           *)

LEMMA InitInv == ThreadPoolAssumption /\ Init => IInv
<1> SUFFICES ASSUME ThreadPoolAssumption, Init
             PROVE  IInv
  OBVIOUS
<1> USE DEF Init
<1>1. TypeOK
  <2>1. tasks \in Seq(Tasks)
    OBVIOUS
  <2>2. wpc \in [Workers -> WorkerPC] /\ ppc \in [Producers -> {"out", "notify"}]
    BY DEF WorkerPC
  <2>3. QED
    BY <2>1, <2>2 DEF TypeOK, OwnerPC
<1>2. JobInv /\ StopInv /\ NobodySleepsThroughStop
  BY DEF JobInv, StopInv, NobodySleepsThroughStop
<1>3. MutexInv
  BY DEF MutexInv, ThreadPoolAssumption
<1>4. Accounted
  <2>1. Queued = {} /\ Running = {}
    BY DEF Queued, Running
  <2>2. QED
    BY <2>1 DEF Accounted
<1>5. QED
  BY <1>1, <1>2, <1>3, <1>4 DEF IInv

LEMMA NextInv == ThreadPoolAssumption /\ IInv /\ [Next]_vars => IInv'
<1> SUFFICES ASSUME ThreadPoolAssumption, IInv, [Next]_vars
             PROVE  IInv'
  OBVIOUS
<1>1. ASSUME NEW w \in Workers, Worker(w) \/ SpuriousWakeup(w)
      PROVE  IInv'
  BY <1>1, AcquireInv, PredicateFailsInv, SleepInv, SpuriousWakeupInv, ExitInv,
     TakeInv, ExecuteInv DEF Worker
<1>2. ASSUME NEW p \in Producers, NotifyOne(p)
      PROVE  IInv'
  BY <1>2, NotifyOneInv
<1>3. ASSUME NEW p \in Producers, NEW t \in Tasks, Push(p, t) \/ Reject(p, t)
      PROVE  IInv'
  BY <1>3, PushInv, RejectInv
<1>4. CASE RaiseStop \/ NotifyAll \/ JoinAll
  BY <1>4, RaiseStopInv, NotifyAllInv, JoinAllInv
<1>5. CASE UNCHANGED vars
  BY <1>5 DEF vars, IInv, TypeOK, JobInv, MutexInv, StopInv,
              NobodySleepsThroughStop, Accounted, Queued, Running
<1>6. QED
  BY <1>1, <1>2, <1>3, <1>4, <1>5 DEF Next, Gone

\* The inductive invariant holds in every reachable state of every pool.
THEOREM PoolInvariant == Spec => []IInv
<1>1. ThreadPoolAssumption
  BY ThreadPoolAssumption
<1>2. QED
  BY <1>1, InitInv, NextInv, PTL DEF Spec

\* The variables of the pool (class ThreadPool) keep their types.
THEOREM PoolTypes == Spec => []TypeOK
<1>1. IInv => TypeOK
  BY DEF IInv
<1>2. QED
  BY <1>1, PoolInvariant, PTL

\* After notify_all no worker sleeps or is about to sleep (lines 119-132): the
\* destructor cannot be left joining a thread that nobody wakes.
THEOREM NobodyLeftSleeping == Spec => []NobodySleepsThroughStop
<1>1. IInv => NobodySleepsThroughStop
  BY DEF IInv
<1>2. QED
  BY <1>1, PoolInvariant, PTL

\* When the destructor returns, every task enqueue did not refuse has been
\* executed: all workers have exited, so none runs a task, and a worker exits
\* only from an empty queue.
THEOREM PoolDrains == Spec => []DestructorDrains
<1>1. ThreadPoolAssumption /\ IInv => DestructorDrains
  <2> SUFFICES ASSUME ThreadPoolAssumption, IInv, owner = "destroyed"
               PROVE  given = done \cup rejected
    BY DEF DestructorDrains
  <2>1. \A w \in Workers : wpc[w] = "exited"
    BY DEF IInv, StopInv
  <2>2. Running = {}
    BY <2>1 DEF Running
  <2>3. Queued = {}
    BY <2>1 DEF IInv, StopInv, Queued, ThreadPoolAssumption
  <2>4. QED
    BY <2>2, <2>3 DEF IInv, Accounted
<1>2. ThreadPoolAssumption
  BY ThreadPoolAssumption
<1>3. QED
  BY <1>1, <1>2, PoolInvariant, PTL

-----------------------------------------------------------------------------
(* The places of the tasks.                                                *)

\* Every task is in the queue once, or in one worker's hands, or has ended.
Once ==
    /\ Distinct(tasks)
    /\ Queued \cap (Running \cup done \cup rejected) = {}
    /\ Running \cap (done \cup rejected) = {}
    /\ done \cap rejected = {}
    /\ \A v, w \in Workers : job[v] = job[w] /\ job[v] # NoTask => v = w

LEMMA InitOnce == Init => Once
  BY DEF Init, Once, Distinct, Queued, Running

\* Steps that move no task.
Quiet ==
    /\ UNCHANGED <<tasks, job, done, rejected, given>>
    /\ \A w \in Workers : wpc'[w] = "run" <=> wpc[w] = "run"

LEMMA QuietSteps ==
    ASSUME TypeOK,
           \/ \E w \in Workers : \/ Acquire(w) \/ PredicateFails(w) \/ Sleep(w) \/ Exit(w)
                                 \/ SpuriousWakeup(w)
           \/ \E p \in Producers : NotifyOne(p)
           \/ RaiseStop \/ NotifyAll \/ JoinAll
           \/ UNCHANGED vars
    PROVE  Quiet
<1> USE DEF TypeOK, Quiet
<1>1. CASE \E w \in Workers : \/ Acquire(w) \/ PredicateFails(w) \/ Sleep(w) \/ Exit(w)
                              \/ SpuriousWakeup(w)
  BY <1>1 DEF Acquire, PredicateFails, Sleep, Exit, SpuriousWakeup
<1>2. CASE \E p \in Producers : NotifyOne(p)
  BY <1>2 DEF NotifyOne, Sleeping
<1>3. CASE RaiseStop \/ NotifyAll \/ JoinAll \/ UNCHANGED vars
  BY <1>3 DEF RaiseStop, NotifyAll, JoinAll, Sleeping, vars
<1>4. QED
  BY <1>1, <1>2, <1>3

LEMMA QuietRunning ==
    ASSUME Quiet
    PROVE  Queued' = Queued /\ Running' = Running
  BY DEF Quiet, Queued, Running

\* What the other steps do to the places of the tasks.
LEMMA PushPlaces ==
    ASSUME IInv, NEW p \in Producers, NEW t \in Tasks, Push(p, t)
    PROVE  /\ Queued' = Queued \cup {t} /\ Running' = Running
           /\ t \notin Queued \cup Running \cup rejected /\ done' = done \ {t}
           /\ Distinct(tasks) => Distinct(tasks')
<1>1. tasks \in Seq(Tasks) /\ tasks' = Append(tasks, t)
  BY DEF IInv, TypeOK, Push
<1>2. t \notin Queued \cup Running \cup rejected /\ done' = done \ {t}
  BY DEF Push, Fresh
<1>3. Queued' = Queued \cup {t} /\ (Distinct(tasks) => Distinct(tasks'))
  BY <1>1, <1>2, PushMembers DEF Queued, Members
<1>4. Running' = Running
  BY DEF Push, Running
<1>5. QED
  BY <1>2, <1>3, <1>4

LEMMA TakePlaces ==
    ASSUME IInv, NEW w \in Workers, Take(w)
    PROVE  /\ Queued = Queued' \cup {Head(tasks)} /\ Running' = Running \cup {Head(tasks)}
           /\ Distinct(tasks) => Distinct(tasks') /\ Head(tasks) \notin Queued'
           /\ Head(tasks) \in Tasks
           /\ job' = [job EXCEPT ![w] = Head(tasks)]
           /\ job[w] = NoTask /\ wpc[w] # "run"
<1>1. tasks \in Seq(Tasks) /\ tasks # <<>> /\ tasks' = Tail(tasks)
  BY DEF IInv, TypeOK, Take
<1>2. Queued = Members(tasks) /\ Queued' = Members(Tail(tasks))
  BY <1>1 DEF Queued, Members
<1>3. /\ Queued = Queued' \cup {Head(tasks)} /\ Head(tasks) \in Tasks
      /\ Distinct(tasks) => Distinct(tasks') /\ Head(tasks) \notin Queued'
  BY <1>1, <1>2, PopMembers
<1>4. Running' = Running \cup {Head(tasks)}
  BY DEF Take, Running, IInv, TypeOK
<1>5. QED
  BY <1>3, <1>4 DEF Take, IInv, JobInv

LEMMA ExecutePlaces ==
    ASSUME IInv, Once, NEW w \in Workers, Execute(w)
    PROVE  /\ Queued' = Queued /\ tasks' = tasks
           /\ job[w] \in Running /\ Running' = Running \ {job[w]}
           /\ done' = done \cup {job[w]} /\ rejected' = rejected
           /\ job' = [job EXCEPT ![w] = NoTask]
<1>1. job[w] # NoTask /\ job[w] \in Running
  BY DEF Execute, IInv, JobInv, Running
<1>2. \A v \in Workers \ {w} : wpc'[v] = wpc[v] /\ job'[v] = job[v]
  BY DEF Execute, IInv, TypeOK
<1>3. wpc'[w] = "lock"
  BY DEF Execute, IInv, TypeOK
<1>4. \A v \in Workers \ {w} : job[v] # job[w]
  BY <1>1 DEF Once
<1>5. Running' = Running \ {job[w]}
  BY <1>2, <1>3, <1>4 DEF Running
<1>6. QED
  BY <1>1, <1>5 DEF Execute, Queued

LEMMA StepOnce ==
    ASSUME IInv, Once, [Next]_vars
    PROVE  Once'
<1>1. CASE Quiet
  BY <1>1, QuietRunning DEF Once, Quiet
<1>2. ASSUME NEW p \in Producers, NEW t \in Tasks, Push(p, t)
      PROVE  Once'
  <2>1. /\ Queued' = Queued \cup {t} /\ Running' = Running
        /\ t \notin Queued \cup Running \cup rejected /\ done' = done \ {t}
        /\ Distinct(tasks')
    BY <1>2, PushPlaces DEF Once
  <2>2. UNCHANGED <<job, rejected>>
    BY <1>2 DEF Push
  <2>3. QED
    BY <2>1, <2>2 DEF Once
<1>3. ASSUME NEW p \in Producers, NEW t \in Tasks, Reject(p, t)
      PROVE  Once'
  <2>1. Queued' = Queued /\ Running' = Running /\ t \notin Queued \cup Running
    BY <1>3 DEF Reject, Fresh, Queued, Running
  <2>2. QED
    BY <1>3, <2>1 DEF Once, Reject
<1>4. ASSUME NEW w \in Workers, Take(w)
      PROVE  Once'
  <2>1. \A v \in Workers : job[v] # NoTask => job[v] \in Running
    BY DEF IInv, JobInv, Running
  <2>2. Head(tasks) \in Queued /\ Head(tasks) \notin Running
    BY <1>4, TakePlaces DEF Once
  <2>3. \A v \in Workers : job'[v] = IF v = w THEN Head(tasks) ELSE job[v]
    BY <1>4, TakePlaces DEF IInv, TypeOK
  <2>4. \A u, v \in Workers : job'[u] = job'[v] /\ job'[u] # NoTask => u = v
    BY <2>1, <2>2, <2>3 DEF Once
  <2>5. UNCHANGED <<done, rejected>>
    BY <1>4 DEF Take
  <2>6. QED
    BY <1>4, <2>4, <2>5, TakePlaces DEF Once
<1>5. ASSUME NEW w \in Workers, Execute(w)
      PROVE  Once'
  <2>1. \A v \in Workers : job'[v] = IF v = w THEN NoTask ELSE job[v]
    BY <1>5, ExecutePlaces DEF IInv, TypeOK
  <2>2. QED
    BY <1>5, <2>1, ExecutePlaces DEF Once
<1>6. QED
  BY <1>1, <1>2, <1>3, <1>4, <1>5, QuietSteps DEF Next, Worker, Gone, IInv

LEMMA OnceAlways == Spec => [](IInv /\ Once)
<1>1. IInv /\ Once /\ [Next]_vars => IInv' /\ Once'
  BY NextInv, StepOnce, ThreadPoolAssumption
<1>2. Init => IInv /\ Once
  BY InitInv, InitOnce, ThreadPoolAssumption
<1>3. QED
  BY <1>1, <1>2, PTL DEF Spec

\* A queue without duplicates has as many members as entries.
LEMMA MembersCounted ==
    ASSUME NEW s \in Seq(Tasks), Distinct(s)
    PROVE  Cardinality(Members(s)) = Len(s)
<1> DEFINE f == [i \in 1..Len(s) |-> s[i]]
<1>1. Len(s) \in Nat /\ DOMAIN s = 1..Len(s)
  OBVIOUS
<1>2. f \in Bijection(1..Len(s), Members(s))
  BY <1>1 DEF Bijection, Injection, Surjection, Members, Distinct, IsInjective
<1>3. ExistsBijection(1..Len(s), Members(s))
  BY <1>2 DEF ExistsBijection
<1>4. IsFiniteSet(1..Len(s)) /\ Cardinality(1..Len(s)) = Len(s)
  BY <1>1, FS_Interval
<1>5. QED
  BY <1>3, <1>4, FS_Bijection

\* Each task given to enqueue is in one place: the queue, the hands of one
\* worker, among those executed, or among those refused (lines 76-82, 107-111).
THEOREM EachTaskInOnePlace == Spec => []TaskInOnePlace
<1>1. ASSUME IInv, Once
      PROVE  TaskInOnePlace
  <2> DEFINE places == <<Queued, Running, done, rejected>>
  <2>1. /\ places[1] = Queued /\ places[2] = Running
        /\ places[3] = done /\ places[4] = rejected
        /\ 1..4 = {1, 2, 3, 4}
    OBVIOUS
  <2> HIDE DEF places
  <2>2. given = UNION {places[i] : i \in 1..4}
    <3>1. given = Queued \cup Running \cup done \cup rejected
      BY <1>1 DEF IInv, Accounted
    <3>2. {places[i] : i \in 1..4} = {Queued, Running, done, rejected}
      BY <2>1
    <3>3. QED
      BY <3>1, <3>2
  <2>3. \A i, j \in 1..4 : i # j => places[i] \cap places[j] = {}
    BY <1>1, <2>1 DEF Once
  <2>4. Cardinality(Queued) = Len(tasks)
    BY <1>1, MembersCounted DEF IInv, TypeOK, Once, Queued, Members
  <2>5. QED
    BY <1>1, <2>2, <2>3, <2>4 DEF TaskInOnePlace, Once, places
<1>2. QED
  BY <1>1, OnceAlways, PTL

-----------------------------------------------------------------------------
(* Wake-ups.                                                               *)

LEMMA Counts ==
    ASSUME IInv
    PROVE  /\ IsFiniteSet(AwakeIdle) /\ IsFiniteSet(Notifying)
           /\ Cardinality(AwakeIdle) \in Nat /\ Cardinality(Notifying) \in Nat
           /\ tasks \in Seq(Tasks) /\ Len(tasks) \in Nat /\ (tasks = <<>> <=> Len(tasks) = 0)
<1>1. IsFiniteSet(AwakeIdle) /\ IsFiniteSet(Notifying)
  BY ThreadPoolAssumption, FS_Subset DEF AwakeIdle, Notifying
<1>2. tasks \in Seq(Tasks)
  BY DEF IInv, TypeOK
<1>3. QED
  BY <1>1, <1>2, FS_CardinalityType

\* While nobody is taken from the workers that are awake and idle and nobody from
\* the producers that still notify, there are as many wake-ups as before.
LEMMA MoreWakeups ==
    ASSUME IInv, IInv', NoLostWakeup, Sleeping' # {} => Sleeping # {},
           AwakeIdle \subseteq AwakeIdle', Notifying \subseteq Notifying',
           Len(tasks') <= Len(tasks)
    PROVE  NoLostWakeup'
<1>1. IsFiniteSet(AwakeIdle') /\ IsFiniteSet(Notifying')
  BY ThreadPoolAssumption, FS_Subset DEF AwakeIdle, Notifying
<1>2. /\ Cardinality(AwakeIdle) <= Cardinality(AwakeIdle')
      /\ Cardinality(Notifying) <= Cardinality(Notifying')
  BY <1>1, FS_Subset
<1>3. Cardinality(AwakeIdle') \in Nat /\ Cardinality(Notifying') \in Nat
  BY <1>1, FS_CardinalityType
<1>4. tasks' \in Seq(Tasks)
  BY DEF IInv, TypeOK
<1>5. QED
  BY <1>2, <1>3, <1>4, Counts DEF NoLostWakeup

\* An empty queue needs no wake-up.
LEMMA NothingQueued ==
    ASSUME IInv', tasks' = <<>>
    PROVE  NoLostWakeup'
<1>1. IsFiniteSet(AwakeIdle') /\ IsFiniteSet(Notifying')
  BY ThreadPoolAssumption, FS_Subset DEF AwakeIdle, Notifying
<1>2. Cardinality(AwakeIdle') \in Nat /\ Cardinality(Notifying') \in Nat
  BY <1>1, FS_CardinalityType
<1>3. Len(tasks') = 0
  OBVIOUS
<1>4. QED
  BY <1>2, <1>3 DEF NoLostWakeup

\* A task is pushed and its notification is under way.
LEMMA PushWakes ==
    ASSUME IInv, IInv', NoLostWakeup, NEW p \in Producers, NEW t \in Tasks, Push(p, t)
    PROVE  NoLostWakeup'
<1>1. /\ Sleeping' = Sleeping /\ AwakeIdle' = AwakeIdle
      /\ Notifying' = Notifying \cup {p} /\ p \notin Notifying
      /\ tasks' = Append(tasks, t)
  BY DEF Push, Sleeping, AwakeIdle, Notifying, IInv, TypeOK
<1>2. Cardinality(Notifying') = Cardinality(Notifying) + 1
  BY <1>1, Counts, FS_AddElement
<1>3. Len(tasks') = Len(tasks) + 1
  BY <1>1, Counts
<1>4. QED
  BY <1>1, <1>2, <1>3, Counts DEF NoLostWakeup

\* A notification wakes a worker, if any is asleep.
LEMMA NotifyOneWakes ==
    ASSUME IInv, IInv', NoLostWakeup, NEW p \in Producers, NotifyOne(p)
    PROVE  NoLostWakeup'
<1>1. CASE Sleeping = {}
  BY <1>1 DEF NotifyOne, NoLostWakeup, Sleeping
<1>2. CASE Sleeping # {}
  <2>1. PICK w \in Sleeping : wpc' = [wpc EXCEPT ![w] = "lock"]
    BY <1>2 DEF NotifyOne
  <2>2. /\ AwakeIdle' = AwakeIdle \cup {w} /\ w \notin AwakeIdle
        /\ Notifying' = Notifying \ {p} /\ p \in Notifying
        /\ tasks' = tasks
    BY <2>1 DEF NotifyOne, Sleeping, AwakeIdle, Notifying, IInv, TypeOK
  <2>3. Cardinality(AwakeIdle') = Cardinality(AwakeIdle) + 1
    BY <2>2, Counts, FS_AddElement
  <2>4. Cardinality(Notifying') = Cardinality(Notifying) - 1
    BY <2>2, Counts, FS_RemoveElement
  <2>5. QED
    BY <1>2, <2>2, <2>3, <2>4, Counts DEF NoLostWakeup
<1>3. QED
  BY <1>1, <1>2

\* A worker takes a task: one worker and one task fewer.
LEMMA TakeWakes ==
    ASSUME IInv, IInv', NoLostWakeup, NEW w \in Workers, Take(w)
    PROVE  NoLostWakeup'
<1>1. /\ Sleeping' = Sleeping
      /\ AwakeIdle' = AwakeIdle \ {w} /\ w \in AwakeIdle
      /\ Notifying' = Notifying
      /\ tasks # <<>> /\ tasks' = Tail(tasks)
  BY DEF Take, Sleeping, AwakeIdle, Notifying, IInv, TypeOK
<1>2. Cardinality(AwakeIdle') = Cardinality(AwakeIdle) - 1
  BY <1>1, Counts, FS_RemoveElement
<1>3. Len(tasks') = Len(tasks) - 1
  BY <1>1, Counts
<1>4. QED
  BY <1>1, <1>2, <1>3, Counts DEF NoLostWakeup

LEMMA StepWakes ==
    ASSUME IInv, IInv', NoLostWakeup, [Next]_vars
    PROVE  NoLostWakeup'
<1> USE DEF IInv, TypeOK
<1>1. ASSUME NEW w \in Workers, Acquire(w) \/ SpuriousWakeup(w) \/ Execute(w)
      PROVE  NoLostWakeup'
  <2>1. /\ Sleeping' \subseteq Sleeping /\ AwakeIdle \subseteq AwakeIdle'
        /\ Notifying' = Notifying /\ tasks' = tasks
    BY <1>1 DEF Acquire, SpuriousWakeup, Execute, Sleeping, AwakeIdle, Notifying
  <2>2. QED
    BY <2>1, Counts, MoreWakeups
<1>2. ASSUME NEW w \in Workers, PredicateFails(w) \/ Sleep(w) \/ Exit(w)
      PROVE  NoLostWakeup'
  <2>1. tasks' = <<>>
    BY <1>2 DEF PredicateFails, Sleep, Exit, MutexInv
  <2>2. QED
    BY <2>1, NothingQueued
<1>3. ASSUME NEW w \in Workers, Take(w)
      PROVE  NoLostWakeup'
  BY <1>3, TakeWakes
<1>4. ASSUME NEW p \in Producers, NotifyOne(p)
      PROVE  NoLostWakeup'
  BY <1>4, NotifyOneWakes
<1>5. ASSUME NEW p \in Producers, NEW t \in Tasks, Push(p, t)
      PROVE  NoLostWakeup'
  BY <1>5, PushWakes
<1>6. CASE \/ \E p \in Producers, t \in Tasks : Reject(p, t)
           \/ RaiseStop \/ JoinAll \/ UNCHANGED vars
  <2>1. Sleeping' = Sleeping /\ AwakeIdle' = AwakeIdle /\ Notifying' = Notifying /\ tasks' = tasks
    BY <1>6 DEF Reject, RaiseStop, JoinAll, vars, Sleeping, AwakeIdle, Notifying
  <2>2. QED
    BY <2>1, Counts, MoreWakeups
<1>7. CASE NotifyAll
  BY <1>7 DEF NotifyAll, NoLostWakeup, Sleeping
<1>8. QED
  BY <1>1, <1>2, <1>3, <1>4, <1>5, <1>6, <1>7 DEF Next, Worker, Gone

\* No wake-up is lost: although enqueue notifies after it has unlocked (lines
\* 101-114), while a worker sleeps every queued task is matched by a worker on its
\* way to the queue or by a notification still to come.
THEOREM NoWakeupIsLost == Spec => []NoLostWakeup
<1>1. Init => NoLostWakeup
  BY DEF Init, NoLostWakeup, Sleeping
<1>2. IInv /\ IInv' /\ NoLostWakeup /\ [Next]_vars => NoLostWakeup'
  BY StepWakes
<1>3. QED
  BY <1>1, <1>2, PoolInvariant, PTL DEF Spec

-----------------------------------------------------------------------------
(* The pool implements TaskPool.                                           *)

\* A worker that runs nothing leaves room among the running tasks.
LEMMA RoomToRun ==
    ASSUME IInv, NEW w \in Workers, wpc[w] # "run"
    PROVE  Cardinality(Running) < Cardinality(Workers)
<1> DEFINE Others == {v \in Workers : wpc[v] = "run"}
           f == [v \in Others |-> job[v]]
<1>1. Others \subseteq Workers \ {w}
  OBVIOUS
<1>2. IsFiniteSet(Workers \ {w}) /\ Cardinality(Workers \ {w}) = Cardinality(Workers) - 1
  BY ThreadPoolAssumption, FS_RemoveElement
<1>3. IsFiniteSet(Others) /\ Cardinality(Others) <= Cardinality(Workers) - 1
  BY <1>1, <1>2, FS_Subset
<1>4. f \in Surjection(Others, Running)
  BY DEF Surjection, Running
<1>5. IsFiniteSet(Running) /\ Cardinality(Running) <= Cardinality(Others)
  BY <1>3, <1>4, FS_Surjection
<1>6. /\ Cardinality(Running) \in Nat /\ Cardinality(Others) \in Nat
      /\ Cardinality(Workers) \in Nat
  BY <1>3, <1>5, ThreadPoolAssumption, FS_CardinalityType
<1>7. QED
  BY <1>3, <1>5, <1>6

LEMMA StepImplements ==
    ASSUME IInv, Once, [Next]_vars
    PROVE  [Pool!PoolNext]_Pool!poolVars
<1> USE DEF Pool!PoolNext, Pool!poolVars
<1>1. CASE Quiet /\ stop' = stop
  BY <1>1, QuietRunning DEF Quiet
<1>2. ASSUME NEW p \in Producers, NEW t \in Tasks, Push(p, t)
      PROVE  Pool!Accept(t)
  BY <1>2, PushPlaces DEF Pool!Accept, Pool!Queued, Queued, Push
<1>3. ASSUME NEW w \in Workers, Take(w)
      PROVE  Pool!Start
  <2>1. wpc[w] # "run" /\ Running' = Running \cup {Head(tasks)}
    BY <1>3, TakePlaces
  <2>2. Cardinality(Running) < Cardinality(Workers)
    BY <2>1, RoomToRun
  <2>3. tasks # <<>> /\ tasks' = Tail(tasks) /\ stop' = stop
    BY <1>3 DEF Take
  <2>4. Pool!Cardinality(Running) = Cardinality(Running)
    BY DEF Pool!Cardinality, Cardinality
  <2>5. QED
    BY <2>1, <2>2, <2>3, <2>4 DEF Pool!Start
<1>4. ASSUME NEW w \in Workers, Execute(w)
      PROVE  job[w] \in Tasks /\ Pool!Complete(job[w])
  BY <1>4, ExecutePlaces DEF Pool!Complete, Execute, IInv, TypeOK, JobInv
<1>5. CASE RaiseStop
  BY <1>5, QuietSteps, QuietRunning DEF Pool!Close, RaiseStop, IInv, StopInv, Quiet
<1>6. ASSUME NEW p \in Producers, NEW t \in Tasks, Reject(p, t)
      PROVE  UNCHANGED <<tasks, Running, stop>>
  BY <1>6 DEF Reject, Running
<1>7. CASE \/ \E w \in Workers : \/ Acquire(w) \/ PredicateFails(w) \/ Sleep(w) \/ Exit(w)
                                 \/ SpuriousWakeup(w)
           \/ \E p \in Producers : NotifyOne(p)
           \/ NotifyAll \/ JoinAll \/ UNCHANGED vars
  <2>1. Quiet
    BY <1>7, QuietSteps DEF IInv
  <2>2. stop' = stop
    BY <1>7 DEF Acquire, PredicateFails, Sleep, Exit, SpuriousWakeup, NotifyOne, NotifyAll,
                JoinAll, vars
  <2>3. QED
    BY <1>1, <2>1, <2>2
<1>8. QED
  BY <1>2, <1>3, <1>4, <1>5, <1>6, <1>7 DEF Next, Worker, Gone

\* Whatever the workers, the producers and the destructor do, a user of the pool
\* sees TaskPool: tasks start in the order they were accepted, each once, no more
\* of them at a time than there are workers, and none is accepted after stop.
THEOREM PoolImplementsTaskPool == Spec => Pool!PoolInit /\ [][Pool!PoolNext]_Pool!poolVars
<1>1. Init => Pool!PoolInit
  BY DEF Init, Pool!PoolInit, Running
<1>2. IInv /\ Once /\ [Next]_vars => [Pool!PoolNext]_Pool!poolVars
  BY StepImplements
<1>3. QED
  BY <1>1, <1>2, OnceAlways, PTL DEF Spec

=============================================================================
