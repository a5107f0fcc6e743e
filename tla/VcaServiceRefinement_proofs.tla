--------------------- MODULE VcaServiceRefinement_proofs ---------------------
(***************************************************************************)
(* What a client sees of the server, for every number of types, calls,     *)
(* contexts and workers: every step of the loop, the workers, the runtime  *)
(* and the clients is a step of CallService or changes nothing there.      *)
(***************************************************************************)
EXTENDS VcaService_proofs

\* How far the controller function has come for the call of a context.
RunIn(c) ==
    IF work[c] \in {"controller", "hung"} \/ c \in lost THEN "running"
    ELSE IF work[c] \in {"status", "finish"} \/ c \in sending THEN "returned"
    ELSE "notYet"

\* A call is in one context at most, and runs there or not at all.
LEMMA RunFacts ==
    ASSUME IInv, NEW k \in Calls
    PROVE  /\ \A c \in heap : call_[c] = k => RunOf(k) = RunIn(c)
           /\ (\A c \in heap : call_[c] # k) => RunOf(k) = "notYet"
<1>1. ASSUME NEW c \in heap, call_[c] = k
      PROVE  RunOf(k) = RunIn(c)
  <2>1. {d \in heap : call_[d] = k} = {c}
    BY <1>1, ServiceAssumption DEF IInv, StatusTellsTheEvent
  <2>2. QED
    BY <2>1 DEF RunOf, RunIn
<1>2. ASSUME \A c \in heap : call_[c] # k
      PROVE  RunOf(k) = "notYet"
  BY <1>2 DEF RunOf
<1>3. QED
  BY <1>1, <1>2

\* A step that leaves the contexts of a call alone does not change how it runs.
LEMMA SameRun ==
    ASSUME NEW k \in Calls,
           \A c \in heap \cup heap' :
              \/ (c \in heap => call_[c] # k) /\ (c \in heap' => call_'[c] # k)
              \/ /\ c \in heap /\ c \in heap' /\ call_'[c] = call_[c]
                 /\ work'[c] \in {"controller", "hung"} \/ c \in lost'
                    <=> work[c] \in {"controller", "hung"} \/ c \in lost
                 /\ work'[c] \in {"status", "finish"} \/ c \in sending'
                    <=> work[c] \in {"status", "finish"} \/ c \in sending
    PROVE  RunOf(k)' = RunOf(k)
  BY DEF RunOf

\* A step that changes how one call runs.
LEMMA OneRuns ==
    ASSUME NEW k \in Calls, NEW from, NEW to, RunOf(k) = from, RunOf(k)' = to,
           \A j \in Calls \ {k} : RunOf(j)' = RunOf(j)
    PROVE  Abstract!RunBecomes(k, from, to)
  BY DEF Abstract!RunBecomes

LEMMA NoneRuns ==
    ASSUME \A j \in Calls : RunOf(j)' = RunOf(j)
    PROVE  UNCHANGED [k \in Calls |-> RunOf(k)]
  OBVIOUS

-----------------------------------------------------------------------------
(* Steps that a client does not see.                                       *)

LEMMA LoopUnseen ==
    ASSUME IInv,
           \/ \E t \in Types : RegisterRequest(t)
           \/ \E c \in Ctxs : Fetch(c)
           \/ Rearm \/ Enqueue
    PROVE  UNCHANGED call /\ \A k \in Calls : RunOf(k)' = RunOf(k)
<1> USE ServiceAssumption DEF IInv, TypeOK
<1>1. CASE (\E t \in Types : RegisterRequest(t)) \/ Rearm
  <2>1. PICK c \in Ctxs \ heap :
           /\ heap' = heap \cup {c} /\ call_' = [call_ EXCEPT ![c] = NoCall]
           /\ UNCHANGED <<work, lost, sending, call>>
    BY <1>1 DEF RegisterRequest, Rearm, Arm, workVars
  <2>2. call_'[c] = NoCall /\ \A d \in heap : d # c /\ call_'[d] = call_[d]
    BY <2>1
  <2>3. ASSUME NEW k \in Calls
        PROVE  RunOf(k)' = RunOf(k)
    BY <2>1, <2>2, SameRun
  <2>4. QED
    BY <2>1, <2>3
<1>2. ASSUME NEW c \in Ctxs, FetchFinished(c)
      PROVE  UNCHANGED call /\ \A k \in Calls : RunOf(k)' = RunOf(k)
  <2>1. /\ heap' = heap \ {c} /\ UNCHANGED <<call_, work, lost, sending, call>>
        /\ call_[c] = NoCall
    BY <1>2 DEF FetchFinished, workVars, StatusTellsTheEvent, Announced
  <2>2. ASSUME NEW k \in Calls
        PROVE  RunOf(k)' = RunOf(k)
    BY <2>1, SameRun
  <2>3. QED
    BY <2>1, <2>2
<1>3. CASE (\E c \in Ctxs : FetchRequest(c) \/ FetchFailed(c)) \/ Enqueue
  BY <1>3 DEF FetchRequest, FetchFailed, Enqueue, ctxVars, workVars, rpcVars, RunOf
<1>4. QED
  BY <1>1, <1>2, <1>3 DEF Fetch

LEMMA WorkerUnseen ==
    ASSUME IInv, NEW c \in Ctxs,
           ControllerThrows(c) \/ ControllerHangs(c) \/ SetStatus(c) \/ Finish(c)
    PROVE  UNCHANGED call /\ \A k \in Calls : RunOf(k)' = RunOf(k)
<1> USE DEF IInv, TypeOK
<1>1. /\ UNCHANGED <<heap, call_, call>>
      /\ \A d \in Ctxs \ {c} : /\ work'[d] = work[d] /\ (d \in lost' <=> d \in lost)
                               /\ (d \in sending' <=> d \in sending)
      /\ \/ /\ work[c] = "controller" /\ c \notin sending /\ sending' = sending
            /\ work'[c] = "hung" \/ (work'[c] = "none" /\ c \in lost')
         \/ /\ work[c] = "status" /\ work'[c] = "finish" /\ lost' = lost /\ sending' = sending
         \/ /\ work[c] = "finish" /\ work'[c] = "none" /\ c \in sending' /\ lost' = lost
  BY DEF ControllerThrows, ControllerHangs, SetStatus, Finish, ctxVars, loopVars, rpcVars,
         ContextInOnePlace, Busy
<1>2. ASSUME NEW k \in Calls
      PROVE  RunOf(k)' = RunOf(k)
  BY <1>1, SameRun
<1>3. QED
  BY <1>1, <1>2

-----------------------------------------------------------------------------
(* Steps that a client may see.                                            *)

\* A step of the worker or of the runtime that moves one context on.
LEMMA ContextMovesOn ==
    ASSUME IInv, NEW c \in heap, NEW k \in Calls, call_[c] = k,
           NEW from, NEW to, RunIn(c) = from, RunIn(c)' = to,
           UNCHANGED <<heap, call_>>,
           \A d \in Ctxs \ {c} : /\ work'[d] = work[d] /\ (d \in lost' <=> d \in lost)
                                 /\ (d \in sending' <=> d \in sending)
    PROVE  Abstract!RunBecomes(k, from, to)
<1> USE DEF IInv, TypeOK
<1>1. {d \in heap : call_[d] = k} = {c}
  BY ServiceAssumption DEF StatusTellsTheEvent
<1>2. RunOf(k) = from
  BY RunFacts
<1>3. RunOf(k)' = to
  BY <1>1 DEF RunOf, RunIn
<1>4. ASSUME NEW j \in Calls \ {k}
      PROVE  RunOf(j)' = RunOf(j)
  BY SameRun
<1>5. QED
  BY <1>2, <1>3, <1>4, OneRuns

LEMMA TakeBeginsRun ==
    ASSUME IInv, Take
    PROVE  \E k \in Calls : Abstract!BeginRun(k)
<1> USE ServiceAssumption DEF IInv, TypeOK
<1>1. PICK h \in Ctxs : h = Head(tasks) /\ h \in Queued
  BY QueuedAfterTail DEF Take, ContextInOnePlace
<1>2. PICK k \in Calls : k = call_[h]
  BY <1>1, ServiceAssumption DEF StatusTellsTheEvent
<1>3. /\ h \in heap /\ call[k] \in {"accepted", "cancelled"}
      /\ work[h] = "none" /\ h \notin lost \cup sending
  BY <1>1, <1>2 DEF NoUseAfterFree, StatusTellsTheEvent, ContextInOnePlace, Busy
<1>4. /\ UNCHANGED <<heap, call_, lost, sending, call>>
      /\ work'[h] = "controller" /\ \A d \in Ctxs \ {h} : work'[d] = work[d]
  BY <1>1 DEF Take, ctxVars, rpcVars
<1>5. RunIn(h) = "notYet" /\ RunIn(h)' = "running"
  BY <1>3, <1>4 DEF RunIn
<1>6. Abstract!RunBecomes(k, "notYet", "running")
  BY <1>2, <1>3, <1>4, <1>5, ContextMovesOn
<1>7. QED
  BY <1>3, <1>4, <1>6 DEF Abstract!BeginRun

LEMMA ReturnEndsRun ==
    ASSUME IInv, NEW c \in Ctxs, ControllerReturns(c)
    PROVE  \E k \in Calls : Abstract!EndRun(k)
<1> USE DEF IInv, TypeOK
<1>1. /\ work[c] = "controller" /\ c \in Busy
      /\ UNCHANGED <<heap, call_, lost, sending, call>>
      /\ work'[c] = "status" /\ \A d \in Ctxs \ {c} : work'[d] = work[d]
  BY DEF ControllerReturns, ctxVars, rpcVars, Busy
<1>2. c \in heap /\ c \notin lost /\ call_[c] \in Calls
  BY <1>1 DEF NoUseAfterFree, StatusTellsTheEvent, ContextInOnePlace
<1>3. PICK k \in Calls : call_[c] = k
  BY <1>2
<1>4. RunIn(c) = "running" /\ RunIn(c)' = "returned"
  BY <1>1, <1>2 DEF RunIn
<1>5. Abstract!RunBecomes(k, "running", "returned")
  BY <1>1, <1>2, <1>3, <1>4, ContextMovesOn
<1>6. QED
  BY <1>1, <1>5 DEF Abstract!EndRun

LEMMA MatchAccepts ==
    ASSUME IInv, NEW k \in Calls, Match(k)
    PROVE  Abstract!Accept(k)
<1> USE DEF IInv, TypeOK
<1>1. PICK c \in armed :
         /\ call[k] = "sent" /\ call' = [call EXCEPT ![k] = "accepted"]
         /\ call_' = [call_ EXCEPT ![c] = k]
         /\ UNCHANGED <<heap, work, lost, sending>>
  BY DEF Match, loopVars, workVars
<1>2. /\ c \in heap /\ c \notin lost \cup sending /\ work[c] = "none"
      /\ call_[c] = NoCall
  BY <1>1 DEF NoUseAfterFree, ContextInOnePlace, StageInv, Busy
<1>3. \A d \in heap : call_[d] # k
  BY <1>1, ServiceAssumption DEF StatusTellsTheEvent
<1>4. RunOf(k)' = RunOf(k)
  <2>1. RunOf(k) = "notYet"
    BY <1>3, RunFacts
  <2>2. {d \in heap' : call_'[d] = k} = {c}
    BY <1>1, <1>2, <1>3
  <2>3. QED
    BY <1>1, <1>2, <2>1, <2>2 DEF RunOf
<1>5. ASSUME NEW j \in Calls \ {k}
      PROVE  RunOf(j)' = RunOf(j)
  <2>1. j # NoCall
    BY ServiceAssumption
  <2>2. \A d \in heap : d # c => call_'[d] = call_[d]
    BY <1>1
  <2>3. call_[c] # j /\ call_'[c] # j
    BY <1>1, <1>2, <2>1
  <2>4. QED
    BY <1>1, <2>2, <2>3, SameRun
<1>6. \A j \in Calls : RunOf(j)' = RunOf(j)
  BY <1>4, <1>5
<1>7. QED
  BY <1>1, <1>6, NoneRuns DEF Abstract!Accept, Abstract!Become

\* The answer of a call has gone out, or its client is known to be gone.
LEMMA SentEndsCall ==
    ASSUME IInv, NEW c \in Ctxs, SendAnswer(c) \/ SendToNobody(c)
    PROVE  \E k \in Calls : Abstract!Answer(k) \/ Abstract!Close(k)
<1> USE DEF IInv, TypeOK
<1>1. /\ c \in sending /\ sending' = sending \ {c}
      /\ call_' = [call_ EXCEPT ![c] = NoCall]
      /\ UNCHANGED <<heap, work, lost>>
      /\ \/ /\ call[call_[c]] = "accepted"
            /\ call' = [call EXCEPT ![call_[c]] = "answered"]
         \/ /\ call[call_[c]] = "cancelled"
            /\ call' = [call EXCEPT ![call_[c]] = "closed"]
  BY DEF SendAnswer, SendToNobody, loopVars, workVars
<1>2. c \in heap /\ c \notin lost /\ work[c] = "none" /\ call_[c] \in Calls
  BY <1>1 DEF NoUseAfterFree, StatusTellsTheEvent, ContextInOnePlace, Busy
<1>3. PICK k \in Calls : call_[c] = k
  BY <1>2
<1>4. RunOf(k) = "returned"
  BY <1>1, <1>2, <1>3, RunFacts DEF RunIn
<1>5. RunOf(k)' = "notYet"
  <2>1. \A d \in heap : call_'[d] # k
    BY <1>1, <1>2, <1>3, ServiceAssumption DEF StatusTellsTheEvent
  <2>2. QED
    BY <1>1, <2>1 DEF RunOf
<1>6. ASSUME NEW j \in Calls \ {k}
      PROVE  RunOf(j)' = RunOf(j)
  <2>1. call_[c] # j /\ call_'[c] # j
    BY <1>1, <1>3, ServiceAssumption
  <2>2. \A d \in heap : d # c => call_'[d] = call_[d]
    BY <1>1
  <2>3. QED
    BY <1>1, <2>1, <2>2, SameRun
<1>7. Abstract!RunBecomes(k, "returned", "notYet")
  BY <1>4, <1>5, <1>6, OneRuns
<1>8. QED
  BY <1>1, <1>3, <1>7 DEF Abstract!Answer, Abstract!Close, Abstract!Become

LEMMA ClientSteps ==
    ASSUME NEW k \in Calls, ClientSends(k) \/ ClientCancels(k) \/ ClientReturns(k)
    PROVE  Abstract!Send(k) \/ Abstract!Drop(k) \/ Abstract!GiveUp(k) \/ Abstract!Again(k)
<1>1. \A j \in Calls : RunOf(j)' = RunOf(j)
  BY DEF ClientSends, ClientCancels, ClientReturns, ctxVars, workVars, RunOf
<1>2. UNCHANGED [j \in Calls |-> RunOf(j)]
  BY <1>1, NoneRuns
<1>3. QED
  BY <1>2 DEF ClientSends, ClientCancels, ClientReturns, Abstract!Send, Abstract!Drop,
              Abstract!GiveUp, Abstract!Again, Abstract!Become

-----------------------------------------------------------------------------

LEMMA StartImplements ==
    ASSUME Init
    PROVE  Abstract!CallInit
<1>1. ASSUME NEW k \in Calls
      PROVE  RunOf(k) = "notYet"
  BY DEF Init, RunOf
<1>2. QED
  BY <1>1 DEF Init, Abstract!CallInit

LEMMA StepImplements ==
    ASSUME IInv, [Next]_vars
    PROVE  [Abstract!CallNext]_Abstract!callVars
<1> DEFINE Unseen == UNCHANGED call /\ \A k \in Calls : RunOf(k)' = RunOf(k)
<1>1. Unseen => UNCHANGED Abstract!callVars
  BY NoneRuns DEF Abstract!callVars
<1>2. CASE UNCHANGED vars
  BY <1>1, <1>2 DEF vars, RunOf
<1>3. ASSUME \/ \E t \in Types : RegisterRequest(t)
             \/ \E c \in Ctxs : Fetch(c)
             \/ Rearm \/ Enqueue
      PROVE  UNCHANGED Abstract!callVars
  BY <1>1, <1>3, LoopUnseen
<1>4. ASSUME NEW c \in Ctxs, Controller(c) \/ SetStatus(c) \/ Finish(c)
      PROVE  [Abstract!CallNext]_Abstract!callVars
  BY <1>1, <1>4, WorkerUnseen, ReturnEndsRun DEF Controller, Abstract!CallNext
<1>5. CASE Take
  BY <1>5, TakeBeginsRun DEF Abstract!CallNext
<1>6. ASSUME NEW c \in Ctxs, SendAnswer(c) \/ SendToNobody(c)
      PROVE  Abstract!CallNext
  BY <1>6, SentEndsCall DEF Abstract!CallNext
<1>7. ASSUME NEW k \in Calls,
             Match(k) \/ ClientSends(k) \/ ClientCancels(k) \/ ClientReturns(k)
      PROVE  Abstract!CallNext
  BY <1>7, MatchAccepts, ClientSteps DEF Abstract!CallNext
<1>8. QED
  BY <1>2, <1>3, <1>4, <1>5, <1>6, <1>7 DEF Next

\* The server keeps its promise to every client: the controller function of a
\* call runs at most once, an answer comes after it has returned and at most
\* once, however the loop, the workers, the runtime and other clients interleave.
THEOREM ServiceImplementsCallService == Spec => ImplementsCallService
<1>1. Init => Abstract!CallInit
  BY StartImplements
<1>2. IInv /\ [Next]_vars => [Abstract!CallNext]_Abstract!callVars
  BY StepImplements
<1>3. QED
  BY <1>1, <1>2, ServiceInvariant, PTL DEF Spec, ImplementsCallService, Abstract!CallSpec

-----------------------------------------------------------------------------
(* The service and its pool.                                               *)

LEMMA StepUsesPool ==
    ASSUME IInv, [Next]_vars
    PROVE  [Pool!PoolNext]_Pool!poolVars
<1> USE ServiceAssumption DEF IInv, TypeOK, Pool!PoolNext, Pool!poolVars
<1>1. ASSUME UNCHANGED <<tasks, work>>
      PROVE  UNCHANGED Pool!poolVars
  BY <1>1 DEF Busy
<1>2. CASE \/ UNCHANGED vars
           \/ \E t \in Types : RegisterRequest(t)
           \/ \E c \in Ctxs : Fetch(c)
           \/ Rearm
           \/ \E c \in Ctxs : SendAnswer(c) \/ SendToNobody(c)
           \/ \E k \in Calls :
                 Match(k) \/ ClientSends(k) \/ ClientCancels(k) \/ ClientReturns(k)
  <2>1. UNCHANGED <<tasks, work>>
    BY <1>2 DEF vars, RegisterRequest, Fetch, FetchRequest, FetchFinished, FetchFailed, Rearm,
                SendAnswer, SendToNobody, Match, ClientSends, ClientCancels, ClientReturns,
                workVars
  <2>2. QED
    BY <1>1, <2>1
<1>3. CASE Enqueue
  <2>1. htc \in Ctxs /\ htc \in Held
    BY <1>3 DEF Enqueue, Held, LoopInv
  <2>2. htc \notin Queued \cup Busy
    BY <2>1 DEF ContextInOnePlace
  <2>3. tasks' = Append(tasks, htc) /\ Busy' = Busy
    BY <1>3 DEF Enqueue, Busy
  <2>4. Pool!Accept(htc)
    BY <2>2, <2>3 DEF Pool!Accept, Pool!Queued, Queued
  <2>5. QED
    BY <2>1, <2>4
<1>4. CASE Take
  <2>1. Head(tasks) \in Ctxs
    BY <1>4, QueuedAfterTail DEF Take, ContextInOnePlace
  <2>2. Busy' = Busy \cup {Head(tasks)}
    BY <1>4, <2>1 DEF Take, Busy
  <2>3. Pool!Cardinality(Busy) = Cardinality(Busy)
    BY DEF Pool!Cardinality, Cardinality
  <2>4. QED
    BY <1>4, <2>2, <2>3 DEF Take, Pool!Start
<1>5. ASSUME NEW c \in Ctxs, ControllerReturns(c) \/ ControllerHangs(c) \/ SetStatus(c)
      PROVE  UNCHANGED Pool!poolVars
  BY <1>5 DEF ControllerReturns, ControllerHangs, SetStatus, Busy
<1>6. ASSUME NEW c \in Ctxs, ControllerThrows(c) \/ Finish(c)
      PROVE  Pool!Complete(c)
  BY <1>6 DEF ControllerThrows, Finish, Busy, Pool!Complete
<1>7. QED
  BY <1>2, <1>3, <1>4, <1>5, <1>6 DEF Next, Controller

\* The loop and the lambdas ask nothing of the pool that TaskPool does not allow,
\* and get nothing else from it: no context is given to it while it still has it
\* (line 509), contexts start in the order of their events, and a worker that
\* threw or has finished takes the next one.
THEOREM ServiceUsesItsPool == Spec => UsesTaskPool
<1>1. Init => Pool!PoolInit
  BY DEF Init, Pool!PoolInit, Busy
<1>2. IInv /\ [Next]_vars => [Pool!PoolNext]_Pool!poolVars
  BY StepUsesPool
<1>3. QED
  BY <1>1, <1>2, ServiceInvariant, PTL DEF Spec, UsesTaskPool

=============================================================================
