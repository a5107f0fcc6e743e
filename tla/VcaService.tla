----------------------------- MODULE VcaService -----------------------------
(***************************************************************************)
(* The asynchronous gRPC server of protocol/vca_service.cpp.  One thread   *)
(* takes events from the completion queue; the tag of an event is the      *)
(* address of a heap-allocated HandlerContext.  The first event of a       *)
(* context announces a call: the loop arms a new context for the next call *)
(* of the same type and hands the old one to the thread pool.  A worker    *)
(* runs the controller function, writes status_ = 2 and calls Finish; the  *)
(* second event of the context, posted when the answer has been sent,      *)
(* makes the loop delete it.                                               *)
(*                                                                         *)
(* The gRPC runtime and the clients are external: modelled from how the    *)
(* service uses them.  The pool is taken at the level of TaskPool, which   *)
(* ThreadPool implements: its workers are interchangeable, so a busy       *)
(* worker is known by the context it works on.                             *)
(***************************************************************************)
EXTENDS Naturals, Sequences, FiniteSets

CONSTANTS
    Types,      \* the request types, 1..17 in the code
    Calls,      \* the calls clients have open, each again and again
    TypeOf,     \* the request type of each call
    Ctxs,       \* the addresses at which contexts are allocated (a bound)
    NoCtx,      \* the nullptr the loop starts an iteration with
    NoCall,     \* the call of a context no call has been matched with
    PoolSize,   \* the argument of ThreadPool pool(...)
    CanCancel,  \* whether clients give up on calls
    MaxLost,    \* bound on calls lost to an exception
    MaxHung     \* bound on controllers that never return

ASSUME ServiceAssumption ==
    /\ Types # {}
    /\ TypeOf \in [Calls -> Types]
    /\ NoCtx \notin Ctxs
    /\ NoCall \notin Calls
    /\ PoolSize \in Nat \ {0}
    /\ CanCancel \in BOOLEAN
    /\ MaxLost \in Nat /\ MaxHung \in Nat

VARIABLES
    \* the contexts
    heap,         \* the addresses of the contexts that are allocated
    type_,        \* HandlerContextBase.type_
    status_,      \* HandlerContextBase.status_
    call_,        \* the call bound to a context's ctx_, req_ and responder_
    \* the thread that runs Service and Handler
    pc,           \* "register", "next", "rearm", "enqueue" or "aborted"
    unregistered, \* the types RegisterRequest has still to register
    htc,          \* the tag of the event being handled
    \* the pool
    tasks,        \* contexts captured by the queued lambdas
    work,         \* where the worker that has the context is in its lambda
    lost,         \* contexts whose lambda ended with an exception
    \* the gRPC runtime and the clients
    armed,        \* contexts registered for the next call of their type
    cq,           \* completion queue: events <<tag, ok>>, in no given order
    sending,      \* contexts whose Finish is under way in the runtime
    call          \* what has become of each call

ctxVars == <<heap, type_, status_, call_>>
loopVars == <<pc, unregistered, htc>>
workVars == <<tasks, work, lost>>
rpcVars == <<armed, cq, sending, call>>
vars == <<heap, type_, status_, call_, pc, unregistered, htc,
          tasks, work, lost, armed, cq, sending, call>>

WorkPC == {"none", "controller", "status", "finish", "hung"}
CallStates == {"idle", "sent", "accepted", "cancelled", "answered", "closed"}

TypeOK ==
    /\ heap \in SUBSET Ctxs
    /\ type_ \in [Ctxs -> Types]
    /\ status_ \in [Ctxs -> {1, 2}]
    /\ call_ \in [Ctxs -> Calls \cup {NoCall}]
    /\ pc \in {"register", "next", "rearm", "enqueue", "aborted"}
    /\ unregistered \in SUBSET Types
    /\ htc \in Ctxs \cup {NoCtx}
    /\ tasks \in Seq(Ctxs)
    /\ work \in [Ctxs -> WorkPC]
    /\ lost \in SUBSET Ctxs
    /\ armed \in SUBSET Ctxs
    /\ cq \in SUBSET (Ctxs \X BOOLEAN)
    /\ sending \in SUBSET Ctxs
    /\ call \in [Calls -> CallStates]

\* The fields of memory that is not allocated are never read; Arm sets them.
Init ==
    /\ heap = {}
    /\ type_ = [c \in Ctxs |-> CHOOSE t \in Types : TRUE]
    /\ status_ = [c \in Ctxs |-> 1]
    /\ call_ = [c \in Ctxs |-> NoCall]
    /\ pc = "register"
    /\ unregistered = Types
    /\ htc = NoCtx
    /\ tasks = <<>>
    /\ work = [c \in Ctxs |-> "none"]
    /\ lost = {}
    /\ armed = {}
    /\ cq = {}
    /\ sending = {}
    /\ call = [k \in Calls |-> "idle"]

Queued == {tasks[i] : i \in DOMAIN tasks}
Busy == {c \in Ctxs : work[c] # "none"}
Announced == {c \in Ctxs : \E ok \in BOOLEAN : <<c, ok>> \in cq}
Alive == pc # "aborted"

\* Contexts that hold a call for which no other context has been armed yet.
Undispatched ==
    {c \in Announced : status_[c] # 2} \cup {c \in {htc} : pc = "rearm"}

-----------------------------------------------------------------------------
(* The thread that runs Service: registration, then the loop of Handler.   *)

\* new HandlerContext with status_ 1, and the Request call that arms it.
Arm(t) ==
    \E c \in Ctxs \ heap :
        /\ heap' = heap \cup {c}
        /\ type_' = [type_ EXCEPT ![c] = t]
        /\ status_' = [status_ EXCEPT ![c] = 1]
        /\ call_' = [call_ EXCEPT ![c] = NoCall]
        /\ armed' = armed \cup {c}

\* The server is started before this: calls of the types that are already
\* registered may arrive meanwhile.
RegisterRequest(t) ==
    /\ pc = "register"
    /\ t \in unregistered
    /\ Arm(t)
    /\ unregistered' = unregistered \ {t}
    /\ pc' = IF unregistered' = {} THEN "next" ELSE "register"
    /\ UNCHANGED <<htc, workVars, cq, sending, call>>

\* Next returns the first event of a context: status_ is still 1.
FetchRequest(c) ==
    /\ pc = "next"
    /\ <<c, TRUE>> \in cq
    /\ status_[c] # 2
    /\ cq' = cq \ {<<c, TRUE>>}
    /\ htc' = c
    /\ pc' = "rearm"
    /\ UNCHANGED <<ctxVars, unregistered, workVars, armed, sending, call>>

\* Mutation: the switch over type_ has no case that deletes the context.
FetchFinished_forgets(c) ==
    /\ pc = "next"
    /\ <<c, TRUE>> \in cq
    /\ status_[c] = 2
    /\ cq' = cq \ {<<c, TRUE>>}
    /\ UNCHANGED <<ctxVars, loopVars, workVars, armed, sending, call>>

\* Next returns the second event of a context: it is deleted by its type.
FetchFinished(c) ==
    /\ pc = "next"
    /\ <<c, TRUE>> \in cq
    /\ status_[c] = 2
    /\ cq' = cq \ {<<c, TRUE>>}
    /\ heap' = heap \ {c}
    /\ UNCHANGED <<type_, status_, call_, loopVars, workVars, armed, sending, call>>

\* GPR_ASSERT(ok) ends the process, whatever the event was for.
FetchFailed(c) ==
    /\ pc = "next"
    /\ <<c, FALSE>> \in cq
    /\ cq' = cq \ {<<c, FALSE>>}
    /\ pc' = "aborted"
    /\ UNCHANGED <<ctxVars, unregistered, htc, workVars, armed, sending, call>>

\* Mutation: the switch over type_ has no case that arms a new context.
Rearm_skips ==
    /\ pc = "rearm"
    /\ pc' = "enqueue"
    /\ UNCHANGED <<ctxVars, unregistered, htc, workVars, rpcVars>>

\* Mutation: the context at hand is armed again instead of a new one.
Rearm_reuses ==
    /\ pc = "rearm"
    /\ armed' = armed \cup {htc}
    /\ pc' = "enqueue"
    /\ UNCHANGED <<ctxVars, unregistered, htc, workVars, cq, sending, call>>

Rearm ==
    /\ pc = "rearm"
    /\ Arm(type_[htc])
    /\ pc' = "enqueue"
    /\ UNCHANGED <<unregistered, htc, workVars, cq, sending, call>>

\* Mutation: the lambda captures the tag after it has been reset.
Enqueue_afterReset ==
    /\ pc = "enqueue"
    /\ htc' = NoCtx
    /\ tasks' = Append(tasks, htc')
    /\ pc' = "next"
    /\ UNCHANGED <<ctxVars, unregistered, work, lost, rpcVars>>

Enqueue ==
    /\ pc = "enqueue"
    /\ tasks' = Append(tasks, htc)
    /\ htc' = NoCtx
    /\ pc' = "next"
    /\ UNCHANGED <<ctxVars, unregistered, work, lost, rpcVars>>

-----------------------------------------------------------------------------
(* The pool's workers and the lambda they execute.                         *)

Take ==
    /\ Alive
    /\ tasks # <<>>
    /\ Cardinality(Busy) < PoolSize
    /\ work' = [work EXCEPT ![Head(tasks)] = "controller"]
    /\ tasks' = Tail(tasks)
    /\ UNCHANGED <<ctxVars, loopVars, lost, rpcVars>>

\* Mutation: a case of the lambda forgets to write status_ = 2.
ControllerReturns_noStatus(c) ==
    /\ Alive
    /\ work[c] = "controller"
    /\ work' = [work EXCEPT ![c] = "finish"]
    /\ UNCHANGED <<ctxVars, loopVars, tasks, lost, rpcVars>>

ControllerReturns(c) ==
    /\ Alive
    /\ work[c] = "controller"
    /\ work' = [work EXCEPT ![c] = "status"]
    /\ UNCHANGED <<ctxVars, loopVars, tasks, lost, rpcVars>>

\* COMError escapes the controller: packaged_task stores it in a future nobody
\* holds, the worker goes on to its next task, the context is never finished.
ControllerThrows(c) ==
    /\ Alive
    /\ work[c] = "controller"
    /\ Cardinality(lost) < MaxLost
    /\ work' = [work EXCEPT ![c] = "none"]
    /\ lost' = lost \cup {c}
    /\ UNCHANGED <<ctxVars, loopVars, tasks, rpcVars>>

\* The controller never returns (importVM spins on an appliance with a warning).
ControllerHangs(c) ==
    /\ Alive
    /\ work[c] = "controller"
    /\ Cardinality({d \in Ctxs : work[d] = "hung"}) < MaxHung
    /\ work' = [work EXCEPT ![c] = "hung"]
    /\ UNCHANGED <<ctxVars, loopVars, tasks, lost, rpcVars>>

SetStatus(c) ==
    /\ Alive
    /\ work[c] = "status"
    /\ status_' = [status_ EXCEPT ![c] = 2]
    /\ work' = [work EXCEPT ![c] = "finish"]
    /\ UNCHANGED <<heap, type_, call_, loopVars, tasks, lost, rpcVars>>

\* Finish starts the answer; the lambda does not touch the context after it.
Finish(c) ==
    /\ Alive
    /\ work[c] = "finish"
    /\ sending' = sending \cup {c}
    /\ work' = [work EXCEPT ![c] = "none"]
    /\ UNCHANGED <<ctxVars, loopVars, tasks, lost, armed, cq, call>>

-----------------------------------------------------------------------------
(* The gRPC runtime (external).                                            *)

\* A call is matched with the context armed for its type; its event is posted.
Match(k) ==
    /\ Alive
    /\ call[k] = "sent"
    /\ \E c \in armed :
        /\ type_[c] = TypeOf[k]
        /\ armed' = armed \ {c}
        /\ call_' = [call_ EXCEPT ![c] = k]
        /\ cq' = cq \cup {<<c, TRUE>>}
    /\ call' = [call EXCEPT ![k] = "accepted"]
    /\ UNCHANGED <<heap, type_, status_, loopVars, workVars, sending>>

\* The answer has gone out and Finish completes with ok.
SendAnswer(c) ==
    /\ Alive
    /\ c \in sending
    /\ call[call_[c]] = "accepted"
    /\ sending' = sending \ {c}
    /\ cq' = cq \cup {<<c, TRUE>>}
    /\ call' = [call EXCEPT ![call_[c]] = "answered"]
    /\ call_' = [call_ EXCEPT ![c] = NoCall]
    /\ UNCHANGED <<heap, type_, status_, loopVars, workVars, armed>>

\* The client has gone: Finish completes, with ok FALSE when the runtime knows
\* that nothing went to the wire and TRUE when it found out too late.
SendToNobody(c) ==
    /\ Alive
    /\ c \in sending
    /\ call[call_[c]] = "cancelled"
    /\ sending' = sending \ {c}
    /\ \E ok \in BOOLEAN : cq' = cq \cup {<<c, ok>>}
    /\ call' = [call EXCEPT ![call_[c]] = "closed"]
    /\ call_' = [call_ EXCEPT ![c] = NoCall]
    /\ UNCHANGED <<heap, type_, status_, loopVars, workVars, armed>>

-----------------------------------------------------------------------------
(* The clients (external).                                                 *)

\* Bound: a call is sent only when there will be an address for the context
\* that is armed in its place (the code's heap has no such limit).
RoomForContext ==
    Cardinality(heap) + Cardinality(unregistered) + Cardinality(Undispatched)
        + Cardinality({k \in Calls : call[k] = "sent"}) < Cardinality(Ctxs)

ClientSends(k) ==
    /\ Alive
    /\ call[k] = "idle"
    /\ RoomForContext
    /\ call' = [call EXCEPT ![k] = "sent"]
    /\ UNCHANGED <<ctxVars, loopVars, workVars, armed, cq, sending>>

ClientCancels(k) ==
    /\ CanCancel /\ Alive
    /\ \/ /\ call[k] = "sent"
          /\ call' = [call EXCEPT ![k] = "closed"]
       \/ /\ call[k] = "accepted"
          /\ call' = [call EXCEPT ![k] = "cancelled"]
    /\ UNCHANGED <<ctxVars, loopVars, workVars, armed, cq, sending>>

ClientReturns(k) ==
    /\ Alive
    /\ call[k] \in {"answered", "closed"}
    /\ call' = [call EXCEPT ![k] = "idle"]
    /\ UNCHANGED <<ctxVars, loopVars, workVars, armed, cq, sending>>

-----------------------------------------------------------------------------

Fetch(c) == FetchRequest(c) \/ FetchFinished(c) \/ FetchFailed(c)

Controller(c) == ControllerReturns(c) \/ ControllerThrows(c) \/ ControllerHangs(c)

Next ==
    \/ \E t \in Types : RegisterRequest(t)
    \/ \E c \in Ctxs : Fetch(c)
    \/ Rearm \/ Enqueue
    \/ Take
    \/ \E c \in Ctxs : Controller(c) \/ SetStatus(c) \/ Finish(c)
    \/ \E c \in Ctxs : SendAnswer(c) \/ SendToNobody(c)
    \/ \E k \in Calls :
          Match(k) \/ ClientSends(k) \/ ClientCancels(k) \/ ClientReturns(k)

Spec == Init /\ [][Next]_vars

\* The loop and the workers are threads that run; a controller returns, throws
\* or hangs; the completion queue is a queue, so every event in it is returned
\* at some time (SF of Fetch), and the runtime keeps the calls of a type in a
\* queue, so each is matched at some time (SF of Match).  Clients owe nothing.
Fairness ==
    /\ \A t \in Types : WF_vars(RegisterRequest(t))
    /\ \A c \in Ctxs : SF_vars(Fetch(c))
    /\ WF_vars(Rearm) /\ WF_vars(Enqueue) /\ WF_vars(Take)
    /\ \A c \in Ctxs : WF_vars(Controller(c)) /\ WF_vars(SetStatus(c) \/ Finish(c))
    /\ \A c \in Ctxs : WF_vars(SendAnswer(c) \/ SendToNobody(c))
    /\ \A k \in Calls : SF_vars(Match(k))

FairSpec == Spec /\ Fairness

-----------------------------------------------------------------------------
(* Properties.                                                             *)

Held == {c \in {htc} : pc \in {"rearm", "enqueue"}}

\* Nothing refers to a deleted context: not the runtime that fills it or sends
\* from it, not the completion queue, the loop, a queued lambda or a worker.
\* The loop deletes on status_ 2 alone (lines 256-348), while workers run.
NoUseAfterFree ==
    armed \cup Announced \cup Held \cup Queued \cup Busy \cup sending \subseteq heap

\* A context is in one place at a time, and in some place unless its lambda
\* threw: it is neither leaked nor owned by two threads at once.
ContextInOnePlace ==
    /\ armed \cap (Announced \cup Held \cup Queued \cup Busy \cup sending \cup lost) = {}
    /\ Announced \cap (Held \cup Queued \cup Busy \cup sending \cup lost) = {}
    /\ Held \cap (Queued \cup Busy \cup sending \cup lost) = {}
    /\ Queued \cap (Busy \cup sending \cup lost) = {}
    /\ Busy \cap (sending \cup lost) = {}
    /\ sending \cap lost = {}
    /\ \A i, j \in DOMAIN tasks : tasks[i] = tasks[j] => i = j
    /\ Alive => heap \subseteq armed \cup Announced \cup Held \cup Queued
                               \cup Busy \cup sending \cup lost

\* Each registered type always has exactly one context that listens for its
\* next call, or whose call the loop has still to dispatch (lines 350-507):
\* no type goes deaf and none is armed twice.
OneListenerPerType ==
    Alive => \A t \in Types \ unregistered :
        \E c \in armed \cup Undispatched :
            /\ type_[c] = t
            /\ \A d \in armed \cup Undispatched : type_[d] = t => d = c

\* status_ tells the loop what an event is for: until it is 2 the context holds
\* an unanswered call nobody else holds, and an event that finds it 2 comes
\* after the answer (handleType.h:15-17, written by a worker, read by the loop).
StatusTellsTheEvent ==
    /\ \A c \in Announced : status_[c] = 2 <=> call_[c] = NoCall
    /\ \A c \in Queued \cup Busy \cup sending : call_[c] # NoCall
    /\ \A c \in heap : call_[c] # NoCall => call[call_[c]] \in {"accepted", "cancelled"}
    /\ \A c, d \in heap : call_[c] = call_[d] /\ call_[c] # NoCall => c = d

\* How far a context is in its place agrees with its status_ and its call.
StageInv ==
    /\ \A c \in armed : status_[c] = 1 /\ call_[c] = NoCall
    /\ \A c \in Held \cup Queued \cup lost : status_[c] = 1 /\ call_[c] # NoCall
    /\ \A c \in Busy : status_[c] = 2 <=> work[c] = "finish"
    /\ \A c \in sending : status_[c] = 2
    /\ \A c \in Ctxs : <<c, FALSE>> \in cq => status_[c] = 2 /\ <<c, TRUE>> \notin cq
    /\ lost \subseteq heap

\* The loop has a tag while it handles an event, and runs once all types are
\* registered, each of them by a first context.
LoopInv ==
    /\ pc \in {"rearm", "enqueue"} => htc \in Ctxs
    /\ \A c \in heap : type_[c] \notin unregistered
    /\ pc = "register" <=> unregistered # {}

\* The inductive invariant behind the theorems of VcaService_proofs.
IInv ==
    /\ TypeOK
    /\ NoUseAfterFree
    /\ ContextInOnePlace
    /\ StageInv
    /\ LoopInv
    /\ StatusTellsTheEvent
    /\ OneListenerPerType

\* Each call's controller function runs at most once, answers come after it has
\* returned and at most once: the service is the abstract one.
RunOf(k) ==
    LET C == {c \in heap : call_[c] = k}
    IN  IF \E c \in C : work[c] \in {"controller", "hung"} \/ c \in lost THEN "running"
        ELSE IF \E c \in C : work[c] \in {"status", "finish"} \/ c \in sending
        THEN "returned" ELSE "notYet"

Abstract == INSTANCE CallService WITH run <- [k \in Calls |-> RunOf(k)]
ImplementsCallService == Abstract!CallSpec

\* The service uses its pool the way TaskPool says a pool behaves (what it takes
\* to be fair of it is ImplementsFairPool of VcaServer).
Pool == INSTANCE TaskPool WITH
            Tasks <- Ctxs, queue <- tasks, running <- Busy, closed <- FALSE
UsesTaskPool == Pool!PoolInit /\ [][Pool!PoolNext]_(Pool!poolVars)

\* A call that was sent is answered, unless its own controller throws or hangs
\* or its client gives up: controllers that hang or throw, fewer of them than
\* there are workers, do not keep the others from being served.
Stuck(k) == \E c \in heap : call_[c] = k /\ (c \in lost \/ work[c] = "hung")
OthersAreServed ==
    \A k \in Calls :
        call[k] = "sent" ~> call[k] \in {"answered", "cancelled", "closed"} \/ Stuck(k)

\* What the code and its comments say of the service.

\* GPR_ASSERT(ok) (line 250): an event in the queue always has ok TRUE.
EventsAreOk == \A c \in Ctxs : <<c, FALSE>> \notin cq

\* "processing is in two steps: 1 handle the request and build the response
\* data; 2 send the response" (handleType.h:15): what step 1 is entered for
\* gets to step 2.
HandledRequestIsAnswered ==
    \A c \in Ctxs : work[c] = "controller" ~> c \in sending

=============================================================================
