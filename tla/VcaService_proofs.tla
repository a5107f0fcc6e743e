-------------------------- MODULE VcaService_proofs --------------------------
(***************************************************************************)
(* What holds of the server's request contexts for every set of types,     *)
(* calls and addresses and every pool size.  The inductive invariant is    *)
(* IInv of VcaService.  For each action a first step says how the action   *)
(* moves contexts between their places; the conjuncts of IInv follow.      *)
(***************************************************************************)
EXTENDS VcaService, QueueLemmas, TLAPS

\* The queue after a push and after a pop.
LEMMA QueuedAfterAppend ==
    ASSUME TypeOK, NEW c \in Ctxs, c \notin Queued, tasks' = Append(tasks, c),
           \A i, j \in DOMAIN tasks : tasks[i] = tasks[j] => i = j
    PROVE  /\ tasks' \in Seq(Ctxs) /\ Queued' = Queued \cup {c}
           /\ \A i, j \in DOMAIN tasks' : tasks'[i] = tasks'[j] => i = j
<1>1. Queued = Members(tasks) /\ Queued' = Members(tasks')
  BY DEF Queued, Members
<1>2. Distinct(tasks) /\ (Distinct(tasks') => \A i, j \in DOMAIN tasks' :
                              tasks'[i] = tasks'[j] => i = j)
  BY DEF Distinct
<1>3. tasks \in Seq(Ctxs)
  BY DEF TypeOK
<1>4. QED
  BY <1>1, <1>2, <1>3, PushMembers

LEMMA QueuedAfterTail ==
    ASSUME TypeOK, tasks # <<>>, tasks' = Tail(tasks),
           \A i, j \in DOMAIN tasks : tasks[i] = tasks[j] => i = j
    PROVE  /\ tasks' \in Seq(Ctxs) /\ Head(tasks) \in Ctxs
           /\ Head(tasks) \in Queued /\ Queued' = Queued \ {Head(tasks)}
           /\ \A i, j \in DOMAIN tasks' : tasks'[i] = tasks'[j] => i = j
<1>1. Queued = Members(tasks) /\ Queued' = Members(Tail(tasks))
  BY DEF Queued, Members
<1>2. Distinct(tasks) /\ (Distinct(tasks') => \A i, j \in DOMAIN tasks' :
                              tasks'[i] = tasks'[j] => i = j)
  BY DEF Distinct
<1>3. QED
  BY <1>1, <1>2, PopMembers DEF TypeOK

-----------------------------------------------------------------------------
(* The loop.                                                               *)

LEMMA FetchRequestInv ==
    ASSUME ServiceAssumption, IInv, NEW c \in Ctxs, FetchRequest(c)
    PROVE  IInv'
<1> USE DEF IInv, FetchRequest, ctxVars, workVars
<1>1. TypeOK'
  BY DEF TypeOK
<1>2. Announced' = Announced \ {c} /\ c \in Announced
  <2>1. <<c, FALSE>> \notin cq /\ <<c, TRUE>> \notin cq' /\ <<c, FALSE>> \notin cq'
    BY DEF StageInv
  <2>2. \A d \in Ctxs, ok \in BOOLEAN : d # c => (<<d, ok>> \in cq' <=> <<d, ok>> \in cq)
    OBVIOUS
  <2>3. QED
    BY <2>1, <2>2 DEF Announced
<1>3. Held = {} /\ Held' = {c} /\ Queued' = Queued /\ Busy' = Busy
  BY DEF Held, Queued, Busy
<1>4. Undispatched' = Undispatched
  BY <1>2 DEF Undispatched, TypeOK
<1>5. NoUseAfterFree'
  BY <1>2, <1>3 DEF NoUseAfterFree
<1>6. ContextInOnePlace'
  BY <1>2, <1>3 DEF ContextInOnePlace, Alive
<1>7. StageInv'
  <2>1. status_[c] = 1 /\ call_[c] # NoCall
    BY <1>2 DEF StatusTellsTheEvent, TypeOK
  <2>2. QED
    BY <1>2, <1>3, <2>1 DEF StageInv
<1>8. StatusTellsTheEvent'
  BY <1>2, <1>3 DEF StatusTellsTheEvent
<1>9. OneListenerPerType'
  BY <1>4 DEF OneListenerPerType, Alive
<1>10. LoopInv'
  BY DEF LoopInv
<1>11. QED
  BY <1>1, <1>10, <1>5, <1>6, <1>7, <1>8, <1>9

\* Arming puts a fresh context, and nothing else, among the armed ones.
LEMMA ArmPlaces ==
    ASSUME IInv, NEW t \in Types, NEW c \in Ctxs \ heap,
           heap' = heap \cup {c}, armed' = armed \cup {c},
           type_' = [type_ EXCEPT ![c] = t],
           status_' = [status_ EXCEPT ![c] = 1],
           call_' = [call_ EXCEPT ![c] = NoCall],
           UNCHANGED <<workVars, cq, sending, call>>
    PROVE  /\ c \notin armed \cup Announced \cup Held \cup Queued \cup Busy
                           \cup sending \cup lost
           /\ Announced' = Announced /\ Queued' = Queued /\ Busy' = Busy
           /\ \A d \in Ctxs \ {c} : /\ type_'[d] = type_[d] /\ status_'[d] = status_[d]
                                    /\ call_'[d] = call_[d]
           /\ type_'[c] = t /\ status_'[c] = 1 /\ call_'[c] = NoCall
           /\ StatusTellsTheEvent'
           /\ Held' = Held => StageInv'
<1> USE DEF IInv, TypeOK
<1>1. c \notin armed \cup Announced \cup Held \cup Queued \cup Busy \cup sending \cup lost
  BY DEF NoUseAfterFree, StageInv
<1>2. Announced' = Announced /\ Queued' = Queued /\ Busy' = Busy
  BY DEF Announced, Queued, Busy, workVars
<1>3. ASSUME NEW d \in Ctxs, d # c
      PROVE  type_'[d] = type_[d] /\ status_'[d] = status_[d] /\ call_'[d] = call_[d]
  BY <1>3 DEF TypeOK
<1>4. type_'[c] = t /\ status_'[c] = 1 /\ call_'[c] = NoCall
  OBVIOUS
<1>5. Announced \cup Queued \cup Busy \cup sending \cup lost \cup armed \subseteq Ctxs \ {c}
  BY <1>1 DEF Announced, Busy, NoUseAfterFree
<1> HIDE DEF IInv, TypeOK
<1>6. StatusTellsTheEvent'
  <2>1. \A d \in heap : call_'[d] = call_[d]
    BY <1>3 DEF IInv, TypeOK
  <2>2. (\A d \in Announced : status_[d] = 2 <=> call_[d] = NoCall)'
    BY <1>2, <1>3, <1>5 DEF StatusTellsTheEvent, IInv
  <2>3. (\A d \in Queued \cup Busy \cup sending : call_[d] # NoCall)'
    BY <1>2, <1>3, <1>5 DEF StatusTellsTheEvent, IInv
  <2>4. QED
    BY <2>1, <2>2, <2>3, <1>4 DEF StatusTellsTheEvent, IInv
<1>7. /\ \A d \in armed' : status_'[d] = 1 /\ call_'[d] = NoCall
      /\ \A d \in Held \cup Queued' \cup lost' : status_'[d] = 1 /\ call_'[d] # NoCall
      /\ \A d \in Busy' : status_'[d] = 2 <=> work'[d] = "finish"
      /\ \A d \in sending' : status_'[d] = 2
      /\ \A d \in Ctxs : <<d, FALSE>> \in cq' => status_'[d] = 2 /\ <<d, TRUE>> \notin cq'
      /\ lost' \subseteq heap'
  <2>1. Held \subseteq Ctxs \ {c}
    BY <1>1 DEF Held, IInv, LoopInv
  <2>2. UNCHANGED <<work, lost, cq, sending>>
    BY DEF workVars
  <2>3. \A d \in Ctxs : <<d, FALSE>> \in cq => d # c
    BY <1>1 DEF Announced
  <2>4. QED
    BY <2>1, <2>2, <2>3, <1>2, <1>3, <1>4, <1>5 DEF StageInv, IInv
<1>8. QED
  BY <1>1, <1>2, <1>3, <1>4, <1>6, <1>7 DEF StageInv

LEMMA RegisterRequestInv ==
    ASSUME ServiceAssumption, IInv, NEW t \in Types, RegisterRequest(t)
    PROVE  IInv'
<1> USE DEF IInv, RegisterRequest, ctxVars, workVars
<1>0. PICK c \in Ctxs \ heap :
        /\ heap' = heap \cup {c} /\ armed' = armed \cup {c}
        /\ type_' = [type_ EXCEPT ![c] = t]
        /\ status_' = [status_ EXCEPT ![c] = 1]
        /\ call_' = [call_ EXCEPT ![c] = NoCall]
  BY DEF Arm
<1>1. TypeOK'
  BY <1>0 DEF TypeOK
<1>2. /\ c \notin armed \cup Announced \cup Held \cup Queued \cup Busy \cup sending \cup lost
      /\ Announced' = Announced /\ Queued' = Queued /\ Busy' = Busy
      /\ \A d \in Ctxs \ {c} : /\ type_'[d] = type_[d] /\ status_'[d] = status_[d]
                               /\ call_'[d] = call_[d]
      /\ type_'[c] = t
      /\ StatusTellsTheEvent'
      /\ Held' = Held => StageInv'
  BY <1>0, ArmPlaces
<1>3. Held = {} /\ Held' = {}
  BY DEF Held
<1>4. Undispatched' = Undispatched
  BY <1>2 DEF Undispatched, Announced
<1>5. NoUseAfterFree'
  BY <1>0, <1>2, <1>3 DEF NoUseAfterFree
<1>6. ContextInOnePlace'
  BY <1>0, <1>2, <1>3 DEF ContextInOnePlace, Alive
<1>7. StageInv'
  BY <1>2, <1>3
<1>8. LoopInv'
  BY <1>0, <1>2 DEF LoopInv, TypeOK
<1>9. OneListenerPerType'
  <2> DEFINE L == armed \cup Undispatched
  <2>1. L' = L \cup {c} /\ c \notin L /\ L \subseteq Ctxs
    BY <1>0, <1>2, <1>4 DEF Undispatched, Announced, TypeOK
  <2>2. \A d \in L : d \in heap /\ type_[d] # t /\ type_'[d] = type_[d]
    BY <1>2, <2>1 DEF LoopInv, NoUseAfterFree, Undispatched, Held
  <2>3. \A u \in Types \ unregistered : \E e \in L :
          type_[e] = u /\ \A d \in L : type_[d] = u => d = e
    BY DEF OneListenerPerType, Alive
  <2>4. \A u \in Types \ unregistered' : u = t \/ u \in Types \ unregistered
    OBVIOUS
  <2> HIDE DEF L
  <2>5. \A u \in Types \ unregistered' : \E e \in L' :
          type_'[e] = u /\ \A d \in L' : type_'[d] = u => d = e
    BY <1>2, <2>1, <2>2, <2>3, <2>4
  <2>6. QED
    BY <2>5 DEF OneListenerPerType, L
<1>10. QED
  BY <1>1, <1>2, <1>5, <1>6, <1>7, <1>8, <1>9

LEMMA FetchFinishedInv ==
    ASSUME ServiceAssumption, IInv, NEW c \in Ctxs, FetchFinished(c)
    PROVE  IInv'
<1> USE DEF IInv, FetchFinished, loopVars, workVars
<1>1. TypeOK'
  BY DEF TypeOK
<1>2. Announced' = Announced \ {c} /\ c \in Announced
  <2>1. <<c, FALSE>> \notin cq /\ <<c, TRUE>> \notin cq' /\ <<c, FALSE>> \notin cq'
    BY DEF StageInv
  <2>2. \A d \in Ctxs, ok \in BOOLEAN : d # c => (<<d, ok>> \in cq' <=> <<d, ok>> \in cq)
    OBVIOUS
  <2>3. QED
    BY <2>1, <2>2 DEF Announced
<1>3. Held = {} /\ Held' = {} /\ Queued' = Queued /\ Busy' = Busy
  BY DEF Held, Queued, Busy
<1>4. Undispatched' = Undispatched
  BY <1>2 DEF Undispatched, TypeOK
<1>5. NoUseAfterFree'
  BY <1>2, <1>3 DEF NoUseAfterFree, ContextInOnePlace
<1>6. ContextInOnePlace'
  BY <1>2, <1>3 DEF ContextInOnePlace, Alive
<1>7. StageInv'
  <2>1. c \notin lost
    BY <1>2 DEF ContextInOnePlace
  <2>2. QED
    BY <1>2, <1>3, <2>1 DEF StageInv
<1>8. StatusTellsTheEvent'
  BY <1>2, <1>3 DEF StatusTellsTheEvent
<1>9. OneListenerPerType'
  BY <1>4 DEF OneListenerPerType, Alive
<1>10. LoopInv'
  BY DEF LoopInv
<1>11. QED
  BY <1>1, <1>10, <1>5, <1>6, <1>7, <1>8, <1>9

LEMMA FetchFailedInv ==
    ASSUME ServiceAssumption, IInv, NEW c \in Ctxs, FetchFailed(c)
    PROVE  IInv'
<1> USE DEF IInv, FetchFailed, ctxVars, workVars
<1>1. TypeOK'
  BY DEF TypeOK
<1>2. Announced' \subseteq Announced
  BY DEF Announced
<1>3. Held = {} /\ Held' = {} /\ Queued' = Queued /\ Busy' = Busy
  BY DEF Held, Queued, Busy
<1>4. NoUseAfterFree'
  BY <1>2, <1>3 DEF NoUseAfterFree
<1>5. ContextInOnePlace'
  BY <1>2, <1>3 DEF ContextInOnePlace, Alive
<1>6. StageInv'
  BY <1>2, <1>3 DEF StageInv
<1>7. StatusTellsTheEvent'
  BY <1>2, <1>3 DEF StatusTellsTheEvent
<1>8. OneListenerPerType'
  BY DEF OneListenerPerType, Alive
<1>9. LoopInv'
  BY DEF LoopInv
<1>10. QED
  BY <1>1, <1>9, <1>4, <1>5, <1>6, <1>7, <1>8

LEMMA RearmInv ==
    ASSUME ServiceAssumption, IInv, Rearm
    PROVE  IInv'
<1> USE DEF IInv, Rearm, ctxVars, workVars
<1>0. PICK c \in Ctxs \ heap :
        /\ heap' = heap \cup {c} /\ armed' = armed \cup {c}
        /\ type_' = [type_ EXCEPT ![c] = type_[htc]]
        /\ status_' = [status_ EXCEPT ![c] = 1]
        /\ call_' = [call_ EXCEPT ![c] = NoCall]
  BY DEF Arm
<1>00. htc \in Ctxs /\ type_[htc] \in Types /\ htc # c /\ htc \in Held
  BY <1>0 DEF LoopInv, TypeOK, Held, NoUseAfterFree
<1>1. TypeOK'
  BY <1>0, <1>00 DEF TypeOK
<1>2. /\ c \notin armed \cup Announced \cup Held \cup Queued \cup Busy \cup sending \cup lost
      /\ Announced' = Announced /\ Queued' = Queued /\ Busy' = Busy
      /\ \A d \in Ctxs \ {c} : /\ type_'[d] = type_[d] /\ status_'[d] = status_[d]
                               /\ call_'[d] = call_[d]
      /\ type_'[c] = type_[htc]
      /\ StatusTellsTheEvent'
      /\ Held' = Held => StageInv'
  BY <1>0, <1>00, ArmPlaces
<1>3. Held = {htc} /\ Held' = Held
  BY DEF Held
<1>4. Undispatched' = Undispatched \ {htc} /\ htc \in Undispatched
  BY <1>2, <1>3 DEF Undispatched, Announced, ContextInOnePlace
<1>5. NoUseAfterFree'
  BY <1>0, <1>2, <1>3 DEF NoUseAfterFree
<1>6. ContextInOnePlace'
  BY <1>0, <1>2, <1>3 DEF ContextInOnePlace, Alive
<1>7. StageInv'
  BY <1>2, <1>3
<1>8. LoopInv'
  BY <1>0, <1>2, <1>00 DEF LoopInv, TypeOK
<1>9. OneListenerPerType'
  <2> DEFINE L == armed \cup Undispatched
  <2>1. /\ L' = (L \ {htc}) \cup {c} /\ htc \in L /\ c \notin L /\ L \subseteq Ctxs
    <3>1. htc \notin armed
      BY <1>00 DEF ContextInOnePlace
    <3>2. c \notin Undispatched /\ L \subseteq Ctxs
      BY <1>00, <1>2 DEF Undispatched, Announced, TypeOK
    <3>3. QED
      BY <1>0, <1>00, <1>2, <1>4, <3>1, <3>2
  <2>2. \A d \in L : type_'[d] = type_[d]
    BY <1>2, <2>1
  <2>3. \A u \in Types \ unregistered : \E e \in L :
          type_[e] = u /\ \A d \in L : type_[d] = u => d = e
    BY DEF OneListenerPerType, Alive
  <2> HIDE DEF L
  <2>4. \A u \in Types \ unregistered : \E e \in L' :
          type_'[e] = u /\ \A d \in L' : type_'[d] = u => d = e
    BY <1>2, <2>1, <2>2, <2>3
  <2>5. QED
    BY <2>4 DEF OneListenerPerType, L
<1>10. QED
  BY <1>1, <1>2, <1>5, <1>6, <1>7, <1>8, <1>9

LEMMA EnqueueInv ==
    ASSUME ServiceAssumption, IInv, Enqueue
    PROVE  IInv'
<1> USE DEF IInv, Enqueue, ctxVars, rpcVars
<1>0. Held = {htc} /\ Held' = {} /\ htc \in Ctxs /\ htc \notin Queued
  BY DEF Held, LoopInv, ContextInOnePlace
<1>1. /\ tasks' \in Seq(Ctxs) /\ Queued' = Queued \cup {htc}
      /\ \A i, j \in DOMAIN tasks' : tasks'[i] = tasks'[j] => i = j
  BY <1>0, QueuedAfterAppend DEF ContextInOnePlace
<1>2. TypeOK'
  BY <1>1 DEF TypeOK
<1>3. Announced' = Announced /\ Busy' = Busy
  BY DEF Announced, Busy
<1>4. Undispatched' = Undispatched
  BY <1>3 DEF Undispatched
<1>5. NoUseAfterFree'
  BY <1>0, <1>1, <1>3 DEF NoUseAfterFree
<1>6. ContextInOnePlace'
  BY <1>0, <1>1, <1>3 DEF ContextInOnePlace, Alive
<1>7. StageInv'
  BY <1>0, <1>1, <1>3 DEF StageInv
<1>8. StatusTellsTheEvent'
  BY <1>0, <1>1, <1>3 DEF StatusTellsTheEvent, StageInv
<1>9. OneListenerPerType'
  BY <1>4 DEF OneListenerPerType, Alive
<1>10. LoopInv'
  BY DEF LoopInv
<1>11. QED
  BY <1>2, <1>10, <1>5, <1>6, <1>7, <1>8, <1>9

-----------------------------------------------------------------------------
(* The workers.                                                            *)

LEMMA TakeInv ==
    ASSUME ServiceAssumption, IInv, Take
    PROVE  IInv'
<1> USE DEF IInv, Take, ctxVars, loopVars, rpcVars
<1> DEFINE h == Head(tasks)
<1>1. /\ tasks' \in Seq(Ctxs) /\ h \in Ctxs /\ h \in Queued /\ Queued' = Queued \ {h}
      /\ \A i, j \in DOMAIN tasks' : tasks'[i] = tasks'[j] => i = j
  BY QueuedAfterTail DEF ContextInOnePlace
<1> HIDE DEF h
<1>2. work' = [work EXCEPT ![h] = "controller"]
  BY DEF h
<1>3. TypeOK'
  BY <1>1, <1>2 DEF TypeOK, WorkPC
<1>4. /\ Announced' = Announced /\ Held' = Held /\ Undispatched' = Undispatched
      /\ Busy' = Busy \cup {h} /\ h \notin Busy
  BY <1>1, <1>2 DEF Announced, Held, Undispatched, Busy, TypeOK, ContextInOnePlace
<1>5. NoUseAfterFree'
  BY <1>1, <1>4 DEF NoUseAfterFree
<1>6. ContextInOnePlace'
  BY <1>1, <1>4 DEF ContextInOnePlace, Alive
<1>7. StageInv'
  <2>1. status_[h] = 1 /\ work'[h] = "controller"
    BY <1>1, <1>2 DEF StageInv, TypeOK
  <2>2. \A d \in Busy : work'[d] = work[d]
    BY <1>2, <1>4 DEF TypeOK, Busy
  <2>3. \A d \in Busy' : status_'[d] = 2 <=> work'[d] = "finish"
    BY <1>4, <2>1, <2>2 DEF StageInv
  <2>4. \A d \in Held' \cup Queued' \cup lost' : status_'[d] = 1 /\ call_'[d] # NoCall
    BY <1>1, <1>4 DEF StageInv
  <2>5. QED
    BY <2>3, <2>4 DEF StageInv
<1>8. StatusTellsTheEvent'
  BY <1>1, <1>4 DEF StatusTellsTheEvent
<1>9. OneListenerPerType'
  BY <1>4 DEF OneListenerPerType, Alive
<1>10. LoopInv'
  BY DEF LoopInv
<1>11. QED
  BY <1>3, <1>5, <1>6, <1>7, <1>8, <1>9, <1>10

LEMMA ControllerReturnsInv ==
    ASSUME ServiceAssumption, IInv, NEW c \in Ctxs, ControllerReturns(c)
    PROVE  IInv'
<1> USE DEF IInv, ControllerReturns, ctxVars, loopVars, rpcVars
<1>1. TypeOK'
  BY DEF TypeOK, WorkPC
<1>2. /\ Announced' = Announced /\ Held' = Held /\ Undispatched' = Undispatched
      /\ Queued' = Queued /\ Busy' = Busy
  BY DEF Announced, Held, Undispatched, Queued, Busy, TypeOK
<1>3. NoUseAfterFree'
  BY <1>2 DEF NoUseAfterFree
<1>4. ContextInOnePlace'
  BY <1>2 DEF ContextInOnePlace, Alive
<1>5. StageInv'
  <2>1. c \in Busy /\ work'[c] = "status" /\ \A d \in Ctxs : d # c => work'[d] = work[d]
    BY DEF Busy, TypeOK
  <2>2. \A d \in Busy : status_[d] = 2 <=> work'[d] = "finish"
    BY <2>1 DEF StageInv, Busy
  <2>3. QED
    BY <1>2, <2>2 DEF StageInv
<1>6. StatusTellsTheEvent'
  BY <1>2 DEF StatusTellsTheEvent
<1>7. OneListenerPerType'
  BY <1>2 DEF OneListenerPerType, Alive
<1>8. LoopInv'
  BY DEF LoopInv
<1>9. QED
  BY <1>1, <1>3, <1>4, <1>5, <1>6, <1>7, <1>8

LEMMA ControllerHangsInv ==
    ASSUME ServiceAssumption, IInv, NEW c \in Ctxs, ControllerHangs(c)
    PROVE  IInv'
<1> USE DEF IInv, ControllerHangs, ctxVars, loopVars, rpcVars
<1>1. TypeOK'
  BY DEF TypeOK, WorkPC
<1>2. /\ Announced' = Announced /\ Held' = Held /\ Undispatched' = Undispatched
      /\ Queued' = Queued /\ Busy' = Busy
  BY DEF Announced, Held, Undispatched, Queued, Busy, TypeOK
<1>3. NoUseAfterFree'
  BY <1>2 DEF NoUseAfterFree
<1>4. ContextInOnePlace'
  BY <1>2 DEF ContextInOnePlace, Alive
<1>5. StageInv'
  <2>1. c \in Busy /\ work'[c] = "hung" /\ \A d \in Ctxs : d # c => work'[d] = work[d]
    BY DEF Busy, TypeOK
  <2>2. \A d \in Busy : status_[d] = 2 <=> work'[d] = "finish"
    BY <2>1 DEF StageInv, Busy
  <2>3. QED
    BY <1>2, <2>2 DEF StageInv
<1>6. StatusTellsTheEvent'
  BY <1>2 DEF StatusTellsTheEvent
<1>7. OneListenerPerType'
  BY <1>2 DEF OneListenerPerType, Alive
<1>8. LoopInv'
  BY DEF LoopInv
<1>9. QED
  BY <1>1, <1>3, <1>4, <1>5, <1>6, <1>7, <1>8

LEMMA ControllerThrowsInv ==
    ASSUME ServiceAssumption, IInv, NEW c \in Ctxs, ControllerThrows(c)
    PROVE  IInv'
<1> USE DEF IInv, ControllerThrows, ctxVars, loopVars, rpcVars
<1>1. TypeOK'
  BY DEF TypeOK, WorkPC
<1>2. /\ Announced' = Announced /\ Held' = Held /\ Undispatched' = Undispatched
      /\ Queued' = Queued /\ Busy' = Busy \ {c} /\ c \in Busy
  BY DEF Announced, Held, Undispatched, Queued, Busy, TypeOK
<1>3. NoUseAfterFree'
  BY <1>2 DEF NoUseAfterFree
<1>4. ContextInOnePlace'
  BY <1>2 DEF ContextInOnePlace, Alive
<1>5. StageInv'
  <2>1. \A d \in Busy \ {c} : work'[d] = work[d]
    BY DEF Busy, TypeOK
  <2>2. status_[c] = 1 /\ call_[c] # NoCall /\ c \in heap
    BY <1>2 DEF StageInv, StatusTellsTheEvent, NoUseAfterFree, TypeOK
  <2>3. QED
    BY <1>2, <2>1, <2>2 DEF StageInv
<1>6. StatusTellsTheEvent'
  BY <1>2 DEF StatusTellsTheEvent
<1>7. OneListenerPerType'
  BY <1>2 DEF OneListenerPerType, Alive
<1>8. LoopInv'
  BY DEF LoopInv
<1>9. QED
  BY <1>1, <1>3, <1>4, <1>5, <1>6, <1>7, <1>8

LEMMA SetStatusInv ==
    ASSUME ServiceAssumption, IInv, NEW c \in Ctxs, SetStatus(c)
    PROVE  IInv'
<1> USE DEF IInv, SetStatus, loopVars, rpcVars
<1>1. TypeOK'
  BY DEF TypeOK, WorkPC
<1>2. c \in Busy /\ c \notin armed \cup Announced \cup Held \cup Queued \cup sending \cup lost
  BY DEF Busy, ContextInOnePlace
<1>3. /\ status_'[c] = 2 /\ work'[c] = "finish"
      /\ \A d \in Ctxs : d # c => status_'[d] = status_[d] /\ work'[d] = work[d]
  BY DEF TypeOK
<1>4. /\ Announced' = Announced /\ Held' = Held /\ Queued' = Queued /\ Busy' = Busy
  BY DEF Announced, Held, Queued, Busy, TypeOK
<1>5. Undispatched' = Undispatched
  BY <1>2, <1>3, <1>4 DEF Undispatched, Announced
<1>6. NoUseAfterFree'
  BY <1>4 DEF NoUseAfterFree
<1>7. ContextInOnePlace'
  BY <1>4 DEF ContextInOnePlace, Alive
<1>8. StageInv'
  <2>1. \A d \in Ctxs : <<d, FALSE>> \in cq => d # c
    BY <1>2 DEF Announced
  <2>2. Held \subseteq Ctxs
    BY DEF Held, LoopInv
  <2>3. armed \cup Queued \cup lost \cup sending \cup Busy \subseteq Ctxs
    BY DEF TypeOK, NoUseAfterFree
  <2>4. \A d \in armed' : status_'[d] = 1 /\ call_'[d] = NoCall
    BY <1>2, <1>3, <2>3 DEF StageInv
  <2>5. \A d \in Held' \cup Queued' \cup lost' : status_'[d] = 1 /\ call_'[d] # NoCall
    BY <1>2, <1>3, <1>4, <2>2, <2>3 DEF StageInv
  <2>6. \A d \in Busy' : status_'[d] = 2 <=> work'[d] = "finish"
    BY <1>3, <1>4, <2>3 DEF StageInv
  <2>7. \A d \in sending' : status_'[d] = 2
    BY <1>2, <1>3, <2>3 DEF StageInv
  <2>8. \A d \in Ctxs : <<d, FALSE>> \in cq' => status_'[d] = 2 /\ <<d, TRUE>> \notin cq'
    BY <1>3, <2>1 DEF StageInv
  <2>9. QED
    BY <2>4, <2>5, <2>6, <2>7, <2>8 DEF StageInv
<1>9. StatusTellsTheEvent'
  BY <1>2, <1>3, <1>4 DEF StatusTellsTheEvent, Announced
<1>10. OneListenerPerType'
  BY <1>5 DEF OneListenerPerType, Alive
<1>11. LoopInv'
  BY DEF LoopInv
<1>12. QED
  BY <1>1, <1>6, <1>7, <1>8, <1>9, <1>10, <1>11

LEMMA FinishInv ==
    ASSUME ServiceAssumption, IInv, NEW c \in Ctxs, Finish(c)
    PROVE  IInv'
<1> USE DEF IInv, Finish, ctxVars, loopVars
<1>1. TypeOK'
  BY DEF TypeOK, WorkPC
<1>2. /\ Announced' = Announced /\ Held' = Held /\ Undispatched' = Undispatched
      /\ Queued' = Queued /\ Busy' = Busy \ {c} /\ c \in Busy
  BY DEF Announced, Held, Undispatched, Queued, Busy, TypeOK
<1>3. NoUseAfterFree'
  BY <1>2 DEF NoUseAfterFree
<1>4. ContextInOnePlace'
  BY <1>2 DEF ContextInOnePlace, Alive
<1>5. StageInv'
  <2>1. \A d \in Busy \ {c} : work'[d] = work[d]
    BY DEF Busy, TypeOK
  <2>2. status_[c] = 2
    BY <1>2 DEF StageInv
  <2>3. QED
    BY <1>2, <2>1, <2>2 DEF StageInv
<1>6. StatusTellsTheEvent'
  BY <1>2 DEF StatusTellsTheEvent
<1>7. OneListenerPerType'
  BY <1>2 DEF OneListenerPerType, Alive
<1>8. LoopInv'
  BY DEF LoopInv
<1>9. QED
  BY <1>1, <1>3, <1>4, <1>5, <1>6, <1>7, <1>8

-----------------------------------------------------------------------------
(* The runtime and the clients.                                            *)

LEMMA MatchInv ==
    ASSUME ServiceAssumption, IInv, NEW k \in Calls, Match(k)
    PROVE  IInv'
<1> USE DEF IInv, Match, loopVars, workVars
<1>0. PICK c \in armed : /\ type_[c] = TypeOf[k]
                         /\ armed' = armed \ {c}
                         /\ call_' = [call_ EXCEPT ![c] = k]
                         /\ cq' = cq \cup {<<c, TRUE>>}
  OBVIOUS
<1>1. TypeOK'
  <2>1. <<c, TRUE>> \in Ctxs \X BOOLEAN /\ k \in Calls \cup {NoCall}
    BY DEF TypeOK
  <2>2. /\ call_' \in [Ctxs -> Calls \cup {NoCall}] /\ cq' \in SUBSET (Ctxs \X BOOLEAN)
        /\ call' \in [Calls -> CallStates] /\ armed' \in SUBSET Ctxs
    BY <1>0, <2>1 DEF TypeOK, CallStates
  <2>3. QED
    BY <2>2 DEF TypeOK
<1>2. /\ c \in Ctxs /\ c \in heap /\ status_[c] = 1 /\ call_[c] = NoCall
      /\ c \notin Announced \cup Held \cup Queued \cup Busy \cup sending \cup lost
  BY <1>0 DEF TypeOK, NoUseAfterFree, StageInv, ContextInOnePlace
<1>3. k \in Calls /\ k # NoCall
  BY DEF ServiceAssumption
<1>4. /\ call_'[c] = k
      /\ \A d \in Ctxs : d # c => call_'[d] = call_[d]
  BY <1>0, <1>2 DEF TypeOK
<1>5. /\ Announced' = Announced \cup {c} /\ Held' = Held
      /\ Queued' = Queued /\ Busy' = Busy
  <2>1. \A d \in Ctxs, ok \in BOOLEAN :
            <<d, ok>> \in cq' <=> <<d, ok>> \in cq \/ (d = c /\ ok = TRUE)
    BY <1>0
  <2>2. Announced' = Announced \cup {c}
    BY <1>2, <2>1 DEF Announced
  <2>3. QED
    BY <2>2 DEF Held, Queued, Busy
<1>6. Undispatched' = Undispatched \cup {c}
  BY <1>2, <1>5 DEF Undispatched
<1>7. /\ Announced \subseteq Ctxs /\ Held \subseteq Ctxs /\ Busy \subseteq Ctxs
      /\ Queued \cup armed \cup sending \cup lost \subseteq Ctxs
  BY DEF Announced, Held, LoopInv, Busy, TypeOK, NoUseAfterFree
<1>8. NoUseAfterFree'
  BY <1>0, <1>2, <1>5 DEF NoUseAfterFree
<1>9. ContextInOnePlace'
  BY <1>0, <1>2, <1>5 DEF ContextInOnePlace, Alive
<1>10. StageInv'
  <2>1. \A d \in armed' : status_'[d] = 1 /\ call_'[d] = NoCall
    BY <1>0, <1>4, <1>7 DEF StageInv
  <2>2. \A d \in Held' \cup Queued' \cup lost' : status_'[d] = 1 /\ call_'[d] # NoCall
    BY <1>2, <1>4, <1>5, <1>7 DEF StageInv
  <2>3. \A d \in Ctxs : <<d, FALSE>> \in cq' => status_'[d] = 2 /\ <<d, TRUE>> \notin cq'
    BY <1>0, <1>2 DEF StageInv, Announced
  <2>4. QED
    BY <1>5, <2>1, <2>2, <2>3 DEF StageInv
<1>11. StatusTellsTheEvent'
  <2>1. (\A d \in Announced : status_[d] = 2 <=> call_[d] = NoCall)'
    BY <1>2, <1>3, <1>4, <1>5, <1>7 DEF StatusTellsTheEvent
  <2>2. (\A d \in Queued \cup Busy \cup sending : call_[d] # NoCall)'
    BY <1>2, <1>4, <1>5, <1>7 DEF StatusTellsTheEvent
  <2>3. /\ call'[k] = "accepted" /\ call[k] = "sent"
        /\ \A j \in Calls : j # k => call'[j] = call[j]
    BY DEF TypeOK
  <2>4. \A d \in heap : call_[d] # NoCall => call_[d] \in Calls /\ call_[d] # k
    BY <2>3 DEF StatusTellsTheEvent, TypeOK
  <2>5. (\A d \in heap : call_[d] # NoCall => call[call_[d]] \in {"accepted", "cancelled"})'
    BY <1>4, <2>3, <2>4 DEF StatusTellsTheEvent, TypeOK
  <2>6. (\A d, e \in heap : call_[d] = call_[e] /\ call_[d] # NoCall => d = e)'
    BY <1>4, <2>4 DEF StatusTellsTheEvent, TypeOK
  <2>7. QED
    BY <2>1, <2>2, <2>5, <2>6 DEF StatusTellsTheEvent
<1>12. OneListenerPerType'
  BY <1>0, <1>6 DEF OneListenerPerType, Alive
<1>13. LoopInv'
  BY DEF LoopInv
<1>14. QED
  BY <1>1, <1>8, <1>9, <1>10, <1>11, <1>12, <1>13

\* The end of a call's Finish: SendAnswer and SendToNobody are instances.
LEMMA SentInv ==
    ASSUME ServiceAssumption, IInv, NEW c \in sending, NEW ok \in BOOLEAN,
           NEW outcome \in CallStates,
           sending' = sending \ {c}, cq' = cq \cup {<<c, ok>>},
           call' = [call EXCEPT ![call_[c]] = outcome],
           call_' = [call_ EXCEPT ![c] = NoCall],
           UNCHANGED <<heap, type_, status_, loopVars, workVars, armed>>
    PROVE  IInv'
<1> USE DEF IInv, loopVars, workVars
<1>1. TypeOK'
  <2>1. call_[c] \in Calls /\ c \in Ctxs
    BY DEF StatusTellsTheEvent, TypeOK
  <2>2. cq' \in SUBSET (Ctxs \X BOOLEAN) /\ sending' \in SUBSET Ctxs
    BY <2>1 DEF TypeOK
  <2>3. call_' \in [Ctxs -> Calls \cup {NoCall}] /\ call' \in [Calls -> CallStates]
    BY <2>1 DEF TypeOK
  <2>4. QED
    BY <2>2, <2>3 DEF TypeOK
<1>2. /\ c \in Ctxs /\ c \in heap /\ status_[c] = 2 /\ call_[c] \in Calls
      /\ c \notin Announced \cup Held \cup Queued \cup Busy \cup armed \cup lost
  BY DEF TypeOK, NoUseAfterFree, StageInv, ContextInOnePlace, StatusTellsTheEvent
<1>3. /\ call_'[c] = NoCall
      /\ \A d \in Ctxs : d # c => call_'[d] = call_[d]
  BY <1>2 DEF TypeOK
<1>4. /\ Announced' = Announced \cup {c} /\ Held' = Held
      /\ Queued' = Queued /\ Busy' = Busy
  BY <1>2 DEF Announced, Held, Queued, Busy
<1>5. Undispatched' = Undispatched
  BY <1>2, <1>4 DEF Undispatched
<1>6. /\ Announced \subseteq Ctxs /\ Held \subseteq Ctxs /\ Busy \subseteq Ctxs
      /\ Queued \cup armed \cup sending \cup lost \subseteq Ctxs
  BY DEF Announced, Held, LoopInv, Busy, TypeOK, NoUseAfterFree
<1>7. NoUseAfterFree'
  BY <1>2, <1>4 DEF NoUseAfterFree
<1>8. ContextInOnePlace'
  BY <1>2, <1>4 DEF ContextInOnePlace, Alive
<1>9. StageInv'
  <2>1. \A d \in armed' : status_'[d] = 1 /\ call_'[d] = NoCall
    BY <1>2, <1>3, <1>6 DEF StageInv
  <2>2. \A d \in Held' \cup Queued' \cup lost' : status_'[d] = 1 /\ call_'[d] # NoCall
    BY <1>2, <1>3, <1>4, <1>6 DEF StageInv
  <2>3. <<c, TRUE>> \notin cq /\ <<c, FALSE>> \notin cq
    BY <1>2 DEF Announced
  <2>4. \A d \in Ctxs : <<d, FALSE>> \in cq' => status_'[d] = 2 /\ <<d, TRUE>> \notin cq'
    BY <1>2, <2>3 DEF StageInv
  <2>5. QED
    BY <1>4, <2>1, <2>2, <2>4 DEF StageInv
<1>10. StatusTellsTheEvent'
  <2>1. (\A d \in Announced : status_[d] = 2 <=> call_[d] = NoCall)'
    BY <1>2, <1>3, <1>4, <1>6 DEF StatusTellsTheEvent
  <2>2. (\A d \in Queued \cup Busy \cup sending : call_[d] # NoCall)'
    BY <1>2, <1>3, <1>4, <1>6 DEF StatusTellsTheEvent
  <2>3. \A j \in Calls : j # call_[c] => call'[j] = call[j]
    BY DEF TypeOK
  <2>4. \A d \in heap : d # c /\ call_[d] # NoCall =>
            call_[d] \in Calls /\ call_[d] # call_[c]
    BY <1>2 DEF StatusTellsTheEvent, TypeOK
  <2>5. (\A d \in heap : call_[d] # NoCall => call[call_[d]] \in {"accepted", "cancelled"})'
    BY <1>2, <1>3, <2>3, <2>4 DEF StatusTellsTheEvent, TypeOK
  <2>6. (\A d, e \in heap : call_[d] = call_[e] /\ call_[d] # NoCall => d = e)'
    BY <1>2, <1>3 DEF StatusTellsTheEvent, TypeOK
  <2>7. QED
    BY <2>1, <2>2, <2>5, <2>6 DEF StatusTellsTheEvent
<1>11. OneListenerPerType'
  BY <1>5 DEF OneListenerPerType, Alive
<1>12. LoopInv'
  BY DEF LoopInv
<1>13. QED
  BY <1>1, <1>7, <1>8, <1>9, <1>10, <1>11, <1>12

\* A client's step that does not take a call out of a context.
LEMMA ClientInv ==
    ASSUME ServiceAssumption, IInv, NEW k \in Calls, NEW next \in CallStates,
           call[k] \in {"accepted", "cancelled"} => next \in {"accepted", "cancelled"},
           call' = [call EXCEPT ![k] = next],
           UNCHANGED <<ctxVars, loopVars, workVars, armed, cq, sending>>
    PROVE  IInv'
<1> USE DEF IInv, ctxVars, loopVars, workVars
<1>1. TypeOK'
  BY DEF TypeOK
<1>2. /\ Announced' = Announced /\ Held' = Held /\ Undispatched' = Undispatched
      /\ Queued' = Queued /\ Busy' = Busy
  BY DEF Announced, Held, Undispatched, Queued, Busy
<1>3. NoUseAfterFree' /\ ContextInOnePlace'
  BY <1>2 DEF NoUseAfterFree, ContextInOnePlace, Alive
<1>4. StageInv' /\ LoopInv'
  BY <1>2 DEF StageInv, LoopInv
<1>5. StatusTellsTheEvent'
  <2>1. \A d \in heap : call_[d] # NoCall => call_[d] \in Calls
    BY DEF TypeOK
  <2>2. \A j \in Calls : call[j] \in {"accepted", "cancelled"} =>
                              call'[j] \in {"accepted", "cancelled"}
    BY DEF TypeOK
  <2>3. QED
    BY <1>2, <2>1, <2>2 DEF StatusTellsTheEvent
<1>6. OneListenerPerType'
  BY <1>2 DEF OneListenerPerType, Alive
<1>7. QED
  BY <1>1, <1>3, <1>4, <1>5, <1>6

-----------------------------------------------------------------------------

LEMMA InitInv ==
    ASSUME ServiceAssumption, Init
    PROVE  IInv
<1> USE DEF Init
<1>1. TypeOK
  <2>1. (CHOOSE t \in Types : TRUE) \in Types
    BY DEF ServiceAssumption
  <2>2. type_ \in [Ctxs -> Types]
    BY <2>1
  <2>3. tasks \in Seq(Ctxs)
    OBVIOUS
  <2>4. /\ status_ \in [Ctxs -> {1, 2}] /\ call_ \in [Ctxs -> Calls \cup {NoCall}]
        /\ work \in [Ctxs -> WorkPC] /\ call \in [Calls -> CallStates]
    BY DEF WorkPC, CallStates
  <2>5. QED
    BY <2>2, <2>3, <2>4 DEF TypeOK
<1>2. /\ Announced = {} /\ Held = {} /\ Queued = {} /\ Busy = {}
  BY DEF Announced, Held, Queued, Busy
<1>3. NoUseAfterFree /\ ContextInOnePlace
  BY <1>2 DEF NoUseAfterFree, ContextInOnePlace
<1>4. StageInv /\ LoopInv
  BY <1>2 DEF StageInv, LoopInv, ServiceAssumption
<1>5. StatusTellsTheEvent /\ OneListenerPerType
  BY <1>2 DEF StatusTellsTheEvent, OneListenerPerType
<1>6. QED
  BY <1>1, <1>3, <1>4, <1>5 DEF IInv

LEMMA NextInv ==
    ASSUME ServiceAssumption, IInv, [Next]_vars
    PROVE  IInv'
<1>1. CASE UNCHANGED vars
  <2> USE <1>1 DEF vars
  <2>1. TypeOK' <=> TypeOK
    BY DEF TypeOK
  <2>2. /\ Announced' = Announced /\ Held' = Held /\ Undispatched' = Undispatched
        /\ Queued' = Queued /\ Busy' = Busy
    BY DEF Announced, Held, Undispatched, Queued, Busy
  <2>3. /\ NoUseAfterFree' <=> NoUseAfterFree
        /\ ContextInOnePlace' <=> ContextInOnePlace
    BY <2>2 DEF NoUseAfterFree, ContextInOnePlace, Alive
  <2>4. (StageInv' <=> StageInv) /\ (LoopInv' <=> LoopInv)
    BY <2>2 DEF StageInv, LoopInv
  <2>5. StatusTellsTheEvent' <=> StatusTellsTheEvent
    BY <2>2 DEF StatusTellsTheEvent
  <2>6. OneListenerPerType' <=> OneListenerPerType
    BY <2>2 DEF OneListenerPerType, Alive
  <2>7. QED
    BY <2>1, <2>3, <2>4, <2>5, <2>6 DEF IInv
<1>2. ASSUME NEW t \in Types, RegisterRequest(t)
      PROVE  IInv'
  BY <1>2, RegisterRequestInv
<1>3. ASSUME NEW c \in Ctxs, Fetch(c)
      PROVE  IInv'
  BY <1>3, FetchRequestInv, FetchFinishedInv, FetchFailedInv DEF Fetch
<1>4. ASSUME Rearm \/ Enqueue \/ Take
      PROVE  IInv'
  BY <1>4, RearmInv, EnqueueInv, TakeInv
<1>5. ASSUME NEW c \in Ctxs, Controller(c) \/ SetStatus(c) \/ Finish(c)
      PROVE  IInv'
  BY <1>5, ControllerReturnsInv, ControllerThrowsInv, ControllerHangsInv,
     SetStatusInv, FinishInv DEF Controller
<1>6. ASSUME NEW c \in Ctxs, SendAnswer(c)
      PROVE  IInv'
  BY <1>6, SentInv DEF SendAnswer, CallStates
<1>7. ASSUME NEW c \in Ctxs, SendToNobody(c)
      PROVE  IInv'
  BY <1>7, SentInv DEF SendToNobody, CallStates
<1>8. ASSUME NEW k \in Calls, Match(k)
      PROVE  IInv'
  BY <1>8, MatchInv
<1>9. ASSUME NEW k \in Calls, ClientSends(k) \/ ClientCancels(k) \/ ClientReturns(k)
      PROVE  IInv'
  <2>1. CASE ClientSends(k)
    BY <2>1, ClientInv DEF ClientSends, CallStates
  <2>2. CASE ClientCancels(k)
    BY <2>2, ClientInv DEF ClientCancels, CallStates
  <2>3. CASE ClientReturns(k)
    BY <2>3, ClientInv DEF ClientReturns, CallStates
  <2>4. QED
    BY <1>9, <2>1, <2>2, <2>3
<1>10. QED
  BY <1>1, <1>2, <1>3, <1>4, <1>5, <1>6, <1>7, <1>8, <1>9 DEF Next

\* The invariant all the others follow from: the places of every context, its
\* status_, its call and its type stay in step through every interleaving of
\* the loop, the workers, the runtime and the clients.
THEOREM ServiceInvariant == Spec => []IInv
<1>1. Init => IInv
  BY InitInv, ServiceAssumption
<1>2. IInv /\ [Next]_vars => IInv'
  BY NextInv, ServiceAssumption
<1>3. QED
  BY <1>1, <1>2, PTL DEF Spec

\* Every variable keeps its type: the tag in the loop is a context, the queued
\* lambdas capture contexts.
THEOREM ServiceTypes == Spec => []TypeOK
<1>1. IInv => TypeOK
  BY DEF IInv
<1>2. QED
  BY <1>1, ServiceInvariant, PTL

\* No thread, queue or runtime refers to a context the loop has deleted.
THEOREM ContextsAreAlive == Spec => []NoUseAfterFree
<1>1. IInv => NoUseAfterFree
  BY DEF IInv
<1>2. QED
  BY <1>1, ServiceInvariant, PTL

\* A context has one owner at a time, and is leaked only when its lambda threw.
THEOREM ContextsHaveOneOwner == Spec => []ContextInOnePlace
<1>1. IInv => ContextInOnePlace
  BY DEF IInv
<1>2. QED
  BY <1>1, ServiceInvariant, PTL

\* No request type goes deaf, none is armed twice.
THEOREM TypesStayServed == Spec => []OneListenerPerType
<1>1. IInv => OneListenerPerType
  BY DEF IInv
<1>2. QED
  BY <1>1, ServiceInvariant, PTL

\* The loop never takes the event of a new call for the end of an old one.
THEOREM EventsAreToldApart == Spec => []StatusTellsTheEvent
<1>1. IInv => StatusTellsTheEvent
  BY DEF IInv
<1>2. QED
  BY <1>1, ServiceInvariant, PTL

=============================================================================
