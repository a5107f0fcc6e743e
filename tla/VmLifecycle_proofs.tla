------------------------- MODULE VmLifecycle_proofs -------------------------
(***************************************************************************)
(* What holds of the life cycle operations for every number of workers and *)
(* of machines, all operations offered.  The inductive invariant is IInv   *)
(* of VmLifecycle: who has locked what, how far each call is, and what it  *)
(* has asked of VirtualBox.                                                *)
(***************************************************************************)
EXTENDS VmLifecycle, TLAPS

\* The records of the operations, as far as the proofs look at them.
LEMMA OperationFacts ==
    ASSUME NEW x \in Operations
    PROVE  /\ Operation[x].request \in Requests
           /\ Operation[x].other \subseteq BOOLEAN
           /\ x \in Definite => Operation[x].other = {FALSE} /\ ~Operation[x].catches
           /\ Operation[x].sleeps # {} => x = "restoreSnapshot"
           /\ x = "restoreSnapshot" => Operation[x].catches
<1>1. CASE x = "startUp"
  BY <1>1 DEF Operation, StartUp, Operations, Definite, Requests
<1>2. CASE x = "shutDown"
  BY <1>2 DEF Operation, ShutDown, Operations, Definite, Requests
<1>3. CASE x = "powerOff"
  BY <1>3 DEF Operation, PowerOff, Operations, Definite, Requests
<1>4. CASE x = "pause"
  BY <1>4 DEF Operation, Pause, Operations, Definite, Requests
<1>5. CASE x = "resume"
  BY <1>5 DEF Operation, Resume, Operations, Definite, Requests
<1>6. CASE x = "vmSleep"
  BY <1>6 DEF Operation, VmSleep, Operations, Definite, Requests
<1>7. CASE x = "restart"
  BY <1>7 DEF Operation, Restart, Operations, Definite, Requests
<1>8. CASE x = "takeSnapshot"
  BY <1>8 DEF Operation, TakeSnapshot, Operations, Definite, Requests
<1>9. CASE x = "restoreSnapshot"
  BY <1>9 DEF Operation, RestoreSnapshot, Operations, Definite, Requests
<1>10. CASE x = "deleteSnapshot"
  BY <1>10 DEF Operation, DeleteSnapshot, Operations, Definite, Requests
<1>11. QED
  BY <1>1, <1>2, <1>3, <1>4, <1>5, <1>6, <1>7, <1>8, <1>9, <1>10 DEF Operations

LEMMA DoingFacts ==
    ASSUME IInv, NEW w \in Workers
    PROVE  /\ Doing(w).request \in Requests
           /\ op[w] \in Definite => /\ Doing(w) = Operation[op[w]]
                                    /\ Doing(w).other = {FALSE}
                                    /\ Doing(w).sleeps = {}
                                    /\ ~Operation[op[w]].catches
           /\ Doing(w).other \subseteq BOOLEAN
           /\ Doing(w).sleeps # {} => op[w] = "restoreSnapshot"
<1>1. op[w] \in Operations
  BY DEF IInv, TypeOK
<1>2. nested[w] => op[w] = "restoreSnapshot"
  BY DEF IInv, CallInv
<1>3. "restoreSnapshot" \notin Definite
  BY DEF Definite
<1>4. CASE nested[w]
  BY <1>2, <1>3, <1>4 DEF Doing, VmSleep, Requests
<1>5. CASE ~nested[w]
  <2>1. Doing(w) = Operation[op[w]]
    BY <1>5 DEF Doing
  <2>2. Operation[op[w]].sleeps # {} => op[w] \notin Definite
    BY <1>1, <1>3, OperationFacts
  <2>3. QED
    BY <2>1, <2>2, <1>1, OperationFacts
<1>6. QED
  BY <1>4, <1>5

-----------------------------------------------------------------------------
(* Steps of a worker.                                                      *)

LEMMA CallKeepsInv ==
    ASSUME LifecycleAssumption, IInv, NEW w \in Workers, NEW x \in Offered,
           NEW n \in Machines \cup {Unknown}, Call(w, x, n)
    PROVE  IInv'
<1> USE DEF IInv, Call, vbox
<1>1. x \in Operations
  BY DEF LifecycleAssumption
<1>2. TypeOK'
  BY <1>1 DEF TypeOK, Steps
<1>3. link[w] = "none" /\ \A m \in Machines : writer[m] # w /\ busyFor[m] # w
  BY DEF LockInv, AnsweredAfterProgress
<1>4. \A v \in Workers : v # w =>
        /\ pc'[v] = pc[v] /\ op'[v] = op[v] /\ target'[v] = target[v]
        /\ asked'[v] = asked[v] /\ reply'[v] = reply[v]
  BY DEF TypeOK
<1>5. /\ pc'[w] = "find" /\ op'[w] = x /\ target'[w] = n /\ asked'[w] = {}
      /\ ~nested[w]
  BY DEF TypeOK, CallInv
<1>6. LockInv'
  BY <1>3, <1>4, <1>5 DEF LockInv
<1>7. \A v \in Workers : v # w => Doing(v)' = Doing(v)
  BY <1>4 DEF Doing
<1>8. CallInv'
  BY <1>4, <1>5, <1>7 DEF CallInv
<1>9. AnsweredAfterProgress'
  BY <1>3, <1>4 DEF AnsweredAfterProgress
<1>10. TrueMeansAsked' /\ FalseMeansUntouched'
  BY <1>4, <1>5 DEF TrueMeansAsked, FalseMeansUntouched, Answered
<1>11. QED
  BY <1>2, <1>6, <1>8, <1>9, <1>10

\* A step that changes only where a worker is: pc and nested.
LEMMA MoveKeepsInv ==
    ASSUME LifecycleAssumption, IInv, NEW w \in Workers, up,
           NEW p \in {"find", "state", "lock", "request"}, NEW b \in BOOLEAN,
           pc[w] \in {"find", "state"}, target[w] \in Machines,
           pc' = [pc EXCEPT ![w] = p], nested' = [nested EXCEPT ![w] = b],
           b => op[w] = "restoreSnapshot",
           UNCHANGED <<vbox, op, target, link, asked, reply, up>>
    PROVE  IInv'
<1> USE DEF IInv, vbox
<1>1. TypeOK'
  BY DEF TypeOK, Steps
<1>2. link[w] = "none" /\ asked[w] = {}
  BY DEF LockInv, CallInv
<1>3. pc'[w] = p /\ nested'[w] = b /\ \A v \in Workers : v # w =>
          pc'[v] = pc[v] /\ nested'[v] = nested[v]
  BY DEF TypeOK
<1>4. LockInv'
  BY <1>2, <1>3 DEF LockInv
<1>5. \A v \in Workers : v # w => Doing(v)' = Doing(v)
  BY <1>3 DEF Doing
<1>6. CallInv'
  BY <1>2, <1>3, <1>5 DEF CallInv
<1>7. AnsweredAfterProgress'
  BY <1>3 DEF AnsweredAfterProgress
<1>8. TrueMeansAsked' /\ FalseMeansUntouched'
  BY <1>3 DEF TrueMeansAsked, FalseMeansUntouched, Answered
<1>9. QED
  BY <1>1, <1>4, <1>6, <1>7, <1>8

\* Closing the links to a machine's lock disturbs only the worker that had it.
LEMMA LinksAfterFacts ==
    ASSUME TypeOK, NEW m \in Machines
    PROVE  /\ LinksAfter(m) \in [Workers -> Links]
           /\ \A v \in Workers :
                 /\ LinksAfter(m)[v] = "none" <=> link[v] = "none"
                 /\ LinksAfter(m)[v] = "write" <=> link[v] = "write"
                 /\ LinksAfter(m)[v] = "shared" <=> link[v] = "shared" /\ target[v] # m
  BY DEF LinksAfter, TypeOK, Links

\* The end of a session leaves the locks of the others as they are.
LEMMA EndSessionFacts ==
    ASSUME LifecycleAssumption, IInv, NEW w \in Workers, NEW leaves \in {Nobody, Abandoned},
           EndSession(w, leaves), UNCHANGED <<state, target>>
    PROVE  /\ writer' \in [Machines -> Workers \cup {Nobody, Vm, Abandoned}]
           /\ link' \in [Workers -> Links]
           /\ link'[w] = "none"
           /\ \A v \in Workers : v # w =>
                 /\ link'[v] = "none" <=> link[v] = "none"
                 /\ \A m \in Machines : writer'[m] = v <=> link'[v] = "write" /\ target[v] = m
                 /\ link'[v] = "shared" => writer'[target[v]] \notin {Nobody, Abandoned}
           /\ \A m \in Machines : writer'[m] # w
           /\ \A m \in Machines : writer'[m] = Vm <=> state[m] \in Online
<1> USE DEF IInv
<1>0. leaves \notin Workers /\ leaves # Vm /\ Vm \notin Workers
  BY DEF LifecycleAssumption
<1>1. CASE link[w] = "write"
  <2> DEFINE t == target[w]
  <2>1. t \in Machines /\ writer[t] = w
    BY <1>1 DEF LockInv
  <2>2. /\ writer' = [writer EXCEPT ![t] = leaves]
        /\ link' = [LinksAfter(t) EXCEPT ![w] = "none"]
    BY <1>1 DEF EndSession
  <2> HIDE DEF t
  <2>3. /\ LinksAfter(t) \in [Workers -> Links]
        /\ \A v \in Workers :
              /\ LinksAfter(t)[v] = "none" <=> link[v] = "none"
              /\ LinksAfter(t)[v] = "write" <=> link[v] = "write"
              /\ LinksAfter(t)[v] = "shared" <=> link[v] = "shared" /\ target[v] # t
    BY <2>1, LinksAfterFacts
  <2>4. /\ link' \in [Workers -> Links] /\ link'[w] = "none"
        /\ \A v \in Workers : v # w => link'[v] = LinksAfter(t)[v]
    BY <2>2, <2>3 DEF Links
  <2>5. /\ writer' \in [Machines -> Workers \cup {Nobody, Vm, Abandoned}]
        /\ writer'[t] = leaves
        /\ \A m \in Machines : m # t => writer'[m] = writer[m]
    BY <2>1, <2>2 DEF TypeOK
  <2>6. \A v \in Workers : \A m \in Machines : writer[m] = v <=> link[v] = "write" /\ target[v] = m
    BY DEF LockInv
  <2>7. \A v \in Workers : link[v] # "none" => target[v] \in Machines
    BY DEF LockInv
  <2>8. \A v \in Workers : link[v] = "shared" => writer[target[v]] \notin {Nobody, Abandoned}
    BY DEF LockInv
  <2>9. \A m \in Machines : writer[m] = Vm <=> state[m] \in Online
    BY DEF LockInv
  <2>10. \A m \in Machines : m # t => writer[m] # w
    BY <2>6 DEF t
  <2>11. ASSUME NEW v \in Workers, v # w
         PROVE  /\ link'[v] = "none" <=> link[v] = "none"
                /\ \A m \in Machines : writer'[m] = v <=> link'[v] = "write" /\ target[v] = m
                /\ link'[v] = "shared" => writer'[target[v]] \notin {Nobody, Abandoned}
    BY <1>0, <2>1, <2>3, <2>4, <2>5, <2>6, <2>7, <2>8, <2>11
  <2>12. \A m \in Machines : writer'[m] # w
    BY <1>0, <2>5, <2>10
  <2>13. \A m \in Machines : writer'[m] = Vm <=> state[m] \in Online
    BY <1>0, <2>1, <2>5, <2>9
  <2>14. QED
    BY <2>4, <2>5, <2>11, <2>12, <2>13
<1>2. CASE link[w] # "write"
  <2>1. writer' = writer /\ link' = [link EXCEPT ![w] = "none"]
    BY <1>2 DEF EndSession
  <2>2. \A v \in Workers : v # w => link'[v] = link[v]
    BY <2>1 DEF TypeOK
  <2>3. QED
    BY <1>2, <2>1, <2>2 DEF TypeOK, LockInv, Links
<1>3. QED
  BY <1>1, <1>2

\* A worker ends its session and its call, with an answer or an exception.
LEMMA EndKeepsInv ==
    ASSUME LifecycleAssumption, IInv, NEW w \in Workers, NEW leaves \in {Nobody, Abandoned},
           NEW p \in {"answered", "threw"}, NEW r \in BOOLEAN,
           EndSession(w, leaves), \A m \in Machines : busyFor[m] # w,
           pc' = [pc EXCEPT ![w] = p], reply' = [reply EXCEPT ![w] = r],
           nested' = [nested EXCEPT ![w] = FALSE],
           up /\ p = "answered" /\ op[w] \in Definite =>
              asked[w] = IF r THEN {Operation[op[w]].request} ELSE {},
           UNCHANGED <<state, prior, busyFor, hasSnap, op, target, asked, up>>
    PROVE  IInv'
<1> USE DEF IInv
<1>1. /\ writer' \in [Machines -> Workers \cup {Nobody, Vm, Abandoned}]
      /\ link' \in [Workers -> Links]
      /\ link'[w] = "none"
      /\ \A v \in Workers : v # w =>
            /\ link'[v] = "none" <=> link[v] = "none"
            /\ \A m \in Machines : writer'[m] = v <=> link'[v] = "write" /\ target[v] = m
            /\ link'[v] = "shared" => writer'[target[v]] \notin {Nobody, Abandoned}
      /\ \A m \in Machines : writer'[m] # w
      /\ \A m \in Machines : writer'[m] = Vm <=> state[m] \in Online
  BY EndSessionFacts
<1>2. TypeOK'
  BY <1>1 DEF TypeOK, Steps
<1>3. pc'[w] = p /\ ~nested'[w] /\ reply'[w] = r /\ \A v \in Workers : v # w =>
          pc'[v] = pc[v] /\ nested'[v] = nested[v] /\ reply'[v] = reply[v]
  BY DEF TypeOK
<1>4. LockInv'
  <2>1. (\A v \in Workers : link[v] # "none" =>
            pc[v] \in {"request", "wait", "unlock"} /\ target[v] \in Machines)'
    BY <1>1, <1>3 DEF LockInv
  <2>2. (\A v \in Workers, m \in Machines : writer[m] = v <=> link[v] = "write" /\ target[v] = m)'
    BY <1>1 DEF LockInv
  <2>3. QED
    BY <1>1, <2>1, <2>2 DEF LockInv
<1>5. \A v \in Workers : v # w => Doing(v)' = Doing(v)
  BY <1>3 DEF Doing
<1>6. CallInv'
  <2>1. \A v \in Workers : v # w => (link'[v] # "none" <=> link[v] # "none")
    BY <1>1
  <2>2. QED
    BY <1>3, <1>5, <2>1 DEF CallInv
<1>7. AnsweredAfterProgress'
  BY <1>3 DEF AnsweredAfterProgress
<1>8. TrueMeansAsked' /\ FalseMeansUntouched'
  BY <1>3 DEF TrueMeansAsked, FalseMeansUntouched, Answered
<1>9. QED
  BY <1>2, <1>4, <1>6, <1>7, <1>8

LEMMA ThrowKeepsInv ==
    ASSUME LifecycleAssumption, IInv, NEW w \in Workers, up, pc[w] # "wait", Throw(w)
    PROVE  IInv'
<1>1. \A m \in Machines : busyFor[m] # w
  BY DEF IInv, AnsweredAfterProgress
<1>2. op[w] \in Operations
  BY DEF IInv, TypeOK
<1>3. CASE Operation[op[w]].catches
  <2>1. op[w] \notin Definite
    BY <1>2, <1>3, OperationFacts
  <2>2. PICK r \in BOOLEAN : reply' = [reply EXCEPT ![w] = r]
    BY <1>3 DEF Throw
  <2>3. QED
    BY <1>1, <1>3, <2>1, <2>2, EndKeepsInv DEF Throw
<1>4. CASE ~Operation[op[w]].catches
  <2>1. reply' = [reply EXCEPT ![w] = reply[w]] /\ reply[w] \in BOOLEAN
    BY <1>4 DEF Throw, IInv, TypeOK
  <2>2. QED
    BY <1>1, <1>4, <2>1, EndKeepsInv DEF Throw
<1>5. QED
  BY <1>3, <1>4

-----------------------------------------------------------------------------
(* The steps of a worker, one lemma each.                                  *)

LEMMA FindMachineKeepsInv ==
    ASSUME LifecycleAssumption, IInv, NEW w \in Workers, FindMachine(w)
    PROVE  IInv'
<1>1. CASE target[w] \in Machines
  <2>1. nested' = [nested EXCEPT ![w] = nested[w]] /\ nested[w] \in BOOLEAN
    BY <1>1 DEF FindMachine, IInv, TypeOK
  <2>2. nested[w] => op[w] = "restoreSnapshot"
    BY DEF IInv, CallInv
  <2>3. QED
    BY <1>1, <2>1, <2>2, MoveKeepsInv DEF FindMachine
<1>2. CASE target[w] \notin Machines
  BY <1>2, ThrowKeepsInv DEF FindMachine
<1>3. QED
  BY <1>1, <1>2

LEMMA ReadStateKeepsInv ==
    ASSUME LifecycleAssumption, IInv, NEW w \in Workers, ReadState(w)
    PROVE  IInv'
<1>1. up /\ pc[w] = "state" /\ target[w] \in Machines
  BY DEF ReadState, IInv, CallInv
<1>2. CASE GoOn(w)
  <2>1. nested' = [nested EXCEPT ![w] = nested[w]] /\ nested[w] \in BOOLEAN
    BY <1>2 DEF GoOn, IInv, TypeOK
  <2>2. nested[w] => op[w] = "restoreSnapshot"
    BY DEF IInv, CallInv
  <2>3. PICK p \in {"request", "lock"} : pc' = [pc EXCEPT ![w] = p]
    BY <1>2 DEF GoOn
  <2>4. UNCHANGED <<vbox, op, target, link, asked, reply, up>>
    BY <1>2 DEF GoOn
  <2>5. QED
    BY <1>1, <2>1, <2>2, <2>3, <2>4, MoveKeepsInv
<1>3. CASE SleepInstead(w)
  <2>1. op[w] = "restoreSnapshot"
    BY <1>3, DoingFacts DEF SleepInstead
  <2>2. QED
    BY <1>1, <1>3, <2>1, MoveKeepsInv DEF SleepInstead
<1>4. CASE Refuse(w)
  <2>1. PICK r \in Doing(w).other : Answer(w, r)
    BY <1>4 DEF Refuse
  <2>2. r \in BOOLEAN /\ (op[w] \in Definite => ~r)
    BY <2>1, DoingFacts
  <2>3. link[w] = "none" /\ asked[w] = {} /\ \A m \in Machines : busyFor[m] # w
    BY <1>1 DEF IInv, LockInv, CallInv, AnsweredAfterProgress
  <2>4. EndSession(w, Nobody)
    BY <1>4, <2>3 DEF EndSession, Refuse, vbox, IInv, TypeOK
  <2>5. QED
    BY <1>4, <2>1, <2>2, <2>3, <2>4, EndKeepsInv DEF Refuse, Answer, vbox
<1>5. QED
  BY <1>2, <1>3, <1>4 DEF ReadState

LEMMA LockKeepsInv ==
    ASSUME LifecycleAssumption, IInv, NEW w \in Workers, Lock(w)
    PROVE  IInv'
<1> USE DEF IInv, Lock
<1> DEFINE t == target[w]
<1>1. t \in Machines /\ link[w] = "none" /\ asked[w] = {}
  BY DEF LockInv, CallInv
<1>2. /\ pc'[w] = "request" /\ link'[w] \in {"write", "shared"}
      /\ \A v \in Workers : v # w => pc'[v] = pc[v] /\ link'[v] = link[v]
  BY DEF TypeOK
<1>3. TypeOK'
  BY <1>1 DEF TypeOK, Links, Steps
<1>4. LockInv'
  <2>1. (\A v \in Workers : link[v] # "none" =>
            pc[v] \in {"request", "wait", "unlock"} /\ target[v] \in Machines)'
    BY <1>1, <1>2 DEF LockInv
  <2>2. CASE writer[t] = Nobody
    <3>1. /\ writer'[t] = w /\ link'[w] = "write"
          /\ \A m \in Machines : m # t => writer'[m] = writer[m]
      BY <1>1, <2>2 DEF TypeOK
    <3>2. Nobody \notin Workers /\ Vm \notin Workers /\ Abandoned \notin Workers
      BY DEF LifecycleAssumption
    <3>3. \A v \in Workers : link[v] = "shared" => target[v] # t
      BY <2>2 DEF LockInv
    <3>4. (\A v \in Workers, m \in Machines : writer[m] = v <=> link[v] = "write" /\ target[v] = m)'
      BY <1>1, <1>2, <2>2, <3>1, <3>2 DEF LockInv
    <3>5. (\A v \in Workers : link[v] = "shared" => writer[target[v]] \notin {Nobody, Abandoned})'
      BY <1>2, <3>1, <3>2, <3>3 DEF LockInv
    <3>6. (\A m \in Machines : writer[m] = Vm <=> state[m] \in Online)'
      <4>1. state[t] \notin Online
        BY <1>1, <2>2 DEF LockInv, LifecycleAssumption
      <4>2. QED
        BY <3>1, <3>2, <4>1 DEF LockInv
    <3>7. QED
      BY <2>1, <3>4, <3>5, <3>6 DEF LockInv
  <2>3. CASE writer[t] # Nobody
    <3>1. writer' = writer /\ link'[w] = "shared"
      BY <2>3 DEF TypeOK
    <3>2. QED
      BY <1>1, <1>2, <2>1, <2>3, <3>1 DEF LockInv
  <2>4. QED
    BY <2>2, <2>3
<1>5. \A v \in Workers : Doing(v)' = Doing(v)
  BY DEF Doing
<1>6. CallInv'
  BY <1>1, <1>2, <1>5 DEF CallInv
<1>7. AnsweredAfterProgress'
  BY <1>2 DEF AnsweredAfterProgress
<1>8. TrueMeansAsked' /\ FalseMeansUntouched'
  BY <1>2 DEF TrueMeansAsked, FalseMeansUntouched, Answered
<1>9. QED
  BY <1>3, <1>4, <1>6, <1>7, <1>8

LEMMA ServerEndsKeepsInv ==
    ASSUME IInv, NEW w \in Workers, NullDereference(w) \/ NullErrorInfo(w)
    PROVE  IInv'
<1> USE DEF IInv, NullDereference, NullErrorInfo, vbox, worker
<1>1. TypeOK'
  BY DEF TypeOK
<1>2. LockInv'
  BY DEF LockInv
<1>3. AnsweredAfterProgress'
  BY DEF AnsweredAfterProgress
<1>4. CallInv'
  BY DEF CallInv, Doing
<1>5. TrueMeansAsked' /\ FalseMeansUntouched'
  BY DEF TrueMeansAsked, FalseMeansUntouched, Answered
<1>6. QED
  BY <1>1, <1>2, <1>3, <1>4, <1>5

LEMMA WaitKeepsInv ==
    ASSUME IInv, NEW w \in Workers, Wait(w)
    PROVE  IInv'
<1> USE DEF IInv, Wait, vbox
<1>1. pc'[w] = "unlock" /\ \A v \in Workers : v # w => pc'[v] = pc[v]
  BY DEF TypeOK
<1>2. TypeOK'
  BY DEF TypeOK, Steps
<1>3. LockInv'
  BY <1>1 DEF LockInv
<1>4. \A v \in Workers : Doing(v)' = Doing(v)
  BY DEF Doing
<1>5. CallInv'
  BY <1>1, <1>4 DEF CallInv
<1>6. \A m \in Machines : busyFor[m] # w
  BY DEF AnsweredAfterProgress
<1>7. AnsweredAfterProgress'
  BY <1>1, <1>6 DEF AnsweredAfterProgress
<1>8. TrueMeansAsked' /\ FalseMeansUntouched'
  BY <1>1 DEF TrueMeansAsked, FalseMeansUntouched, Answered
<1>9. QED
  BY <1>2, <1>3, <1>5, <1>7, <1>8

LEMMA UnlockKeepsInv ==
    ASSUME LifecycleAssumption, IInv, NEW w \in Workers, Unlock(w)
    PROVE  IInv'
<1>1. \A m \in Machines : busyFor[m] # w
  BY DEF Unlock, IInv, AnsweredAfterProgress
<1>2. asked[w] = {Doing(w).request}
  BY DEF Unlock, IInv, CallInv
<1>3. op[w] \in Definite => asked[w] = {Operation[op[w]].request}
  BY <1>2, DoingFacts
<1>4. QED
  BY <1>1, <1>3, EndKeepsInv DEF Unlock, Answer

-----------------------------------------------------------------------------
(* A request, and what it does to the machine.                             *)

\* A request is accepted only in states it can be made in, and takes the
\* machine to a state that a process executes exactly if one did before, or
\* if it starts one.
LEMMA StateOnFacts ==
    ASSUME NEW request \in Requests, NEW s \in AcceptedIn[request]
    PROVE  /\ s \in States /\ StateOn(request, s) \in States
           /\ request = "launchVMProcess" =>
                 s \in Resting /\ StateOn(request, s) \in {"Starting", "Restoring"}
           /\ request # "launchVMProcess" =>
                 /\ StateOn(request, s) \in Online <=> s \in Online
                 /\ StateOn(request, s) \notin {"Starting", "Restoring"}
           /\ StateOn(request, s) \in
                 {"Saving", "LiveSnapshotting", "OnlineSnapshotting",
                  "DeletingSnapshotOnline", "DeletingSnapshotPaused"} =>
                    s \in {"Running", "Paused"}
           /\ StateOn(request, s) \in
                 {"Snapshotting", "DeletingSnapshot", "RestoringSnapshot"} => s \in Resting
<1> USE DEF AcceptedIn, StateOn, States, Resting, Online
<1>1. CASE request = "launchVMProcess"
  BY <1>1
<1>2. CASE request \in {"powerButton", "powerDown", "pause", "resume", "reset", "saveState"}
  BY <1>2
<1>3. CASE request = "takeSnapshot"
  BY <1>3
<1>4. CASE request = "restoreSnapshot"
  BY <1>4
<1>5. CASE request = "deleteSnapshot"
  BY <1>5
<1>6. QED
  BY <1>1, <1>2, <1>3, <1>4, <1>5 DEF Requests

LEMMA RequestAcceptedKeepsInv ==
    ASSUME LifecycleAssumption, IInv, NEW w \in Workers, RequestAccepted(w)
    PROVE  IInv'
<1> USE DEF IInv
<1> DEFINE m == target[w]
           request == Doing(w).request
           s == StateOn(request, state[m])
           launches == request = "launchVMProcess"
<1>1. m \in Machines /\ pc[w] = "request" /\ asked[w] = {} /\ request \in Requests
  BY DoingFacts DEF RequestAccepted, CallInv
<1>2. /\ state[m] \in AcceptedIn[request]
      /\ launches => writer[m] = Nobody
      /\ ~launches => link[w] \in {"write", "shared"}
  BY DEF RequestAccepted, Possible
<1>3. /\ state[m] \in States /\ s \in States
      /\ launches => state[m] \in Resting /\ s \in {"Starting", "Restoring"}
      /\ ~launches => (s \in Online <=> state[m] \in Online) /\ s \notin {"Starting", "Restoring"}
      /\ s \in {"Saving", "LiveSnapshotting", "OnlineSnapshotting",
                "DeletingSnapshotOnline", "DeletingSnapshotPaused"} =>
            state[m] \in {"Running", "Paused"}
      /\ s \in {"Snapshotting", "DeletingSnapshot", "RestoringSnapshot"} => state[m] \in Resting
  BY <1>1, <1>2, StateOnFacts
<1>4. PICK p \in {"wait", "unlock"}, b \in {w, Nobody} :
        /\ pc' = [pc EXCEPT ![w] = p]
        /\ busyFor' = [busyFor EXCEPT ![m] = b]
        /\ b = w => p = "wait"
  BY DEF RequestAccepted
<1>5. /\ state' = [state EXCEPT ![m] = s]
      /\ prior' = [prior EXCEPT ![m] = state[m]]
      /\ asked' = [asked EXCEPT ![w] = asked[w] \cup {request}]
      /\ launches => writer' = [writer EXCEPT ![m] = Vm] /\ link' = [link EXCEPT ![w] = "shared"]
      /\ ~launches => UNCHANGED <<writer, link>>
      /\ UNCHANGED <<hasSnap, op, target, nested, reply, up>>
  BY DEF RequestAccepted
<1> HIDE DEF m, request, s, launches
<1>6. TypeOK'
  <2>1. asked' \in [Workers -> SUBSET Requests]
    BY <1>1, <1>5 DEF TypeOK
  <2>2. writer' \in [Machines -> Workers \cup {Nobody, Vm, Abandoned}] /\ link' \in [Workers -> Links]
    BY <1>5 DEF TypeOK, Links
  <2>3. pc' \in [Workers -> Steps] /\ busyFor' \in [Machines -> Workers \cup {Nobody}]
    BY <1>4 DEF TypeOK, Steps
  <2>4. state' \in [Machines -> States] /\ prior' \in [Machines -> States]
    BY <1>3, <1>5 DEF TypeOK
  <2>5. QED
    BY <1>5, <2>1, <2>2, <2>3, <2>4 DEF TypeOK
<1>7. /\ pc'[w] = p /\ asked'[w] = {request} /\ link'[w] \in {"write", "shared"}
      /\ \A v \in Workers : v # w =>
            pc'[v] = pc[v] /\ link'[v] = link[v] /\ asked'[v] = asked[v]
  BY <1>1, <1>2, <1>4, <1>5 DEF TypeOK
<1>8. /\ state'[m] = s /\ prior'[m] = state[m] /\ busyFor'[m] = b
      /\ \A k \in Machines : k # m =>
            state'[k] = state[k] /\ prior'[k] = prior[k] /\ busyFor'[k] = busyFor[k]
  BY <1>1, <1>4, <1>5 DEF TypeOK
<1>9. LockInv'
  <2>1. (\A v \in Workers : link[v] # "none" =>
            pc[v] \in {"request", "wait", "unlock"} /\ target[v] \in Machines)'
    BY <1>1, <1>4, <1>5, <1>7, m = target[w] DEF LockInv, m
  <2>2. CASE launches
    <3>1. /\ writer'[m] = Vm /\ link'[w] = "shared"
          /\ \A k \in Machines : k # m => writer'[k] = writer[k]
      BY <1>1, <1>5, <2>2 DEF TypeOK
    <3>2. link[w] # "write"
      BY <1>1, <1>2, <2>2 DEF LockInv, LifecycleAssumption, m
    <3>3. Vm \notin Workers /\ Vm # Nobody /\ Vm # Abandoned /\ Nobody \notin Workers
      BY DEF LifecycleAssumption
    <3>4. (\A v \in Workers, k \in Machines : writer[k] = v <=> link[v] = "write" /\ target[v] = k)'
      BY <1>1, <1>2, <1>5, <1>7, <2>2, <3>1, <3>2, <3>3 DEF LockInv
    <3>5. (\A v \in Workers : link[v] = "shared" => writer[target[v]] \notin {Nobody, Abandoned})'
      <4>1. \A v \in Workers : link[v] = "shared" => target[v] # m
        BY <1>2, <2>2 DEF LockInv
      <4>2. target[w] = m
        BY DEF m
      <4>3. QED
        BY <1>5, <1>7, <3>1, <3>3, <4>1, <4>2 DEF LockInv
    <3>6. (\A k \in Machines : writer[k] = Vm <=> state[k] \in Online)'
      BY <1>3, <1>8, <2>2, <3>1 DEF LockInv, Online
    <3>7. QED
      BY <2>1, <3>4, <3>5, <3>6 DEF LockInv
  <2>3. CASE ~launches
    <3>1. writer' = writer /\ link' = link /\ target' = target
      BY <1>5, <2>3
    <3>2. (\A k \in Machines : writer[k] = Vm <=> state[k] \in Online)'
      BY <1>3, <1>8, <2>3, <3>1 DEF LockInv
    <3>3. QED
      BY <2>1, <3>1, <3>2 DEF LockInv
  <2>4. QED
    BY <2>2, <2>3
<1>10. \A v \in Workers : Doing(v)' = Doing(v)
  BY <1>5 DEF Doing
<1>11. CallInv'
  <2>1. (\A v \in Workers : pc[v] \in {"state", "lock", "request", "wait", "unlock"} =>
            target[v] \in Machines)'
    BY <1>1, <1>5, <1>7 DEF CallInv, m
  <2>2. (\A v \in Workers : pc[v] \in {"wait", "unlock"} =>
            link[v] # "none" /\ asked[v] = {Doing(v).request})'
    BY <1>4, <1>7, <1>10 DEF CallInv, request
  <2>3. (\A v \in Workers : pc[v] \in {"find", "state", "lock", "request"} => asked[v] = {})'
    BY <1>4, <1>7 DEF CallInv
  <2>4. (\A v \in Workers : nested[v] =>
            op[v] = "restoreSnapshot"
            /\ pc[v] \in {"find", "state", "lock", "request", "wait", "unlock"})'
    BY <1>4, <1>5, <1>7 DEF CallInv
  <2>5. (\A k \in Machines : state[k] \in {"Starting", "Restoring"} => prior[k] \in Resting)'
    BY <1>3, <1>8 DEF CallInv
  <2>6. (\A k \in Machines :
            state[k] \in {"Saving", "LiveSnapshotting", "OnlineSnapshotting",
                          "DeletingSnapshotOnline", "DeletingSnapshotPaused"} =>
                prior[k] \in {"Running", "Paused"})'
    BY <1>3, <1>8 DEF CallInv
  <2>7. (\A k \in Machines :
            state[k] \in {"Snapshotting", "DeletingSnapshot", "RestoringSnapshot"} =>
                prior[k] \in Resting)'
    BY <1>3, <1>8 DEF CallInv
  <2>8. QED
    BY <2>1, <2>2, <2>3, <2>4, <2>5, <2>6, <2>7 DEF CallInv
<1>12. AnsweredAfterProgress'
  <2>1. \A k \in Machines : busyFor[k] # w
    BY <1>1 DEF AnsweredAfterProgress
  <2>2. Nobody \notin Workers
    BY DEF LifecycleAssumption
  <2>3. QED
    BY <1>4, <1>5, <1>7, <1>8, <2>1, <2>2 DEF AnsweredAfterProgress, m
<1>13. TrueMeansAsked' /\ FalseMeansUntouched'
  BY <1>4, <1>5, <1>7 DEF TrueMeansAsked, FalseMeansUntouched, Answered
<1>14. QED
  BY <1>6, <1>9, <1>11, <1>12, <1>13

-----------------------------------------------------------------------------
(* VirtualBox and the guests.                                              *)

\* Whatever happens to the machines, the calls are where they were.
LEMMA VirtualBoxKeepsInv ==
    ASSUME LifecycleAssumption, IInv, NEW m \in Machines, NEW s \in States, NEW q \in States,
           state' = [state EXCEPT ![m] = s], prior' = [prior EXCEPT ![m] = q],
           s \notin {"Starting", "Restoring", "Saving", "LiveSnapshotting",
                     "OnlineSnapshotting", "DeletingSnapshotOnline",
                     "DeletingSnapshotPaused", "Snapshotting", "DeletingSnapshot",
                     "RestoringSnapshot"},
           writer' \in [Machines -> Workers \cup {Nobody, Vm, Abandoned}],
           link' \in [Workers -> Links],
           busyFor' \in [Machines -> Workers \cup {Nobody}],
           hasSnap' \in [Machines -> BOOLEAN],
           \A v \in Workers : link'[v] = "none" <=> link[v] = "none",
           \A k \in Machines : busyFor'[k] \in {busyFor[k], Nobody},
           \A v \in Workers, k \in Machines :
                writer'[k] = v <=> link'[v] = "write" /\ target[v] = k,
           \A v \in Workers : link'[v] = "shared" => writer'[target[v]] \notin {Nobody, Abandoned},
           \A k \in Machines : writer'[k] = Vm <=> state'[k] \in Online,
           UNCHANGED <<pc, op, target, nested, asked, reply, up>>
    PROVE  IInv'
<1> USE DEF IInv
<1>1. TypeOK'
  BY DEF TypeOK
<1>2. LockInv'
  BY DEF LockInv
<1>3. /\ state'[m] = s
      /\ \A k \in Machines : k # m => state'[k] = state[k] /\ prior'[k] = prior[k]
  BY DEF TypeOK
<1>4. \A v \in Workers : Doing(v)' = Doing(v)
  BY DEF Doing
<1>5. CallInv'
  BY <1>3, <1>4 DEF CallInv
<1>6. AnsweredAfterProgress'
  BY DEF AnsweredAfterProgress, LifecycleAssumption
<1>7. TrueMeansAsked' /\ FalseMeansUntouched'
  BY DEF TrueMeansAsked, FalseMeansUntouched, Answered
<1>8. QED
  BY <1>1, <1>2, <1>5, <1>6, <1>7

\* A machine passes to a state that a process executes exactly if one did before.
LEMMA PassKeepsInv ==
    ASSUME LifecycleAssumption, IInv, NEW m \in Machines,
           NEW s \in Resting \cup {"Running", "Paused", "Stuck", "Stopping"},
           PassesTo(m, s), s \in Online <=> state[m] \in Online,
           busyFor' \in {busyFor, [busyFor EXCEPT ![m] = Nobody]},
           hasSnap' \in [Machines -> BOOLEAN],
           UNCHANGED <<pc, op, target, nested, asked, reply, up>>
    PROVE  IInv'
<1> USE DEF IInv
<1>1. s \in States
  BY DEF States, Online
<1>2. /\ busyFor' \in [Machines -> Workers \cup {Nobody}]
      /\ \A k \in Machines : busyFor'[k] \in {busyFor[k], Nobody}
  BY DEF TypeOK
<1>3. /\ state' = [state EXCEPT ![m] = s] /\ prior' = [prior EXCEPT ![m] = s]
      /\ writer' = writer /\ link' = link
  BY DEF PassesTo
<1>4. \A k \in Machines : writer'[k] = Vm <=> state'[k] \in Online
  BY <1>3 DEF TypeOK, LockInv
<1>5. /\ \A v \in Workers, k \in Machines :
            writer'[k] = v <=> link'[v] = "write" /\ target[v] = k
      /\ \A v \in Workers : link'[v] = "shared" => writer'[target[v]] \notin {Nobody, Abandoned}
  BY <1>3 DEF LockInv
<1>6. /\ writer' \in [Machines -> Workers \cup {Nobody, Vm, Abandoned}]
      /\ link' \in [Workers -> Links]
  BY <1>3 DEF TypeOK
<1>7. s \notin {"Starting", "Restoring", "Saving", "LiveSnapshotting",
                "OnlineSnapshotting", "DeletingSnapshotOnline",
                "DeletingSnapshotPaused", "Snapshotting", "DeletingSnapshot",
                "RestoringSnapshot"}
  BY DEF Resting
<1>8. QED
  BY <1>1, <1>2, <1>3, <1>4, <1>5, <1>6, <1>7, VirtualBoxKeepsInv

\* A process ends: its lock on the machine is gone, and the links to it.
LEMMA ProcessEndKeepsInv ==
    ASSUME LifecycleAssumption, IInv, NEW m \in Machines, NEW s \in Resting,
           state[m] \in Online, ProcessEnds(m, s),
           busyFor' = [busyFor EXCEPT ![m] = Nobody],
           UNCHANGED <<hasSnap, pc, op, target, nested, asked, reply, up>>
    PROVE  IInv'
<1> USE DEF IInv
<1>1. s \in States /\ s \notin Online
  BY DEF States, Online, Resting
<1>2. /\ state' = [state EXCEPT ![m] = s] /\ prior' = [prior EXCEPT ![m] = s]
      /\ writer' = [writer EXCEPT ![m] = Nobody] /\ link' = LinksAfter(m)
  BY DEF ProcessEnds
<1>3. /\ link' \in [Workers -> Links]
      /\ \A v \in Workers :
            /\ link'[v] = "none" <=> link[v] = "none"
            /\ link'[v] = "write" <=> link[v] = "write"
            /\ link'[v] = "shared" <=> link[v] = "shared" /\ target[v] # m
  BY <1>2, LinksAfterFacts
<1>4. /\ busyFor' \in [Machines -> Workers \cup {Nobody}]
      /\ \A k \in Machines : busyFor'[k] \in {busyFor[k], Nobody}
  BY DEF TypeOK
<1>5. /\ writer' \in [Machines -> Workers \cup {Nobody, Vm, Abandoned}]
      /\ writer'[m] = Nobody
      /\ \A k \in Machines : k # m => writer'[k] = writer[k]
  BY <1>2 DEF TypeOK
<1>6. Nobody \notin Workers /\ Vm \notin Workers /\ Nobody # Vm
  BY DEF LifecycleAssumption
<1>7. writer[m] = Vm
  BY DEF LockInv
<1>8. \A v \in Workers, k \in Machines :
          writer'[k] = v <=> link'[v] = "write" /\ target[v] = k
  BY <1>3, <1>5, <1>6, <1>7 DEF LockInv
<1>9. \A v \in Workers : link'[v] = "shared" => writer'[target[v]] \notin {Nobody, Abandoned}
  BY <1>3, <1>5 DEF LockInv
<1>10. \A k \in Machines : writer'[k] = Vm <=> state'[k] \in Online
  BY <1>1, <1>2, <1>5, <1>6 DEF LockInv, TypeOK
<1>11. s \notin {"Starting", "Restoring", "Saving", "LiveSnapshotting",
                "OnlineSnapshotting", "DeletingSnapshotOnline",
                "DeletingSnapshotPaused", "Snapshotting", "DeletingSnapshot",
                "RestoringSnapshot"}
  BY DEF Resting
<1>12. hasSnap' \in [Machines -> BOOLEAN]
  BY DEF TypeOK
<1>13. QED
  BY <1>1, <1>2, <1>3, <1>4, <1>5, <1>8, <1>9, <1>10, <1>11, <1>12, VirtualBoxKeepsInv

LEMMA CompleteKeepsInv ==
    ASSUME LifecycleAssumption, IInv, NEW m \in Machines, Complete(m)
    PROVE  IInv'
<1> USE DEF IInv
<1>1. /\ busyFor' = [busyFor EXCEPT ![m] = Nobody]
      /\ UNCHANGED <<pc, op, target, nested, asked, reply, up>>
  BY DEF Complete
<1>2. hasSnap' \in [Machines -> BOOLEAN]
  BY DEF Complete, TypeOK
<1>3. CASE state[m] \in {"Starting", "Restoring"}
  <2>1. UNCHANGED hasSnap /\ (PassesTo(m, "Running") \/ ProcessEnds(m, prior[m]))
    BY <1>3 DEF Complete
  <2>2. prior[m] \in Resting /\ state[m] \in Online /\ "Running" \in Online
    BY <1>3 DEF CallInv, Online
  <2>3. CASE PassesTo(m, "Running")
    BY <1>1, <1>2, <2>2, <2>3, PassKeepsInv
  <2>4. CASE ProcessEnds(m, prior[m])
    BY <1>1, <2>1, <2>2, <2>4, ProcessEndKeepsInv
  <2>5. QED
    BY <2>1, <2>3, <2>4
<1>4. CASE state[m] = "Stopping"
  <2>1. UNCHANGED hasSnap /\ ProcessEnds(m, "PoweredOff")
    BY <1>4 DEF Complete
  <2>2. "PoweredOff" \in Resting /\ state[m] \in Online
    BY <1>4 DEF Resting, Online
  <2>3. QED
    BY <1>1, <2>1, <2>2, ProcessEndKeepsInv
<1>5. CASE state[m] = "Saving"
  <2>1. UNCHANGED hasSnap /\ (ProcessEnds(m, "Saved") \/ PassesTo(m, prior[m]))
    BY <1>5 DEF Complete
  <2>2. /\ prior[m] \in {"Running", "Paused"} /\ prior[m] \in Online
        /\ state[m] \in Online /\ "Saved" \in Resting
    BY <1>5 DEF CallInv, Online, Resting
  <2>3. CASE ProcessEnds(m, "Saved")
    BY <1>1, <2>1, <2>2, <2>3, ProcessEndKeepsInv
  <2>4. CASE PassesTo(m, prior[m])
    BY <1>1, <1>2, <2>2, <2>4, PassKeepsInv
  <2>5. QED
    BY <2>1, <2>3, <2>4
<1>6. CASE state[m] \in {"LiveSnapshotting", "OnlineSnapshotting",
                         "DeletingSnapshotOnline", "DeletingSnapshotPaused"}
  <2>1. PassesTo(m, prior[m])
    BY <1>6 DEF Complete
  <2>2. prior[m] \in {"Running", "Paused"} /\ prior[m] \in Online /\ state[m] \in Online
    BY <1>6 DEF CallInv, Online
  <2>3. QED
    BY <1>1, <1>2, <2>1, <2>2, PassKeepsInv
<1>7. CASE state[m] \in {"Snapshotting", "DeletingSnapshot", "RestoringSnapshot"}
  <2>1. prior[m] \in Resting /\ state[m] \notin Online
    BY <1>7 DEF CallInv, Online
  <2>2. PICK s \in Resting : PassesTo(m, s)
    BY <1>7, <2>1 DEF Complete, Resting
  <2>3. s \notin Online
    BY DEF Resting, Online
  <2>4. QED
    BY <1>1, <1>2, <2>1, <2>2, <2>3, PassKeepsInv
<1>8. QED
  BY <1>3, <1>4, <1>5, <1>6, <1>7 DEF Complete

LEMMA GuestActsKeepsInv ==
    ASSUME LifecycleAssumption, IInv, NEW m \in Machines, GuestActs(m)
    PROVE  IInv'
<1>1. PICK s \in {"Stopping", "Stuck"} : PassesTo(m, s)
  BY DEF GuestActs
<1>2. s \in Online /\ state[m] \in Online /\ hasSnap' \in [Machines -> BOOLEAN]
  BY DEF GuestActs, Online, IInv, TypeOK
<1>3. QED
  BY <1>1, <1>2, PassKeepsInv DEF GuestActs

LEMMA VmCrashesKeepsInv ==
    ASSUME LifecycleAssumption, IInv, NEW m \in Machines, VmCrashes(m)
    PROVE  IInv'
<1>1. "Aborted" \in Resting
  BY DEF Resting
<1>2. QED
  BY <1>1, ProcessEndKeepsInv DEF VmCrashes

LEMMA ReapKeepsInv ==
    ASSUME LifecycleAssumption, IInv, NEW m \in Machines, Reap(m)
    PROVE  IInv'
<1> USE DEF IInv
<1>1. "Aborted" \in States /\ "Aborted" \notin Online /\ state[m] \notin Online
  BY DEF Reap, States, Online, Resting
<1>2. /\ state' = [state EXCEPT ![m] = "Aborted"] /\ prior' = [prior EXCEPT ![m] = prior[m]]
      /\ prior[m] \in States
      /\ writer' = [writer EXCEPT ![m] = Nobody] /\ writer[m] = Abandoned
      /\ UNCHANGED <<busyFor, hasSnap, pc, op, target, nested, link, asked, reply, up>>
  BY DEF Reap, TypeOK, worker
<1>3. /\ writer' \in [Machines -> Workers \cup {Nobody, Vm, Abandoned}]
      /\ writer'[m] = Nobody
      /\ \A k \in Machines : k # m => writer'[k] = writer[k]
      /\ state'[m] = "Aborted"
      /\ \A k \in Machines : k # m => state'[k] = state[k]
  BY <1>2 DEF TypeOK
<1>4. {Nobody, Vm, Abandoned} \cap Workers = {} /\ Nobody # Vm
  BY DEF LifecycleAssumption
<1>5. \A v \in Workers, k \in Machines :
          writer'[k] = v <=> link'[v] = "write" /\ target[v] = k
  BY <1>2, <1>3, <1>4 DEF LockInv
<1>6. \A v \in Workers : link'[v] = "shared" => writer'[target[v]] \notin {Nobody, Abandoned}
  BY <1>2, <1>3 DEF LockInv
<1>7. \A k \in Machines : writer'[k] = Vm <=> state'[k] \in Online
  BY <1>1, <1>3, <1>4 DEF LockInv
<1>8. /\ link' \in [Workers -> Links] /\ busyFor' \in [Machines -> Workers \cup {Nobody}]
      /\ hasSnap' \in [Machines -> BOOLEAN]
  BY <1>2 DEF TypeOK
<1>9. QED
  BY <1>1, <1>2, <1>3, <1>5, <1>6, <1>7, <1>8, VirtualBoxKeepsInv

-----------------------------------------------------------------------------
(* The invariant.                                                          *)

LEMMA InitEstablishesInv ==
    ASSUME LifecycleAssumption, Init
    PROVE  IInv
<1> USE DEF Init
<1>1. \A m \in Machines : state[m] \in {"PoweredOff", "Running"}
  OBVIOUS
<1>2. {"PoweredOff", "Running"} \subseteq States
  BY DEF States, Resting, Online
<1>3. writer \in [Machines -> {Nobody, Vm}]
  OBVIOUS
<1>4. TypeOK
  BY <1>1, <1>2, <1>3 DEF TypeOK, Steps, Operations, Links
<1>5. LockInv
  BY <1>1, <1>3 DEF LockInv, LifecycleAssumption
<1>6. CallInv
  BY <1>1 DEF CallInv
<1>7. AnsweredAfterProgress /\ TrueMeansAsked /\ FalseMeansUntouched
  BY DEF AnsweredAfterProgress, TrueMeansAsked, FalseMeansUntouched, LifecycleAssumption
<1>8. QED
  BY <1>4, <1>5, <1>6, <1>7 DEF IInv

LEMMA NextKeepsInv ==
    ASSUME LifecycleAssumption, IInv, [Next]_vars
    PROVE  IInv'
<1>1. CASE UNCHANGED vars
  <2> USE <1>1 DEF IInv, vars
  <2>1. TypeOK' /\ AnsweredAfterProgress'
    BY DEF TypeOK, AnsweredAfterProgress
  <2>2. LockInv'
    BY DEF LockInv
  <2>3. CallInv'
    BY DEF CallInv, Doing
  <2>4. TrueMeansAsked' /\ FalseMeansUntouched'
    BY DEF TrueMeansAsked, FalseMeansUntouched, Answered
  <2>5. QED
    BY <2>1, <2>2, <2>3, <2>4
<1>2. ASSUME NEW w \in Workers, WorkerStep(w)
      PROVE  IInv'
  <2>1. CASE FindMachine(w)
    BY <2>1, FindMachineKeepsInv
  <2>2. CASE ReadState(w)
    BY <2>2, ReadStateKeepsInv
  <2>3. CASE Lock(w)
    BY <2>3, LockKeepsInv
  <2>4. CASE LockFails(w)
    BY <2>4, ThrowKeepsInv DEF LockFails
  <2>5. CASE RequestAccepted(w)
    BY <2>5, RequestAcceptedKeepsInv
  <2>6. CASE RequestFails(w)
    BY <2>6, ThrowKeepsInv DEF RequestFails
  <2>7. CASE NullDereference(w)
    BY <2>7, ServerEndsKeepsInv
  <2>8. CASE Wait(w)
    BY <2>8, WaitKeepsInv
  <2>9. CASE Unlock(w)
    BY <2>9, UnlockKeepsInv
  <2>10. CASE UnlockFails(w)
    BY <2>10, ThrowKeepsInv DEF UnlockFails
  <2>11. CASE NullErrorInfo(w)
    BY <2>11, ServerEndsKeepsInv
  <2>12. QED
    BY <1>2, <2>1, <2>2, <2>3, <2>4, <2>5, <2>6, <2>7, <2>8, <2>9, <2>10, <2>11 DEF WorkerStep
<1>3. ASSUME NEW w \in Workers, NEW x \in Offered, NEW n \in Machines \cup {Unknown},
             Call(w, x, n)
      PROVE  IInv'
  BY <1>3, CallKeepsInv
<1>4. ASSUME NEW m \in Machines, Complete(m) \/ GuestActs(m) \/ VmCrashes(m) \/ Reap(m)
      PROVE  IInv'
  BY <1>4, CompleteKeepsInv, GuestActsKeepsInv, VmCrashesKeepsInv, ReapKeepsInv
<1>5. QED
  BY <1>1, <1>2, <1>3, <1>4 DEF Next

\* The invariant of the life cycle operations: between lockMachine and
\* unlockMachine the session of a worker and the locks of VirtualBox agree, a
\* request is made by whoever has a session, and what is answered agrees with
\* what was asked (vca_core.cpp 75-440, 1028-1252).
THEOREM LifecycleInvariant == Spec => []IInv
<1>1. Init => IInv
  BY InitEstablishesInv, LifecycleAssumption
<1>2. IInv /\ [Next]_vars => IInv'
  BY NextKeepsInv, LifecycleAssumption
<1>3. QED
  BY <1>1, <1>2, PTL DEF Spec

\* Every variable of the operations and of the machines keeps its type.
THEOREM LifecycleTypes == Spec => []TypeOK
<1>1. IInv => TypeOK
  BY DEF IInv
<1>2. QED
  BY <1>1, LifecycleInvariant, PTL

\* A client that is told true has had its request accepted by VirtualBox, even
\* when the state read by the operation was stale by then.
THEOREM TrueIsAsked == Spec => []TrueMeansAsked
<1>1. IInv => TrueMeansAsked
  BY DEF IInv
<1>2. QED
  BY <1>1, LifecycleInvariant, PTL

\* A client that is told false by an operation with a definite result has had
\* nothing done to its machine.
THEOREM FalseIsUntouched == Spec => []FalseMeansUntouched
<1>1. IInv => FalseMeansUntouched
  BY DEF IInv
<1>2. QED
  BY <1>1, LifecycleInvariant, PTL

\* No operation that waits for its progress answers before VirtualBox is done.
THEOREM NoEarlyAnswer == Spec => []AnsweredAfterProgress
<1>1. IInv => AnsweredAfterProgress
  BY DEF IInv
<1>2. QED
  BY <1>1, LifecycleInvariant, PTL

-----------------------------------------------------------------------------
(* The sessions of the workers keep to what SessionLock promises.          *)

\* What the lock of a machine shows of a step.
Keeps(m) == [MachineLock(m)!LockNext]_(MachineLock(m)!lockVars)

LEMMA UnseenStep ==
    ASSUME NEW m \in Machines, writer'[m] = writer[m],
           \A v \in Workers :
              /\ v \in Sharing(m)' <=> v \in Sharing(m)
              /\ v \in Calling(m)' <=> v \in Calling(m)
    PROVE  Keeps(m)
<1>1. Sharing(m)' = Sharing(m) /\ Calling(m)' = Calling(m)
  BY DEF Sharing, Calling
<1>2. QED
  BY <1>1 DEF Keeps, MachineLock!lockVars

\* Whatever a call still has locked when it ends, it gives back or abandons.
LEMMA EndOfCall ==
    ASSUME IInv, NEW m \in Machines, NEW w \in Workers, NEW leaves \in {Nobody, Abandoned},
           NEW p \in {"answered", "threw"}, pc[w] \notin {"idle", "answered", "threw"},
           pc' = [pc EXCEPT ![w] = p], EndSession(w, leaves), target' = target
    PROVE  Keeps(m)
<1> USE DEF IInv, TypeOK, LockInv
<1>1. CASE target[w] = m
  <2>1. w \in Calling(m) /\ Calling(m)' = Calling(m) \ {w}
    BY <1>1 DEF Calling
  <2>2. CASE link[w] = "write"
    <3>1. writer[m] = w /\ writer'[m] = leaves
      BY <1>1, <2>2 DEF EndSession
    <3>2. Sharing(m)' = {}
      <4>1. link' = [LinksAfter(m) EXCEPT ![w] = "none"]
        BY <1>1, <2>2 DEF EndSession
      <4>2. \A v \in Workers : link'[v] = "shared" => target[v] # m
        BY <4>1, LinksAfterFacts
      <4>3. QED
        BY <4>2 DEF Sharing
    <3>3. MachineLock(m)!Ends(w)
      BY <2>1, <3>1, <3>2 DEF MachineLock!Ends, MachineLock!Passes
    <3>4. QED
      BY <3>3 DEF Keeps, MachineLock!LockNext
  <2>3. CASE link[w] # "write"
    <3>1. writer[m] # w /\ writer' = writer
      BY <1>1, <2>3 DEF EndSession
    <3>2. Sharing(m)' = Sharing(m) \ {w}
      BY <1>1, <2>3 DEF Sharing, EndSession
    <3>3. MachineLock(m)!Ends(w)
      BY <2>1, <3>1, <3>2 DEF MachineLock!Ends
    <3>4. QED
      BY <3>3 DEF Keeps, MachineLock!LockNext
  <2>4. QED
    BY <2>2, <2>3
<1>2. CASE target[w] # m
  <2>1. writer'[m] = writer[m]
    BY <1>2 DEF EndSession
  <2>2. \A v \in Workers : target[v] = m => (link'[v] = "shared" <=> link[v] = "shared")
    <3>1. CASE link[w] = "write"
      <4>1. link' = [LinksAfter(target[w]) EXCEPT ![w] = "none"] /\ target[w] \in Machines
        BY <3>1 DEF EndSession
      <4>2. QED
        BY <1>2, <4>1, LinksAfterFacts
    <3>2. CASE link[w] # "write"
      BY <1>2, <3>2 DEF EndSession
    <3>3. QED
      BY <3>1, <3>2
  <2>3. \A v \in Workers : v \in Calling(m)' <=> v \in Calling(m)
    BY <1>2 DEF Calling
  <2>4. QED
    BY <2>1, <2>2, <2>3, UnseenStep DEF Sharing
<1>3. QED
  BY <1>1, <1>2

LEMMA ThrowKeepsToLock ==
    ASSUME IInv, NEW m \in Machines, NEW w \in Workers,
           pc[w] \notin {"idle", "answered", "threw"}, Throw(w)
    PROVE  Keeps(m)
<1>1. PICK p \in {"answered", "threw"} : pc' = [pc EXCEPT ![w] = p]
  BY DEF Throw
<1>2. QED
  BY <1>1, EndOfCall DEF Throw

\* A worker between the steps that touch its session.
LEMMA GoingOnKeepsToLock ==
    ASSUME IInv, NEW m \in Machines, NEW w \in Workers,
           pc[w] \notin {"idle", "answered", "threw"},
           NEW p \in Steps \ {"idle", "answered", "threw"}, pc' = [pc EXCEPT ![w] = p],
           UNCHANGED <<writer, link, target>>
    PROVE  Keeps(m)
  BY UnseenStep DEF IInv, TypeOK, Sharing, Calling

LEMMA LockKeepsToLock ==
    ASSUME IInv, NEW m \in Machines, NEW w \in Workers, Lock(w)
    PROVE  Keeps(m)
<1> USE DEF IInv, TypeOK
<1>1. pc[w] = "lock" /\ target[w] \in Machines /\ link[w] = "none"
  BY DEF Lock, LockInv, CallInv
<1>2. Calling(m)' = Calling(m)
  BY <1>1 DEF Lock, Calling
<1>3. CASE target[w] # m
  <2>1. writer'[m] = writer[m] /\ Sharing(m)' = Sharing(m)
    BY <1>1, <1>3 DEF Lock, Sharing
  <2>2. QED
    BY <1>2, <2>1, UnseenStep
<1>4. CASE target[w] = m
  <2>1. w \in Calling(m)
    BY <1>1, <1>4 DEF Calling
  <2>2. CASE writer[m] = Nobody
    <3>1. writer'[m] = w /\ Sharing(m)' = Sharing(m)
      BY <1>1, <1>4, <2>2 DEF Lock, Sharing
    <3>2. MachineLock(m)!Locks(w)
      BY <1>2, <2>1, <2>2, <3>1 DEF MachineLock!Locks
    <3>3. QED
      BY <3>2 DEF Keeps, MachineLock!LockNext
  <2>3. CASE writer[m] # Nobody
    <3>1. writer[m] \in Workers \cup {Vm} /\ writer' = writer
      BY <1>4, <2>3 DEF Lock
    <3>2. Sharing(m)' = Sharing(m) \cup {w}
      BY <1>1, <1>4, <2>3 DEF Lock, Sharing
    <3>3. MachineLock(m)!LinksTo(w)
      BY <1>2, <2>1, <3>1, <3>2 DEF MachineLock!LinksTo
    <3>4. QED
      BY <3>3 DEF Keeps, MachineLock!LockNext
  <2>4. QED
    BY <2>2, <2>3
<1>5. QED
  BY <1>3, <1>4

\* launchVMProcess gives the lock to the machine's process and a link to the worker.
LEMMA RequestKeepsToLock ==
    ASSUME IInv, NEW m \in Machines, NEW w \in Workers, RequestAccepted(w)
    PROVE  Keeps(m)
<1> USE DEF IInv, TypeOK
<1>1. pc[w] = "request" /\ target[w] \in Machines /\ target' = target
  BY DEF RequestAccepted, CallInv
<1>2. PICK p \in {"wait", "unlock"} : pc' = [pc EXCEPT ![w] = p]
  BY DEF RequestAccepted
<1>3. Calling(m)' = Calling(m)
  BY <1>1, <1>2 DEF Calling
<1>4. CASE Doing(w).request # "launchVMProcess"
  <2>1. UNCHANGED <<writer, link>>
    BY <1>4 DEF RequestAccepted
  <2>2. QED
    BY <1>1, <1>2, <2>1, GoingOnKeepsToLock DEF Steps
<1>5. CASE Doing(w).request = "launchVMProcess"
  <2>1. /\ writer[target[w]] = Nobody /\ writer' = [writer EXCEPT ![target[w]] = Vm]
        /\ link' = [link EXCEPT ![w] = "shared"]
    BY <1>5 DEF RequestAccepted, Possible
  <2>2. CASE target[w] # m
    <3>1. writer'[m] = writer[m] /\ Sharing(m)' = Sharing(m)
      BY <1>1, <2>1, <2>2 DEF Sharing
    <3>2. QED
      BY <1>3, <3>1, UnseenStep
  <2>3. CASE target[w] = m
    <3>1. writer[m] = Nobody /\ writer'[m] = Vm
      BY <2>1, <2>3
    <3>2. Sharing(m) = {}
      BY <3>1 DEF Sharing, LockInv
    <3>3. Sharing(m)' = {w} /\ w \in Calling(m)
      BY <1>1, <2>1, <2>3, <3>2 DEF Sharing, Calling
    <3>4. MachineLock(m)!Launches
      BY <1>3, <3>1, <3>3 DEF MachineLock!Launches
    <3>5. QED
      BY <3>4 DEF Keeps, MachineLock!LockNext
  <2>4. QED
    BY <2>2, <2>3
<1>6. QED
  BY <1>4, <1>5

LEMMA WorkerKeepsToLock ==
    ASSUME IInv, NEW m \in Machines, NEW w \in Workers, WorkerStep(w)
    PROVE  Keeps(m)
<1>1. CASE FindMachine(w)
  <2>1. CASE target[w] \in Machines
    BY <1>1, <2>1, GoingOnKeepsToLock DEF FindMachine, vbox, Steps
  <2>2. CASE target[w] \notin Machines
    BY <1>1, <2>2, ThrowKeepsToLock DEF FindMachine
  <2>3. QED
    BY <2>1, <2>2
<1>2. CASE ReadState(w)
  <2>1. CASE GoOn(w)
    <3>1. PICK p \in {"request", "lock"} : pc' = [pc EXCEPT ![w] = p]
      BY <2>1 DEF GoOn
    <3>2. QED
      BY <1>2, <2>1, <3>1, GoingOnKeepsToLock DEF ReadState, GoOn, vbox, Steps
  <2>2. CASE SleepInstead(w)
    BY <1>2, <2>2, GoingOnKeepsToLock DEF ReadState, SleepInstead, vbox, Steps
  <2>3. CASE Refuse(w)
    <3>1. link[w] = "none"
      BY <1>2 DEF ReadState, IInv, LockInv
    <3>2. EndSession(w, Nobody)
      BY <2>3, <3>1 DEF Refuse, vbox, EndSession, IInv, TypeOK
    <3>3. QED
      BY <1>2, <2>3, <3>2, EndOfCall DEF ReadState, Refuse, Answer
  <2>4. QED
    BY <1>2, <2>1, <2>2, <2>3 DEF ReadState
<1>3. CASE Lock(w)
  BY <1>3, LockKeepsToLock
<1>4. CASE RequestAccepted(w)
  BY <1>4, RequestKeepsToLock
<1>5. CASE LockFails(w) \/ RequestFails(w) \/ UnlockFails(w)
  BY <1>5, ThrowKeepsToLock DEF LockFails, RequestFails, UnlockFails
<1>6. CASE Wait(w)
  BY <1>6, GoingOnKeepsToLock DEF Wait, vbox, Steps
<1>7. CASE Unlock(w)
  BY <1>7, EndOfCall DEF Unlock, Answer
<1>8. CASE NullDereference(w) \/ NullErrorInfo(w)
  BY <1>8, UnseenStep DEF NullDereference, NullErrorInfo, vbox, worker, Sharing, Calling
<1>9. QED
  BY <1>1, <1>2, <1>3, <1>4, <1>5, <1>6, <1>7, <1>8 DEF WorkerStep

\* The process of a machine ends, of this one or of another.
LEMMA ProcessEndKeepsToLock ==
    ASSUME IInv, NEW m \in Machines, NEW k \in Machines, NEW s,
           state[k] \in Online, ProcessEnds(k, s), UNCHANGED <<pc, target>>
    PROVE  Keeps(m)
<1> USE DEF IInv, TypeOK
<1>1. Calling(m)' = Calling(m)
  BY DEF Calling
<1>2. CASE k = m
  <2>1. writer[m] = Vm /\ writer'[m] = Nobody
    BY <1>2 DEF ProcessEnds, LockInv
  <2>2. Sharing(m)' = {}
    BY <1>2 DEF ProcessEnds, LinksAfter, Sharing
  <2>3. MachineLock(m)!ProcessEnds
    BY <1>1, <2>1, <2>2 DEF MachineLock!ProcessEnds, MachineLock!Passes
  <2>4. QED
    BY <2>3 DEF Keeps, MachineLock!LockNext
<1>3. CASE k # m
  <2>1. writer'[m] = writer[m] /\ Sharing(m)' = Sharing(m)
    BY <1>3 DEF ProcessEnds, LinksAfter, Sharing
  <2>2. QED
    BY <1>1, <2>1, UnseenStep
<1>4. QED
  BY <1>2, <1>3

LEMMA VirtualBoxKeepsToLock ==
    ASSUME IInv, NEW m \in Machines, NEW k \in Machines,
           Complete(k) \/ GuestActs(k) \/ VmCrashes(k) \/ Reap(k)
    PROVE  Keeps(m)
<1> USE DEF IInv, TypeOK
<1>1. ASSUME UNCHANGED <<writer, link, pc, target>>
      PROVE  Keeps(m)
  BY <1>1, UnseenStep DEF Sharing, Calling
<1>2. CASE Complete(k)
  <2>1. UNCHANGED <<pc, target>>
    BY <1>2 DEF Complete
  <2>2. \/ UNCHANGED <<writer, link>>
        \/ state[k] \in Online /\ \E s : ProcessEnds(k, s)
    BY <1>2 DEF Complete, PassesTo, Online
  <2>3. QED
    BY <1>1, <2>1, <2>2, ProcessEndKeepsToLock
<1>3. CASE GuestActs(k)
  BY <1>1, <1>3 DEF GuestActs, PassesTo
<1>4. CASE VmCrashes(k)
  BY <1>4, ProcessEndKeepsToLock DEF VmCrashes
<1>5. CASE Reap(k)
  <2>1. UNCHANGED <<link, pc, target>> /\ writer' = [writer EXCEPT ![k] = Nobody]
        /\ writer[k] = Abandoned
    BY <1>5 DEF Reap, worker
  <2>2. Sharing(m)' = Sharing(m) /\ Calling(m)' = Calling(m)
    BY <2>1 DEF Sharing, Calling
  <2>3. CASE k # m
    BY <2>1, <2>2, <2>3, UnseenStep
  <2>4. CASE k = m
    <3>1. Sharing(m) = {} /\ writer'[m] = Nobody
      BY <2>1, <2>4 DEF Sharing, LockInv
    <3>2. MachineLock(m)!Reaps
      BY <2>1, <2>2, <2>4, <3>1 DEF MachineLock!Reaps, MachineLock!Passes
    <3>3. QED
      BY <3>2 DEF Keeps, MachineLock!LockNext
  <2>5. QED
    BY <2>3, <2>4
<1>6. QED
  BY <1>2, <1>3, <1>4, <1>5

\* The ten operations take the lock of a machine only from nobody, link only to
\* a session that has it, and keep neither when they are over, however they end:
\* on every machine at the same time.
THEOREM LifecycleImplementsSessionLock == Spec => ImplementsSessionLock
<1>1. Init => \A m \in Machines : MachineLock(m)!LockInit
  <2> SUFFICES ASSUME Init, NEW m \in Machines
               PROVE  MachineLock(m)!LockInit
    OBVIOUS
  <2>1. Sharing(m) = {} /\ Calling(m) = {}
    BY DEF Init, Sharing, Calling
  <2>2. QED
    BY <2>1 DEF Init, MachineLock!LockInit
<1>2. IInv /\ [Next]_vars => \A m \in Machines : Keeps(m)
  <2> SUFFICES ASSUME IInv, [Next]_vars, NEW m \in Machines
               PROVE  Keeps(m)
    OBVIOUS
  <2>1. CASE \E w \in Workers : WorkerStep(w)
    BY <2>1, WorkerKeepsToLock
  <2>2. ASSUME NEW w \in Workers, NEW x \in Offered, NEW n \in Machines \cup {Unknown},
               Call(w, x, n)
        PROVE  Keeps(m)
    <3> USE DEF IInv, TypeOK
    <3>1. /\ pc[w] \in {"idle", "answered", "threw"} /\ pc' = [pc EXCEPT ![w] = "find"]
          /\ target' = [target EXCEPT ![w] = n] /\ UNCHANGED <<writer, link>>
          /\ link[w] = "none"
      BY <2>2 DEF Call, vbox, LockInv
    <3>2. Sharing(m)' = Sharing(m)
      BY <3>1 DEF Sharing
    <3>3. CASE n = m
      <4>1. w \notin Calling(m) /\ Calling(m)' = Calling(m) \cup {w}
        BY <3>1, <3>3 DEF Calling
      <4>2. MachineLock(m)!Begins(w)
        BY <3>1, <3>2, <4>1 DEF MachineLock!Begins
      <4>3. QED
        BY <4>2 DEF Keeps, MachineLock!LockNext
    <3>4. CASE n # m
      <4>1. Calling(m)' = Calling(m)
        BY <3>1, <3>4 DEF Calling
      <4>2. QED
        BY <3>1, <3>2, <4>1, UnseenStep
    <3>5. QED
      BY <3>3, <3>4
  <2>3. CASE \E k \in Machines : Complete(k) \/ GuestActs(k) \/ VmCrashes(k) \/ Reap(k)
    BY <2>3, VirtualBoxKeepsToLock
  <2>4. CASE UNCHANGED vars
    BY <2>4, UnseenStep DEF vars, Sharing, Calling
  <2>5. QED
    BY <2>1, <2>2, <2>3, <2>4 DEF Next
<1>3. IInv /\ [Next]_vars =>
         [\A m \in Machines : [MachineLock(m)!LockNext]_(MachineLock(m)!lockVars)]_vars
  BY <1>2 DEF Keeps
<1>4. QED
  BY <1>1, <1>3, LifecycleInvariant, PTL DEF Spec, ImplementsSessionLock

=============================================================================
