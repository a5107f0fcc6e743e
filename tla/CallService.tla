---------------------------- MODULE CallService ----------------------------
(***************************************************************************)
(* What a client of the service is promised, without contexts, completion  *)
(* queue or threads: a call that reaches the server has its controller     *)
(* function run at most once, an answer comes only after that function has *)
(* returned, and a call is answered at most once.  A client may give up    *)
(* (deadline, cancellation, lost connection) at any time before the        *)
(* answer; the controller may then still run.  VcaService implements it.   *)
(***************************************************************************)
CONSTANT Calls

VARIABLES
    call,  \* what has become of each call
    run    \* whether the controller function has run for it

callVars == <<call, run>>

CallStates == {"idle", "sent", "accepted", "cancelled", "answered", "closed"}
RunStates == {"notYet", "running", "returned"}

CallInit ==
    /\ call = [k \in Calls |-> "idle"]
    /\ run = [k \in Calls |-> "notYet"]

Become(k, from, to) ==
    /\ call[k] = from
    /\ call' = [call EXCEPT ![k] = to]

RunBecomes(k, from, to) ==
    /\ run[k] = from
    /\ run' = [run EXCEPT ![k] = to]

Send(k) == Become(k, "idle", "sent") /\ UNCHANGED run
Accept(k) == Become(k, "sent", "accepted") /\ UNCHANGED run
Drop(k) == Become(k, "sent", "closed") /\ UNCHANGED run
GiveUp(k) == Become(k, "accepted", "cancelled") /\ UNCHANGED run

BeginRun(k) ==
    /\ call[k] \in {"accepted", "cancelled"}
    /\ RunBecomes(k, "notYet", "running")
    /\ UNCHANGED call

EndRun(k) == RunBecomes(k, "running", "returned") /\ UNCHANGED call

Answer(k) == Become(k, "accepted", "answered") /\ RunBecomes(k, "returned", "notYet")
Close(k) == Become(k, "cancelled", "closed") /\ RunBecomes(k, "returned", "notYet")

\* The client makes its next call.
Again(k) ==
    /\ call[k] \in {"answered", "closed"}
    /\ call' = [call EXCEPT ![k] = "idle"]
    /\ UNCHANGED run

CallNext ==
    \E k \in Calls :
        \/ Send(k) \/ Accept(k) \/ Drop(k) \/ GiveUp(k)
        \/ BeginRun(k) \/ EndRun(k) \/ Answer(k) \/ Close(k) \/ Again(k)

CallSpec == CallInit /\ [][CallNext]_callVars

=============================================================================
