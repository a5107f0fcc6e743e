--------------------------- MODULE MachineRegistry ---------------------------
(***************************************************************************)
(* What a client that makes and deletes machines is promised, without      *)
(* sessions, media and progress: a machine is absent or there as a whole,  *)
(* and in between only while a call is at work on it; a call changes the   *)
(* machine it names and no other; a call that makes a machine and answers  *)
(* true has made it.  Two things are excepted.  Of a machine that a call   *)
(* which makes or deletes has met an error with, nothing is promised any   *)
(* more; and a machine made while its predecessor is still being deleted   *)
(* may lose its files to that deletion.  VmProvisioning implements it.     *)
(***************************************************************************)
CONSTANTS Names,    \* of machines
          Workers,  \* who carries out the calls
          Tasks,    \* the calls: [kind, name, of]
          Idle      \* the task of a worker that has none

VARIABLES
    machine,  \* how much of each machine there is
    task,     \* the call each worker is carrying out
    answer    \* the result of its last call

registryVars == <<machine, task, answer>>

Status == {"absent", "partial", "whole", "overtaken", "unknown"}

RegistryInit ==
    /\ machine = [n \in Names |-> "absent"]
    /\ task = [w \in Workers |-> Idle]
    /\ answer = [w \in Workers |-> "none"]

\* How a call may change the machine it names.
Advance(kind) ==
    CASE kind = "makes" -> {<<"absent", "partial">>, <<"absent", "whole">>, <<"partial", "whole">>}
      [] kind = "deletes" -> {<<"whole", "partial">>, <<"partial", "absent">>,
                              <<"overtaken", "partial">>, <<"overtaken", "absent">>}
      [] kind = "other" -> {}

\* No machine changes but those in S.
Only(S) ==
    /\ machine' \in [Names -> Status]
    /\ \A n \in Names \ S : machine'[n] = machine[n]

Asks(w) ==
    /\ task[w] = Idle /\ task'[w] # Idle
    /\ \E t \in Tasks : task' = [task EXCEPT ![w] = t]
    /\ answer' = [answer EXCEPT ![w] = "none"]
    /\ UNCHANGED machine

\* A call ends with its machine no longer in between, unless somebody else is at
\* work on it too; true says that the machine has been made.
Ends(w) ==
    LET n == task[w].name
    IN  /\ task' = [task EXCEPT ![w] = Idle]
        /\ \E r \in {"true", "false", "none"} :
              /\ answer' = [answer EXCEPT ![w] = r]
              /\ r = "true" /\ task[w].kind = "makes" =>
                    machine'[n] \in {"whole", "overtaken", "unknown"}
        /\ n \in Names /\ machine'[n] = "partial" =>
              \E v \in Workers \ {w} : task[v] # Idle /\ task[v].name = n

GoesOn == UNCHANGED <<task, answer>>

Works(w) ==
    LET n == task[w].name
    IN  /\ n \in Names
        /\ <<machine[n], machine'[n]>> \in Advance(task[w].kind)
        /\ Only({n})

\* A machine is made anew before the deletion of its predecessor is over.
Overtakes(w) ==
    LET n == task[w].name
    IN  /\ n \in Names /\ task[w].kind = "makes"
        /\ machine[n] \in {"absent", "partial"} /\ machine'[n] = "overtaken"
        /\ \E v \in Workers \ {w} : task[v].kind = "deletes" /\ task[v].name = n
        /\ Only({n})

\* An error of a call that makes or deletes: nothing is known of the machine any
\* more, nor of the one that the new machine was being made from.
Errs(w) ==
    LET lost == {task[w].name, task[w].of} \cap Names
    IN  /\ task[w].kind \in {"makes", "deletes"}
        /\ Only(lost)
        /\ \A n \in lost : machine'[n] \in {machine[n], "unknown"}

RegistryNext ==
    \E w \in Workers :
        \/ Asks(w)
        \/ /\ task[w] # Idle
           /\ GoesOn \/ Ends(w)
           /\ Works(w) \/ Overtakes(w) \/ Errs(w) \/ UNCHANGED machine

RegistrySpec == RegistryInit /\ [][RegistryNext]_registryVars

=============================================================================
