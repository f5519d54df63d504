---------------------------- MODULE StopTheWorld ----------------------------
(***************************************************************************)
(* What SafepointManager promises its callers (the contract stated in      *)
(* src/src/vmbase/Safepoint.h), without records, mutexes, gates or         *)
(* interrupt words: threads run in the context of a manager or do not, and *)
(* a task runs on a manager only while nobody runs in its context.         *)
(***************************************************************************)
CONSTANTS Threads, Managers, NoThread, NoManager

VARIABLES
    running,    \* the manager in whose context a thread is running code
    tasker      \* the thread that runs a task on a manager

vars == <<running, tasker>>

Init ==
    /\ running = [t \in Threads |-> NoManager]
    /\ tasker = [m \in Managers |-> NoThread]

\* A thread starts to run in a context that no task has stopped.
Run(t, m) ==
    /\ running[t] = NoManager
    /\ tasker[m] = NoThread
    /\ \A n \in Managers : tasker[n] # t
    /\ running' = [running EXCEPT ![t] = m]
    /\ UNCHANGED tasker

\* A running thread becomes safe, or leaves the context.
Pause(t) ==
    /\ running' = [running EXCEPT ![t] = NoManager]
    /\ UNCHANGED tasker

\* A task starts: nobody runs in the context.
BeginTask(t, m) ==
    /\ tasker[m] = NoThread
    /\ \A u \in Threads : running[u] # m
    /\ running[t] = NoManager
    /\ \A n \in Managers : tasker[n] # t
    /\ tasker' = [tasker EXCEPT ![m] = t]
    /\ UNCHANGED running

\* The task ends and its thread runs on in the context.
EndTask(t, m) ==
    /\ tasker[m] = t
    /\ tasker' = [tasker EXCEPT ![m] = NoThread]
    /\ running' = [running EXCEPT ![t] = m]

Next ==
    \E t \in Threads :
        \/ Pause(t)
        \/ \E m \in Managers : Run(t, m) \/ BeginTask(t, m) \/ EndTask(t, m)

Spec == Init /\ [][Next]_vars
=============================================================================
