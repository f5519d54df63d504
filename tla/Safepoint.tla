------------------------------ MODULE Safepoint ------------------------------
(***************************************************************************)
(* Stop-the-world safepoints of the VM base layer (src/src/vmbase/         *)
(* Safepoint.cpp and Safepoint-inlines.h).                                 *)
(*                                                                         *)
(* Threads enter and leave the context of a SafepointManager by linking    *)
(* and unlinking a SafepointRecord that lives on their stack.  A thread in *)
(* the context of a manager may request a task: it takes the manager's     *)
(* m_requestMutex, announces itself in m_requester, asks the other threads *)
(* to poll through their interrupt words, spins until every linked record  *)
(* is SP_SAFE, runs the task and releases everybody.                       *)
(*                                                                         *)
(* What is abstracted.  The linked list m_records is the set Linked(m):    *)
(* the code reads it only under m_requestMutex and never depends on its    *)
(* order.  m_isolateDesc is the thread, since an isolate has one thread.   *)
(* A critical section whose effects no other thread can read without the   *)
(* mutex is one step.  The recursive acquisition of m_requestMutex by the  *)
(* destructor of a gate that encloses lock() or wait() is part of the step *)
(* that gets the mutex.  Of the interrupt word only the three values that  *)
(* the requester tells apart are kept; the races on that word itself are   *)
(* the subject of module InterruptWord.                                    *)
(***************************************************************************)
EXTENDS Naturals, FiniteSets

CONSTANTS
    Threads,        \* the threads of the process, one isolate each
    Managers,       \* the SafepointManager instances
    MaxDepth,       \* bound: nested entries per thread
    Interruptible,  \* the threads whose core may be told to unwind
    NoThread,       \* null vmpi_thread_t
    NoManager       \* null SafepointManager*

ASSUME SafepointAssumption ==
    /\ MaxDepth \in Nat \ {0}
    /\ Interruptible \subseteq Threads
    /\ NoThread \notin Threads
    /\ NoManager \notin Managers

VARIABLES
    pc,         \* where each thread is in the protocol
    depth,      \* SafepointRecord::current() of t is record <<t, depth[t]>>
    manager,    \* m_manager of record <<t, d>>; linked iff # NoManager
    status,     \* m_status of record <<t, d>>
    owner,      \* the thread that holds the manager's m_requestMutex
    requester,  \* m_requester
    todo,       \* records the mutex holder's current loop has yet to visit
    target,     \* the manager a thread in enter() is entering
    intr        \* the interrupt word of the thread's core

vars == <<pc, depth, manager, status, owner, requester, todo, target, intr>>

Depths  == 1..MaxDepth
Records == Threads \X Depths

PCs == {"run", "unwind", "enter", "leave", "resume", "gate",
        "request", "interrupt", "wait", "woken", "spin", "task"}

\* The SafepointManager of the thread's current record.
Current(t) == IF depth[t] = 0 THEN NoManager ELSE manager[t][depth[t]]

\* The records on the manager's list m_records.
Linked(m) == {r \in Records : manager[r[1]][r[2]] = m}

\* The thread is executing script or native code that touches shared state.
Running(t) == pc[t] \in {"run", "unwind"}

-----------------------------------------------------------------------------
\* locker.notifyAll(): every requester waiting on the manager's monitor
\* leaves the condition variable and contends for the mutex again.
NotifyAll(m) ==
    [u \in Threads |-> IF pc[u] = "wait" /\ Current(u) = m THEN "woken" ELSE pc[u]]

\* The thread's current record gets the given status.
SetStatus(t, s) == status' = [status EXCEPT ![t][depth[t]] = s]

\* One pass of the do-loop of requestSafepointTask begins, mutex held: the
\* requester is safe from here on and polling threads see the request.
StartPass(t, m) ==
    /\ SetStatus(t, "SAFE")
    /\ requester' = [requester EXCEPT ![m] = t]
    /\ todo' = [todo EXCEPT ![m] = Linked(m)]

-----------------------------------------------------------------------------

\* SafepointManager::enter, up to the lock: the previous stack region, if
\* any, becomes safe before the thread can block.
EnterBegin(t, m) ==
    /\ pc[t] = "run"
    /\ depth[t] < MaxDepth
    /\ pc' = [pc EXCEPT ![t] = "enter"]
    /\ target' = [target EXCEPT ![t] = m]
    /\ IF depth[t] = 0 THEN UNCHANGED status ELSE SetStatus(t, "SAFE")
    /\ UNCHANGED <<depth, manager, owner, requester, todo, intr>>

\* Mutant of EnterLink: the record is linked without the request mutex.
EnterLinkUnlocked(t) ==
    /\ pc[t] = "enter"
    /\ manager' = [manager EXCEPT ![t][depth[t] + 1] = target[t]]
    /\ depth' = [depth EXCEPT ![t] = @ + 1]
    /\ pc' = [NotifyAll(target[t]) EXCEPT ![t] = "run"]
    /\ UNCHANGED <<status, owner, requester, todo, target, intr>>

\* The critical section of enter: link the record, notify, make it current.
EnterLink(t) ==
    LET m == target[t] IN
    /\ pc[t] = "enter"
    /\ owner[m] = NoThread
    /\ manager' = [manager EXCEPT ![t][depth[t] + 1] = m]
    /\ depth' = [depth EXCEPT ![t] = @ + 1]
    /\ pc' = [NotifyAll(m) EXCEPT ![t] = "run"]
    /\ UNCHANGED <<status, owner, requester, todo, target, intr>>

\* The critical section of leave: unlink the record and notify.  A nested
\* thread still has to make its previous record unsafe again.
Unlink(t) ==
    LET m == Current(t) IN
    /\ manager' = [manager EXCEPT ![t][depth[t]] = NoManager]
    /\ depth' = [depth EXCEPT ![t] = @ - 1]
    /\ pc' = [NotifyAll(m) EXCEPT ![t] = IF depth[t] > 1 THEN "resume" ELSE "run"]

\* SafepointManager::leave when tryLock gets the mutex at once.
LeaveTry(t) ==
    /\ Running(t)
    /\ depth[t] > 0
    /\ owner[Current(t)] = NoThread
    /\ Unlink(t)
    /\ UNCHANGED <<status, owner, requester, todo, target, intr>>

\* SafepointManager::leave when tryLock fails: the thread blocks on the
\* mutex inside a gate, so it is safe meanwhile.
LeaveBlock(t) ==
    /\ Running(t)
    /\ depth[t] > 0
    /\ owner[Current(t)] # NoThread
    /\ SetStatus(t, "SAFE")
    /\ pc' = [pc EXCEPT ![t] = "leave"]
    /\ UNCHANGED <<depth, manager, owner, requester, todo, target, intr>>

\* The blocked leaver gets the mutex, its gate closes and it unlinks.
LeaveLocked(t) ==
    /\ pc[t] = "leave"
    /\ owner[Current(t)] = NoThread
    /\ SetStatus(t, "UNSAFE")
    /\ Unlink(t)
    /\ UNCHANGED <<owner, requester, todo, target, intr>>

\* Mutant of Resume: the previous record becomes unsafe without the mutex.
ResumeUnlocked(t) ==
    /\ pc[t] = "resume"
    /\ SetStatus(t, "UNSAFE")
    /\ pc' = [NotifyAll(Current(t)) EXCEPT ![t] = "run"]
    /\ UNCHANGED <<depth, manager, owner, requester, todo, target, intr>>

\* The end of leave: unwinding into the previous record blocks until the
\* mutex of its manager is free.
Resume(t) ==
    LET m == Current(t) IN
    /\ pc[t] = "resume"
    /\ owner[m] = NoThread
    /\ SetStatus(t, "UNSAFE")
    /\ pc' = [NotifyAll(m) EXCEPT ![t] = "run"]
    /\ UNCHANGED <<depth, manager, owner, requester, todo, target, intr>>

-----------------------------------------------------------------------------
\* SafepointGate's constructor, around a call that may block or take long
\* (an implicit safepoint: MutexLocker, MonitorLocker, VMThread::sleep).
GateOpen(t) ==
    /\ pc[t] = "run"
    /\ depth[t] > 0
    /\ SetStatus(t, "SAFE")
    /\ pc' = [pc EXCEPT ![t] = "gate"]
    /\ UNCHANGED <<depth, manager, owner, requester, todo, target, intr>>

\* Mutant of GateClose: the destructor does not take the mutex.
GateCloseUnlocked(t) ==
    /\ pc[t] = "gate"
    /\ SetStatus(t, "UNSAFE")
    /\ pc' = [NotifyAll(Current(t)) EXCEPT ![t] = "run"]
    /\ UNCHANGED <<depth, manager, owner, requester, todo, target, intr>>

\* SafepointGate's destructor: become unsafe only under the request mutex.
GateClose(t) ==
    LET m == Current(t) IN
    /\ pc[t] = "gate"
    /\ owner[m] = NoThread
    /\ SetStatus(t, "UNSAFE")
    /\ pc' = [NotifyAll(m) EXCEPT ![t] = "run"]
    /\ UNCHANGED <<depth, manager, owner, requester, todo, target, intr>>

-----------------------------------------------------------------------------
\* requestSafepointTask when tryLock gets the mutex: the first pass begins.
RequestTry(t) ==
    LET m == Current(t) IN
    /\ pc[t] = "run"
    /\ depth[t] > 0
    /\ owner[m] = NoThread
    /\ owner' = [owner EXCEPT ![m] = t]
    /\ StartPass(t, m)
    /\ pc' = [pc EXCEPT ![t] = "interrupt"]
    /\ UNCHANGED <<depth, manager, target, intr>>

\* requestSafepointTask when tryLock fails: block inside a gate.
RequestBlock(t) ==
    /\ pc[t] = "run"
    /\ depth[t] > 0
    /\ owner[Current(t)] # NoThread
    /\ SetStatus(t, "SAFE")
    /\ pc' = [pc EXCEPT ![t] = "request"]
    /\ UNCHANGED <<depth, manager, owner, requester, todo, target, intr>>

\* The blocked or woken requester gets the mutex.  Its gate closes, which
\* notifies the monitor, and a pass begins, all before anyone else can lock.
RequestLocked(t) ==
    LET m == Current(t) IN
    /\ pc[t] \in {"request", "woken"}
    /\ owner[m] = NoThread
    /\ owner' = [owner EXCEPT ![m] = t]
    /\ StartPass(t, m)
    /\ pc' = [NotifyAll(m) EXCEPT ![t] = "interrupt"]
    /\ UNCHANGED <<depth, manager, target, intr>>

\* A spurious return of the condition variable.
SpuriousWake(t) ==
    /\ pc[t] = "wait"
    /\ pc' = [pc EXCEPT ![t] = "woken"]
    /\ UNCHANGED <<depth, manager, status, owner, requester, todo, target, intr>>

\* A record of another isolate that is still unsafe has to be interrupted.
MustInterrupt(t, r) == r[1] # t /\ status[r[1]][r[2]] = "UNSAFE"

\* Mutant of InterruptRecord: the word of the visited thread is left alone.
InterruptRecordSilent(t, r) ==
    /\ pc[t] = "interrupt"
    /\ r \in todo[Current(t)]
    /\ ~(MustInterrupt(t, r) /\ intr[r[1]] = "ext")
    /\ todo' = [todo EXCEPT ![Current(t)] = @ \ {r}]
    /\ UNCHANGED <<pc, depth, manager, status, owner, requester, target, intr>>

\* The interrupt loop visits a record: its own and safe ones are skipped,
\* and otherwise compareAndSwap installs SafepointPoll unless the word holds
\* a reason already.
InterruptRecord(t, r) ==
    LET m == Current(t) IN
    /\ pc[t] = "interrupt"
    /\ r \in todo[m]
    /\ ~(MustInterrupt(t, r) /\ intr[r[1]] = "ext")
    /\ intr' = IF MustInterrupt(t, r) THEN [intr EXCEPT ![r[1]] = "poll"] ELSE intr
    /\ todo' = [todo EXCEPT ![m] = @ \ {r}]
    /\ UNCHANGED <<pc, depth, manager, status, owner, requester, target>>

\* The visited thread has been told to unwind: undo the announcement and
\* wait on the monitor, inside a gate, for the list to change.
BackOff(t, r) ==
    LET m == Current(t) IN
    /\ pc[t] = "interrupt"
    /\ r \in todo[m]
    /\ MustInterrupt(t, r)
    /\ intr[r[1]] = "ext"
    /\ SetStatus(t, "SAFE")
    /\ requester' = [requester EXCEPT ![m] = NoThread]
    /\ owner' = [owner EXCEPT ![m] = NoThread]
    /\ todo' = [todo EXCEPT ![m] = {}]
    /\ pc' = [pc EXCEPT ![t] = "wait"]
    /\ UNCHANGED <<depth, manager, target, intr>>

\* Every record has been told: the busy-wait over the list begins.
StartSpin(t) ==
    LET m == Current(t) IN
    /\ pc[t] = "interrupt"
    /\ todo[m] = {}
    /\ todo' = [todo EXCEPT ![m] = Linked(m)]
    /\ pc' = [pc EXCEPT ![t] = "spin"]
    /\ UNCHANGED <<depth, manager, status, owner, requester, target, intr>>

\* The busy-wait goes past a record it has seen safe.
SpinPast(t, r) ==
    LET m == Current(t) IN
    /\ pc[t] = "spin"
    /\ r \in todo[m]
    /\ status[r[1]][r[2]] = "SAFE"
    /\ todo' = [todo EXCEPT ![m] = @ \ {r}]
    /\ UNCHANGED <<pc, depth, manager, status, owner, requester, target, intr>>

\* Mutant of StartTask: the busy-wait stops at the first record seen safe.
StartTaskEarly(t) ==
    /\ pc[t] = "spin"
    /\ todo[Current(t)] # Linked(Current(t))
    /\ intr' = [intr EXCEPT ![t] = "none"]
    /\ pc' = [pc EXCEPT ![t] = "task"]
    /\ UNCHANGED <<depth, manager, status, owner, requester, todo, target>>

\* All records have been seen safe: clear the own interrupt word, run task.
StartTask(t) ==
    /\ pc[t] = "spin"
    /\ todo[Current(t)] = {}
    /\ intr' = [intr EXCEPT ![t] = "none"]
    /\ pc' = [pc EXCEPT ![t] = "task"]
    /\ UNCHANGED <<depth, manager, status, owner, requester, todo, target>>

\* Mutant of FinishTask: the mutex is not released.
FinishTaskLocked(t) ==
    /\ pc[t] = "task"
    /\ SetStatus(t, "UNSAFE")
    /\ requester' = [requester EXCEPT ![Current(t)] = NoThread]
    /\ pc' = [pc EXCEPT ![t] = "run"]
    /\ UNCHANGED <<depth, manager, owner, todo, target, intr>>

\* The task returns: clean up and release the mutex.
FinishTask(t) ==
    LET m == Current(t) IN
    /\ pc[t] = "task"
    /\ SetStatus(t, "UNSAFE")
    /\ requester' = [requester EXCEPT ![m] = NoThread]
    /\ owner' = [owner EXCEPT ![m] = NoThread]
    /\ pc' = [pc EXCEPT ![t] = "run"]
    /\ UNCHANGED <<depth, manager, todo, target, intr>>

-----------------------------------------------------------------------------
\* AvmCore::raiseInterrupt from a timer, a signal or another isolate.  With
\* a poll already in the word the reason only pends.
RaiseInterrupt(t) ==
    /\ t \in Interruptible
    /\ intr[t] = "none"
    /\ intr' = [intr EXCEPT ![t] = "ext"]
    /\ UNCHANGED <<pc, depth, manager, status, owner, requester, todo, target>>

\* AvmCore::handleInterruptToplevel at a poll: pass through a gate if there
\* is still a request.  A reason that was pended meanwhile then unwinds the
\* thread, which are the leave steps that every running thread may take.
HandlePoll(t) ==
    /\ pc[t] = "run"
    /\ depth[t] > 0
    /\ intr[t] = "poll"
    /\ intr' = [intr EXCEPT ![t] = "none"]
    /\ IF requester[Current(t)] # NoThread
         THEN SetStatus(t, "SAFE") /\ pc' = [pc EXCEPT ![t] = "gate"]
         ELSE UNCHANGED <<pc, status>>
    /\ UNCHANGED <<depth, manager, owner, requester, todo, target>>

\* handleInterruptToplevel with a terminating reason: the stack unwinds, or,
\* in a method that is not interruptible, the reason is kept for later.
HandleUnwind(t) ==
    /\ pc[t] = "run"
    /\ depth[t] > 0
    /\ intr[t] = "ext"
    /\ intr' = [intr EXCEPT ![t] = "none"]
    /\ \/ pc' = [pc EXCEPT ![t] = "unwind"]
       \/ UNCHANGED pc
    /\ UNCHANGED <<depth, manager, status, owner, requester, todo, target>>

-----------------------------------------------------------------------------
Init ==
    /\ pc = [t \in Threads |-> "run"]
    /\ depth = [t \in Threads |-> 0]
    /\ manager = [t \in Threads |-> [d \in Depths |-> NoManager]]
    /\ status = [t \in Threads |-> [d \in Depths |-> "UNSAFE"]]
    /\ owner = [m \in Managers |-> NoThread]
    /\ requester = [m \in Managers |-> NoThread]
    /\ todo = [m \in Managers |-> {}]
    /\ target = [t \in Threads |-> NoManager]
    /\ intr = [t \in Threads |-> "none"]

Enter(t)   == (\E m \in Managers : EnterBegin(t, m)) \/ EnterLink(t)
Leave(t)   == LeaveTry(t) \/ LeaveBlock(t) \/ LeaveLocked(t) \/ Resume(t)
Gate(t)    == GateOpen(t) \/ GateClose(t)
Visit(t)   == \E r \in Records : InterruptRecord(t, r) \/ BackOff(t, r) \/ SpinPast(t, r)
Request(t) == \/ RequestTry(t) \/ RequestBlock(t) \/ RequestLocked(t) \/ SpuriousWake(t)
              \/ Visit(t) \/ StartSpin(t) \/ StartTask(t) \/ FinishTask(t)
Interrupt(t) == RaiseInterrupt(t) \/ HandlePoll(t) \/ HandleUnwind(t)

Next == \E t \in Threads : Enter(t) \/ Leave(t) \/ Gate(t) \/ Request(t) \/ Interrupt(t)

Spec == Init /\ [][Next]_vars

(***************************************************************************)
(* Fairness.  Compiled code reads the interrupt word at loop back-edges    *)
(* and method entries, so a running thread handles it; the loops and the   *)
(* critical sections of this file terminate; a mutex that is free again    *)
(* and again is not denied to a blocked thread forever (the operating      *)
(* system's scheduler).  Nothing makes a thread enter, leave of its own    *)
(* accord, request a task, or open a gate around a blocking call.          *)
(***************************************************************************)
Proceed(t) ==
    \/ HandlePoll(t) \/ HandleUnwind(t) \/ Visit(t) \/ StartSpin(t) \/ StartTask(t) \/ FinishTask(t)
    \/ pc[t] = "unwind" /\ (LeaveTry(t) \/ LeaveBlock(t))
GetMutex(t) == RequestLocked(t) \/ GateClose(t) \/ EnterLink(t) \/ LeaveLocked(t) \/ Resume(t)
Fairness == \A t \in Threads : WF_vars(Proceed(t)) /\ SF_vars(GetMutex(t))

LiveSpec == Spec /\ Fairness
-----------------------------------------------------------------------------
\* Types of the protocol state; a record index never leaves the stack bound
\* (SafepointRecord::current() is null or a record of the thread's stack).
TypeOK ==
    /\ pc \in [Threads -> PCs]
    /\ depth \in [Threads -> 0..MaxDepth]
    /\ manager \in [Threads -> [Depths -> Managers \cup {NoManager}]]
    /\ status \in [Threads -> [Depths -> {"SAFE", "UNSAFE"}]]
    /\ owner \in [Managers -> Threads \cup {NoThread}]
    /\ requester \in [Managers -> Threads \cup {NoThread}]
    /\ todo \in [Managers -> SUBSET Records]
    /\ target \in [Threads -> Managers \cup {NoManager}]
    /\ intr \in [Threads -> {"none", "poll", "ext"}]

\* "All threads will remain 'safe' until the task has completed execution"
\* (requestSafepointTask): while a task runs on a manager every record on its
\* list is SP_SAFE, and no other thread is executing code in its context.
TaskExclusion ==
    \A t \in Threads : pc[t] = "task" =>
        /\ \A r \in Linked(Current(t)) : status[r[1]][r[2]] = "SAFE"
        /\ \A u \in Threads \ {t} : ~(Running(u) /\ Current(u) = Current(t))

\* "SafepointRecords that are not top-most on a thread's stack are
\* necessarily always SP_SAFE", and the converse for the top-most one: it is
\* SP_UNSAFE exactly while the thread runs, so that a task is never started
\* over a running thread nor blocked by a suspended one.
BuriedSafe ==
    \A t \in Threads :
        /\ \A d \in Depths : d < depth[t] => status[t][d] = "SAFE"
        /\ depth[t] > 0 => (Running(t) <=> status[t][depth[t]] = "UNSAFE")

\* The assertion of ~SafepointRecord: a record that is on no list any more is
\* back to SP_UNSAFE, whichever way leave() got the mutex.
RecordsReset ==
    \A t \in Threads : \A d \in Depths :
        /\ manager[t][d] = NoManager <=> d > depth[t]
        /\ d > depth[t] => status[t][d] = "UNSAFE"

\* The request mutex and m_requester agree: a thread is announced exactly
\* while it is between its lock() and the end of its task, or its back-off,
\* in the context of that manager; so tasks of one manager are serialised and
\* a poll never stops a thread for a request that nobody is making.
RequesterHoldsMutex ==
    \A m \in Managers :
        /\ requester[m] = owner[m]
        /\ \A t \in Threads :
              owner[m] = t <=> pc[t] \in {"interrupt", "spin", "task"} /\ Current(t) = m

\* What the busy-wait has seen stays true: a record it has gone past cannot
\* become unsafe again before the task, although its status was read once.
SeenStaysSafe ==
    \A t \in Threads : pc[t] = "spin" =>
        \A r \in Linked(Current(t)) \ todo[Current(t)] : status[r[1]][r[2]] = "SAFE"

\* The records of all threads together: typed, reset when unlinked, safe when buried or
\* already seen by the busy-wait, with m_requester and its mutex in step through
\* back-offs, nested entries and unwinding.
RecordsConsistent ==
    TypeOK /\ BuriedSafe /\ RecordsReset /\ RequesterHoldsMutex /\ SeenStaysSafe

\* "No threads are allowed to enter or leave a SafepointManager's context
\* while it has a pending or ongoing SafepointTask": the list is frozen from
\* the announcement in m_requester to the end of the task.
MembershipFrozen ==
    [][\A m \in Managers : requester[m] # NoThread => Linked(m)' = Linked(m)]_vars

\* The refinement mapping: the context a thread runs in, and the task that
\* runs on a manager.
RunMap  == [t \in Threads |-> IF Running(t) THEN Current(t) ELSE NoManager]
TaskMap == [m \in Managers |->
                IF owner[m] # NoThread /\ pc[owner[m]] = "task" THEN owner[m] ELSE NoThread]

\* What the safepoint protocol promises, with the protocol forgotten.
STW == INSTANCE StopTheWorld WITH running <- RunMap, tasker <- TaskMap

\* Every behaviour of the protocol is one of the stop-the-world service.
StopsTheWorld == STW!Spec

\* Once the requester busy-waits, the poll it has sent to every running thread
\* brings all of them to a gate and the task runs.
SpinEnds == \A t \in Threads : pc[t] = "spin" ~> pc[t] = "task"

\* A thread that waits in its gate for the end of a task is let go.
GateReopens == \A t \in Threads : pc[t] = "gate" ~> pc[t] = "run"
=============================================================================
