----------------------------- MODULE WorkerMutex -----------------------------
(***************************************************************************)
(* flash.concurrent.Mutex and Condition (src/src/core/ConcurrencyGlue.cpp) *)
(* on top of Isolate::InterruptibleState (src/src/core/Isolate.cpp): an    *)
(* operating-system mutex, a FIFO list of wait records, and a monitor on   *)
(* which workers wait, so that a blocked worker can be terminated.         *)
(*                                                                         *)
(* One mutex and one condition on it.  Each has an InterruptibleState,     *)
(* here "mutex" and "cond".  A section of code under a monitor is split    *)
(* only where state shared without the monitor is touched: the OS mutex,   *)
(* m_waiterCount (read by tryLock) and the isolate's active state.  The    *)
(* polling loops `while (m_signaledWaiters > 0) cond.wait(0)` are guards.  *)
(* The script timeout of the primordial worker acts as a termination.      *)
(***************************************************************************)
EXTENDS Integers, Sequences, FiniteSets, SequencesExt

CONSTANTS
    Workers,        \* isolates, one thread each
    Terminable,     \* the workers somebody may terminate
    MaxRecursion,   \* bound: nested lock() or tryLock() calls of a worker
    ReentrantTry,   \* whether a worker calls tryLock() on a mutex it owns
    UseTryLock,     \* whether workers use tryLock() at all
    SpuriousWakes,  \* whether a condition variable returns for no reason
    NoWorker        \* VMPI_nullThread()

ASSUME WorkerMutexAssumption ==
    /\ Terminable \subseteq Workers
    /\ MaxRecursion \in Nat \ {0}
    /\ {ReentrantTry, UseTryLock, SpuriousWakes} \subseteq BOOLEAN
    /\ NoWorker \notin Workers

States == {"mutex", "cond"}
Kinds  == {"forever", "timed", "tick"}

VARIABLES
    pc,           \* where the worker is
    os,           \* the vmpi recursive mutex: owner and depth
    ownerID,      \* MutexObject::State::m_ownerThreadID
    recursion,    \* MutexObject::State::m_recursionCount
    hold,         \* what the script believes: its locks minus its unlocks
    saved,        \* saved_recursionCount of a worker in Condition.wait
    list,         \* InterruptibleState: the wait records, head first
    waiterCount,  \* InterruptibleState::m_waiterCount
    sigCount,     \* InterruptibleState::m_signaledWaiters
    monitor,      \* who holds InterruptibleState::m_condition
    signaled,     \* WaitRecord::signaled of the worker's record
    active,       \* Isolate::m_interruptibleState
    kind,         \* the kind of wait the worker is in
    expired,      \* Enter::result: the timed wait ran out
    again,        \* continueWait of Enter::wait
    interrupted,  \* Isolate::m_interrupted
    toSignal      \* terminations that have yet to call signal()

lockVars == <<os, ownerID, recursion, hold, saved>>
waitVars == <<list, waiterCount, sigCount, monitor, signaled, active, kind, expired, again>>
vars == <<pc, lockVars, waitVars, interrupted, toSignal>>

\* Waiting on the condition variable of s, and back from it without the lock.
Waiting(s) == {w \in Workers : pc[w] = "wait" /\ active[w] = s}

\* notifyAll on the condition variable of s.
WakeAll(s) == [w \in Workers |-> IF w \in Waiting(s) THEN "woken" ELSE pc[w]]

-----------------------------------------------------------------------------
\* VMPI_recursiveMutexTryLock and Unlock, external.
OsFree(w)   == os.owner \in {NoWorker, w}
OsTake(w)   == os' = [owner |-> w, depth |-> os.depth + 1]
OsGive      == os' = [owner |-> IF os.depth = 1 THEN NoWorker ELSE os.owner,
                      depth |-> os.depth - 1]

\* The constructor of Enter: the isolate's active state, the monitor, and a
\* record at the tail of the list.
EnterState(w, s) ==
    /\ monitor[s] = NoWorker
    /\ monitor' = [monitor EXCEPT ![s] = w]
    /\ active' = [active EXCEPT ![w] = s]
    /\ list' = [list EXCEPT ![s] = Append(@, w)]

\* The destructor of Enter up to the release of the monitor: the record is
\* looked up in the list and unlinked.  The active state of the isolate is
\* cleared after it, in Exit.
LeaveState(w, s) ==
    /\ \E k \in DOMAIN list[s] : list[s][k] = w /\ list' = [list EXCEPT ![s] = RemoveAt(@, k)]
    /\ monitor' = [monitor EXCEPT ![s] = NoWorker]

\* Enter::wait up to the condition variable: leave at once if terminated.
BeginWait(w, s, k) ==
    IF interrupted[w]
      THEN /\ LeaveState(w, s)
           /\ pc' = [pc EXCEPT ![w] = "exitDead"]
           /\ UNCHANGED <<waiterCount, kind, expired, again>>
      ELSE /\ waiterCount' = [waiterCount EXCEPT ![s] = @ + 1]
           /\ monitor' = [monitor EXCEPT ![s] = NoWorker]
           /\ kind' = [kind EXCEPT ![w] = k]
           /\ expired' = [expired EXCEPT ![w] = FALSE]
           /\ again' = [again EXCEPT ![w] = FALSE]
           /\ pc' = [pc EXCEPT ![w] = "wait"]
           /\ UNCHANGED list

-----------------------------------------------------------------------------

\* Mutant of LockAgain: the owner takes the OS mutex once more.
LockAgainTakes(w) ==
    /\ pc[w] = "idle"
    /\ ownerID = w
    /\ hold[w] < MaxRecursion
    /\ monitor["mutex"] = NoWorker
    /\ OsTake(w)
    /\ active' = [active EXCEPT ![w] = "mutex"]
    /\ recursion' = recursion + 1
    /\ hold' = [hold EXCEPT ![w] = @ + 1]
    /\ pc' = [pc EXCEPT ![w] = "exit"]
    /\ UNCHANGED <<ownerID, saved, list, waiterCount, sigCount, monitor, signaled, kind, expired, again,
                   interrupted, toSignal>>

\* Mutex.lock by the owner: only the count grows.  Its record comes and goes
\* in one section of the monitor.
LockAgain(w) ==
    /\ pc[w] = "idle"
    /\ ownerID = w
    /\ hold[w] < MaxRecursion
    /\ monitor["mutex"] = NoWorker
    /\ active' = [active EXCEPT ![w] = "mutex"]
    /\ recursion' = recursion + 1
    /\ hold' = [hold EXCEPT ![w] = @ + 1]
    /\ pc' = [pc EXCEPT ![w] = "exit"]
    /\ UNCHANGED <<os, ownerID, saved, list, waiterCount, sigCount, monitor, signaled, kind, expired, again,
                   interrupted, toSignal>>

\* Mutex.lock by another worker: queue up.
Lock(w) ==
    /\ pc[w] = "idle"
    /\ ownerID # w
    /\ EnterState(w, "mutex")
    /\ pc' = [pc EXCEPT ![w] = "contend"]
    /\ UNCHANGED <<lockVars, waiterCount, sigCount, signaled, kind, expired, again, interrupted, toSignal>>

\* Mutant of Acquire: Condition.wait returns with a count of one.
AcquireOnce(w) ==
    /\ pc[w] = "contend"
    /\ Head(list["mutex"]) = w
    /\ OsFree(w)
    /\ OsTake(w)
    /\ ownerID' = w
    /\ recursion' = recursion + 1
    /\ hold' = [hold EXCEPT ![w] = IF saved[w] = 0 THEN 1 ELSE saved[w]]
    /\ saved' = [saved EXCEPT ![w] = 0]
    /\ LeaveState(w, "mutex")
    /\ pc' = [pc EXCEPT ![w] = "exit"]
    /\ UNCHANGED <<waiterCount, sigCount, signaled, active, kind, expired, again, interrupted, toSignal>>

\* The loop of lock, and of the re-acquisition in Condition.wait: the head of
\* the list that gets the OS mutex owns it.
Acquire(w) ==
    /\ pc[w] = "contend"
    /\ Head(list["mutex"]) = w
    /\ OsFree(w)
    /\ OsTake(w)
    /\ ownerID' = w
    /\ recursion' = IF saved[w] = 0 THEN recursion + 1 ELSE saved[w]
    /\ hold' = [hold EXCEPT ![w] = IF saved[w] = 0 THEN 1 ELSE saved[w]]
    /\ saved' = [saved EXCEPT ![w] = 0]
    /\ LeaveState(w, "mutex")
    /\ pc' = [pc EXCEPT ![w] = "exit"]
    /\ UNCHANGED <<waiterCount, sigCount, signaled, active, kind, expired, again, interrupted, toSignal>>

\* Everybody else waits.
Refused(w) ==
    /\ pc[w] = "contend"
    /\ Head(list["mutex"]) # w \/ ~OsFree(w)
    /\ BeginWait(w, "mutex", "forever")
    /\ UNCHANGED <<lockVars, sigCount, signaled, active, interrupted, toSignal>>

\* The end of Enter's destructor: the isolate has no active state any more.
Exit(w) ==
    /\ pc[w] \in {"exit", "exitDead", "exitAgain"}
    /\ active' = [active EXCEPT ![w] = "none"]
    /\ pc' = [pc EXCEPT ![w] = CASE pc[w] = "exit" -> "idle"
                                 [] pc[w] = "exitDead" -> "dead"
                                 [] pc[w] = "exitAgain" -> "reenter"]
    /\ UNCHANGED <<lockVars, list, waiterCount, sigCount, monitor, signaled, kind, expired, again,
                   interrupted, toSignal>>

\* Mutex.tryLock: hasWaiters() is read first, without any lock.
TryCheck(w) ==
    /\ UseTryLock
    /\ pc[w] = "idle"
    /\ hold[w] < (IF ReentrantTry THEN MaxRecursion ELSE 1)
    /\ waiterCount["mutex"] = 0
    /\ pc' = [pc EXCEPT ![w] = "try"]
    /\ UNCHANGED <<lockVars, waitVars, interrupted, toSignal>>

\* Then the OS mutex is tried; a success counts as a lock.
TryTake(w) ==
    /\ pc[w] = "try"
    /\ IF OsFree(w)
         THEN /\ OsTake(w)
              /\ ownerID' = w
              /\ recursion' = recursion + 1
              /\ hold' = [hold EXCEPT ![w] = @ + 1]
         ELSE UNCHANGED <<os, ownerID, recursion, hold>>
    /\ pc' = [pc EXCEPT ![w] = "idle"]
    /\ UNCHANGED <<saved, waitVars, interrupted, toSignal>>

\* Mutant of Unlock: nobody is notified.
UnlockQuiet(w) ==
    /\ pc[w] = "idle"
    /\ ownerID = w
    /\ recursion' = recursion - 1
    /\ hold' = [hold EXCEPT ![w] = @ - 1]
    /\ IF recursion = 1
         THEN ownerID' = NoWorker /\ OsGive
         ELSE UNCHANGED <<ownerID, os>>
    /\ UNCHANGED <<pc, saved, waitVars, interrupted, toSignal>>

\* Mutex.unlock, and the destructor of the mutex object in a worker that dies:
\* the last one gives the OS mutex back, before it notifies.
Unlock(w) ==
    /\ pc[w] = "idle"
    /\ ownerID = w
    /\ recursion' = recursion - 1
    /\ hold' = [hold EXCEPT ![w] = @ - 1]
    /\ IF recursion = 1
         THEN ownerID' = NoWorker /\ OsGive /\ pc' = [pc EXCEPT ![w] = "notify"]
         ELSE UNCHANGED <<ownerID, os, pc>>
    /\ UNCHANGED <<saved, waitVars, interrupted, toSignal>>

\* Mutant of NotifyLockers: one locker is woken instead of all of them.
NotifyLockersOne(w) ==
    /\ pc[w] = "notify"
    /\ monitor["mutex"] = NoWorker
    /\ sigCount["mutex"] = 0
    /\ \/ Waiting("mutex") = {} /\ pc' = [pc EXCEPT ![w] = "idle"]
       \/ \E v \in Waiting("mutex") : pc' = [pc EXCEPT ![w] = "idle", ![v] = "woken"]
    /\ UNCHANGED <<lockVars, waitVars, interrupted, toSignal>>

\* InterruptibleState::notifyAll after the OS mutex was given back.
NotifyLockers(w) ==
    /\ pc[w] = "notify"
    /\ monitor["mutex"] = NoWorker
    /\ sigCount["mutex"] = 0
    /\ pc' = [WakeAll("mutex") EXCEPT ![w] = "idle"]
    /\ UNCHANGED <<lockVars, waitVars, interrupted, toSignal>>

-----------------------------------------------------------------------------
\* The condition variable returns for no reason.
Spurious(w) ==
    /\ SpuriousWakes
    /\ pc[w] = "wait"
    /\ pc' = [pc EXCEPT ![w] = "woken"]
    /\ UNCHANGED <<lockVars, waitVars, interrupted, toSignal>>

\* A timed wait runs out.
Expire(w) ==
    /\ pc[w] = "wait"
    /\ kind[w] # "forever"
    /\ pc' = [pc EXCEPT ![w] = "woken"]
    /\ expired' = [expired EXCEPT ![w] = TRUE]
    /\ UNCHANGED <<lockVars, list, waiterCount, sigCount, monitor, signaled, active, kind, again,
                   interrupted, toSignal>>

\* Mutant of ConsumeSignal: the flag of the record is not reset.
ConsumeSignalKept(w, s) ==
    /\ UNCHANGED signaled
    /\ sigCount' = [sigCount EXCEPT ![s] = IF signaled[w] THEN @ - 1 ELSE @]

\* The signaled flag is consumed by the worker that wakes.
ConsumeSignal(w, s) ==
    /\ signaled' = [signaled EXCEPT ![w] = FALSE]
    /\ sigCount' = [sigCount EXCEPT ![s] = IF signaled[w] THEN @ - 1 ELSE @]

\* Whether the loop of Enter::wait goes round again.  A record that was marked
\* by a signal does so unless the signal was meant for it or its time is over;
\* without a mark continueWait keeps the value of the round before.
Continue(w) == ~expired[w] /\ (IF signaled[w] THEN ~interrupted[w] ELSE again[w])

\* Back from the condition variable with the monitor: wait again, in a timed
\* wait for what is left of the time.
WaitAgain(w) ==
    LET s == active[w] IN
    /\ pc[w] = "woken"
    /\ monitor[s] = NoWorker
    /\ Continue(w)
    /\ ConsumeSignal(w, s)
    /\ again' = [again EXCEPT ![w] = TRUE]
    /\ pc' = [pc EXCEPT ![w] = "wait"]
    /\ UNCHANGED <<lockVars, list, waiterCount, monitor, active, kind, expired, interrupted, toSignal>>

\* Otherwise the wait is over.
Awake(w) ==
    LET s == active[w] IN
    /\ pc[w] = "woken"
    /\ monitor[s] = NoWorker
    /\ ~Continue(w)
    /\ ConsumeSignal(w, s)
    /\ again' = [again EXCEPT ![w] = FALSE]
    /\ waiterCount' = [waiterCount EXCEPT ![s] = @ - 1]
    /\ IF interrupted[w]
         THEN LeaveState(w, s) /\ pc' = [pc EXCEPT ![w] = "exitDead"]
         ELSE /\ monitor' = [monitor EXCEPT ![s] = w]
              /\ pc' = [pc EXCEPT ![w] = IF s = "mutex" THEN "contend" ELSE "check"]
              /\ UNCHANGED list
    /\ UNCHANGED <<lockVars, active, kind, expired, interrupted, toSignal>>

-----------------------------------------------------------------------------
\* Condition.wait by the owner: forget the ownership, queue up on the
\* condition and give the OS mutex back.
CondWait(w, k) ==
    /\ pc[w] = "idle"
    /\ ownerID = w
    /\ ownerID' = NoWorker
    /\ saved' = [saved EXCEPT ![w] = recursion]
    /\ recursion' = 0
    /\ hold' = [hold EXCEPT ![w] = 0]
    /\ EnterState(w, "cond")
    /\ kind' = [kind EXCEPT ![w] = k]
    /\ OsGive
    /\ pc' = [pc EXCEPT ![w] = "release"]
    /\ UNCHANGED <<waiterCount, sigCount, signaled, expired, again, interrupted, toSignal>>

\* Still with the monitor of the condition: wake the lockers, then wait.
CondRelease(w) ==
    /\ pc[w] = "release"
    /\ monitor["mutex"] = NoWorker
    /\ sigCount["mutex"] = 0
    /\ IF interrupted[w]
         THEN /\ LeaveState(w, "cond")
              /\ pc' = [WakeAll("mutex") EXCEPT ![w] = "exitDead"]
              /\ UNCHANGED <<waiterCount, expired, again>>
         ELSE /\ waiterCount' = [waiterCount EXCEPT !["cond"] = @ + 1]
              /\ monitor' = [monitor EXCEPT !["cond"] = NoWorker]
              /\ expired' = [expired EXCEPT ![w] = FALSE]
              /\ again' = [again EXCEPT ![w] = FALSE]
              /\ pc' = [WakeAll("mutex") EXCEPT ![w] = "wait"]
              /\ UNCHANGED list
    /\ UNCHANGED <<lockVars, sigCount, signaled, active, kind, interrupted, toSignal>>

\* After the wait: a worker whose time ran out, or that is first in the list,
\* goes on to re-acquire the mutex ...
CondDone(w) ==
    /\ pc[w] = "check"
    /\ (kind[w] = "timed" /\ expired[w]) \/ Head(list["cond"]) = w
    /\ LeaveState(w, "cond")
    /\ pc' = [pc EXCEPT ![w] = "exitAgain"]
    /\ UNCHANGED <<lockVars, waiterCount, sigCount, signaled, active, kind, expired, again, interrupted, toSignal>>

\* ... and the others wait one more millisecond to become first.
CondTick(w) ==
    /\ pc[w] = "check"
    /\ ~(kind[w] = "timed" /\ expired[w])
    /\ Head(list["cond"]) # w
    /\ BeginWait(w, "cond", "tick")
    /\ UNCHANGED <<lockVars, sigCount, signaled, active, interrupted, toSignal>>

\* Re-acquisition of the public mutex: queue up like a locker.
Reenter(w) ==
    /\ pc[w] = "reenter"
    /\ EnterState(w, "mutex")
    /\ pc' = [pc EXCEPT ![w] = "contend"]
    /\ UNCHANGED <<lockVars, waiterCount, sigCount, signaled, kind, expired, again, interrupted, toSignal>>

\* Condition.notify by the owner: the condition variable picks any waiter.
CondNotify(w) ==
    /\ pc[w] = "idle"
    /\ ownerID = w
    /\ monitor["cond"] = NoWorker
    /\ sigCount["cond"] = 0
    /\ \E v \in Waiting("cond") : pc' = [pc EXCEPT ![v] = "woken"]
    /\ UNCHANGED <<lockVars, waitVars, interrupted, toSignal>>

\* Condition.notifyAll by the owner.
CondNotifyAll(w) ==
    /\ pc[w] = "idle"
    /\ ownerID = w
    /\ monitor["cond"] = NoWorker
    /\ sigCount["cond"] = 0
    /\ Waiting("cond") # {}
    /\ pc' = WakeAll("cond")
    /\ UNCHANGED <<lockVars, waitVars, interrupted, toSignal>>

-----------------------------------------------------------------------------
\* A termination request marks the isolate, holding the monitor of the state
\* the isolate is in, if any ...
Terminate(w) ==
    /\ w \in Terminable
    /\ ~interrupted[w]
    /\ active[w] # "none" => monitor[active[w]] = NoWorker
    /\ interrupted' = [interrupted EXCEPT ![w] = TRUE]
    /\ toSignal' = toSignal \cup {w}
    /\ UNCHANGED <<pc, lockVars, waitVars>>

\* Mutant of Signal: a signal during a cycle relies on that cycle.
SignalSkipped(w) ==
    LET s == active[w] IN
    /\ w \in toSignal
    /\ toSignal' = toSignal \ {w}
    /\ \/ s = "none"
       \/ s # "none" /\ monitor[s] = NoWorker
    /\ IF s # "none" /\ sigCount[s] = 0 /\ waiterCount[s] > 0
         THEN /\ sigCount' = [sigCount EXCEPT ![s] = waiterCount[s]]
              /\ signaled' = [v \in Workers |-> signaled[v] \/ v \in Range(list[s])]
              /\ pc' = WakeAll(s)
         ELSE UNCHANGED <<pc, sigCount, signaled>>
    /\ UNCHANGED <<lockVars, list, waiterCount, monitor, active, kind, expired, again, interrupted>>

\* ... and then signals the state it is blocked on, if any: all waiting
\* records are marked and everybody wakes up.  A cycle that is still under way
\* is waited for.
Signal(w) ==
    LET s == active[w] IN
    /\ w \in toSignal
    /\ toSignal' = toSignal \ {w}
    /\ \/ /\ s = "none"
          /\ UNCHANGED <<pc, sigCount, signaled>>
       \/ /\ s # "none"
          /\ monitor[s] = NoWorker
          /\ sigCount[s] = 0
          /\ IF waiterCount[s] > 0
               THEN /\ sigCount' = [sigCount EXCEPT ![s] = waiterCount[s]]
                    /\ signaled' = [v \in Workers |-> signaled[v] \/ v \in Range(list[s])]
                    /\ pc' = WakeAll(s)
               ELSE UNCHANGED <<pc, sigCount, signaled>>
    /\ UNCHANGED <<lockVars, list, waiterCount, monitor, active, kind, expired, again, interrupted>>

\* A terminated worker unwinds out of its script once it owns nothing.
Die(w) ==
    /\ pc[w] = "idle"
    /\ interrupted[w]
    /\ ownerID # w
    /\ pc' = [pc EXCEPT ![w] = "dead"]
    /\ UNCHANGED <<lockVars, waitVars, interrupted, toSignal>>

-----------------------------------------------------------------------------
Init ==
    /\ pc = [w \in Workers |-> "idle"]
    /\ os = [owner |-> NoWorker, depth |-> 0]
    /\ ownerID = NoWorker
    /\ recursion = 0
    /\ hold = [w \in Workers |-> 0]
    /\ saved = [w \in Workers |-> 0]
    /\ list = [s \in States |-> <<>>]
    /\ waiterCount = [s \in States |-> 0]
    /\ sigCount = [s \in States |-> 0]
    /\ monitor = [s \in States |-> NoWorker]
    /\ signaled = [w \in Workers |-> FALSE]
    /\ active = [w \in Workers |-> "none"]
    /\ kind = [w \in Workers |-> "forever"]
    /\ expired = [w \in Workers |-> FALSE]
    /\ again = [w \in Workers |-> FALSE]
    /\ interrupted = [w \in Workers |-> FALSE]
    /\ toSignal = {}

MutexStep(w) == Acquire(w) \/ Refused(w) \/ Exit(w) \/ TryTake(w) \/ NotifyLockers(w)
WaitStep(w)  == WaitAgain(w) \/ Awake(w)
CondStep(w)  == CondRelease(w) \/ CondDone(w) \/ CondTick(w) \/ Reenter(w)
Call(w) == \/ LockAgain(w) \/ Lock(w) \/ TryCheck(w) \/ Unlock(w)
           \/ \E k \in {"forever", "timed"} : CondWait(w, k)
           \/ CondNotify(w) \/ CondNotifyAll(w)

\* What a worker does without being asked, one step at each pc.
Proceed(w) == MutexStep(w) \/ WaitStep(w) \/ CondStep(w) \/ Expire(w) \/ Die(w)

Next == \E w \in Workers : Call(w) \/ Proceed(w) \/ Spurious(w) \/ Terminate(w) \/ Signal(w)

Spec == Init /\ [][Next]_vars

(***************************************************************************)
(* Fairness: a call that is under way continues, a monitor or a mutex that *)
(* is free again and again is obtained, a timed wait runs out, a requested *)
(* termination is carried through, and a script that owns the mutex does   *)
(* unlock it in the end.  Nothing makes a condition variable return        *)
(* without a notification.                                                 *)
(***************************************************************************)
Fairness ==
    /\ \A w \in Workers : SF_vars(Proceed(w)) /\ SF_vars(Unlock(w))
    /\ \A w \in Terminable : SF_vars(Signal(w))

LiveSpec == Spec /\ Fairness

-----------------------------------------------------------------------------
\* Types; every wait record belongs to a worker that is inside Enter.
TypeOK ==
    /\ pc \in [Workers -> {"idle", "contend", "wait", "woken", "exit", "exitDead", "exitAgain", "try",
                           "notify", "release", "check", "reenter", "dead"}]
    /\ os \in [owner : Workers \cup {NoWorker}, depth : Nat]
    /\ ownerID \in Workers \cup {NoWorker}
    /\ recursion \in Nat
    /\ hold \in [Workers -> Nat] /\ saved \in [Workers -> Nat]
    /\ list \in [States -> Seq(Workers)] /\ \A s \in States : IsInjective(list[s])
    /\ waiterCount \in [States -> Nat] /\ sigCount \in [States -> Nat]
    /\ monitor \in [States -> Workers \cup {NoWorker}]
    /\ signaled \in [Workers -> BOOLEAN] /\ expired \in [Workers -> BOOLEAN]
    /\ again \in [Workers -> BOOLEAN]
    /\ active \in [Workers -> States \cup {"none"}]
    /\ kind \in [Workers -> Kinds]
    /\ interrupted \in [Workers -> BOOLEAN]
    /\ toSignal \subseteq Workers

\* Nobody has been terminated yet.
Undisturbed == \A w \in Workers : ~interrupted[w]

\* A script that has the mutex has it alone: the OS mutex, m_ownerThreadID and
\* m_recursionCount agree with what the script did, through recursion, tryLock
\* and Condition.wait, which gives the whole count back and restores it.
OwnerExact ==
    \A w \in Workers :
        /\ hold[w] > 0 <=> ownerID = w
        /\ hold[w] > 0 => os.owner = w /\ recursion = hold[w]

\* "The mutex must receive the same number of unlock requests before it is
\* completely released": with no lock outstanding the OS mutex is free.
FullyReleased == (\A w \in Workers : hold[w] = 0) => os.owner = NoWorker

\* MutexObject keeps its books: one owner, and the count that its script has made.
MutexExact == TypeOK /\ OwnerExact

\* The counters on which signal cycles depend: outside the monitor
\* m_waiterCount counts the records of the list, and m_signaledWaiters the
\* marked ones, so that a cycle ends exactly when its last record has woken.
CountsExact ==
    \A s \in States : monitor[s] = NoWorker =>
        /\ waiterCount[s] = Len(list[s])
        /\ sigCount[s] = Cardinality({w \in Range(list[s]) : signaled[w]})

\* As long as nobody is terminated, a free mutex with workers queued on it is
\* on its way to the first of them: it has been woken to contend, or a
\* notification is still to come.
HeadNotStranded ==
    (Undisturbed /\ os.owner = NoWorker /\ monitor["mutex"] = NoWorker /\ list["mutex"] # <<>>) =>
        LET h == Head(list["mutex"]) IN
        \/ pc[h] = "woken"
        \/ \E w \in Workers : pc[w] \in {"notify", "release"}

\* Every lock() returns, provided the owners unlock and nobody is terminated.
LockReturns == \A w \in Workers : active[w] = "mutex" ~> active[w] # "mutex" \/ ~Undisturbed

\* A worker that is terminated while it is blocked on the mutex or on the
\* condition gets out of the wait.
TerminationUnblocks ==
    \A w \in Workers : interrupted[w] /\ pc[w] = "wait" ~> pc[w] # "wait" /\ active[w] = "none"
=============================================================================
