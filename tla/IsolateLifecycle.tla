-------------------------- MODULE IsolateLifecycle --------------------------
(***************************************************************************)
(* The life of the isolates (workers) of one aggregate: src/src/core/      *)
(* Isolate.cpp and the doRun methods of src/src/shell/avmshell.cpp.        *)
(*                                                                         *)
(* Every isolate but the primordial one, Main, is created and started by   *)
(* the script of its parent, runs on a thread of its own, and ends by      *)
(* itself, by an uncaught exception, by Worker.terminate() in another      *)
(* isolate, or because Main ends and shuts the aggregate down; the process *)
(* then waits until m_activeIsolateCount says that nobody is left.         *)
(*                                                                         *)
(* A section under m_globals.m_lock is one step.  The steps between two    *)
(* such sections are where a decision can be overtaken: Isolate::run reads *)
(* m_interrupted without the lock, internalStart and initToplevel query    *)
(* the state and act on it later, and m_core is reset some time after the  *)
(* core was deleted.  What blocks a script in a Mutex, a Condition or a    *)
(* channel is in the modules WorkerMutex and Channel, what happens to the  *)
(* interrupt word in module InterruptWord: here a reason that was raised   *)
(* is in the word, or is lost.  A script of Main that fails ends the       *)
(* process at once and is left out.                                        *)
(***************************************************************************)
EXTENDS Integers, FiniteSets

CONSTANTS
    Workers,        \* the isolates that scripts may create
    Main,           \* the primordial isolate
    NoIsolate,      \* INVALID_DESC
    NumBlobs,       \* code blobs per isolate
    Interrupts      \* config.interrupts: every code blob has a time limit

ASSUME IsolateAssumption ==
    /\ Main \notin Workers
    /\ NoIsolate \notin Workers \cup {Main}
    /\ IsFiniteSet(Workers)
    /\ NumBlobs \in Nat \ {0}
    /\ Interrupts \in BOOLEAN

Isolates == Workers \cup {Main}

VARIABLES
    state,        \* Isolate::m_state
    interrupted,  \* Isolate::m_interrupted
    parent,       \* Isolate::m_parentDesc
    core,         \* Isolate::m_core: "null", "live", or "deleted" while it dangles
    raised,       \* the interrupt word of the isolate's core
    grace,        \* ShellCore::gracePeriod
    timer,        \* the isolate for which the timer of the process is set
    lost,         \* ghost: the reason last raised, or the timer of the grace
                  \* period that followed, was lost
    blobs,        \* code blobs left to evaluate
    inMap,        \* the isolates in m_globals.m_isolateMap
    threads,      \* the isolates in m_activeIsolateThreadMap
    unjoined,     \* those that the iterator of its cleanup has still to meet
    count,        \* m_activeIsolateCount
    again,        \* ghost: exceptions of isolates that had died of one
    inShutdown,   \* m_inShutdown
    starting,     \* the child that the isolate's script is starting
    pc            \* where the thread of the isolate is

isolateVars == <<parent, core, blobs>>
wordVars    == <<raised, grace, timer, lost>>
tableVars   == <<inMap, threads, unjoined, inShutdown, starting>>
stateVars   == <<state, interrupted, count, again>>
vars == <<stateVars, isolateVars, wordVars, tableVars, pc>>

Active   == {"NEW", "CANSTART", "STARTING", "RUNNING", "FINISHING"}
Inactive == {"TERMINATED", "FAILED", "EXCEPTION"}
Over     == {"ABORTED"} \cup Inactive

-----------------------------------------------------------------------------
\* Mutant of StateTransition: a worker that dies of an exception stays active.
StateTransitionQuiet(i, to) ==
    /\ state' = [state EXCEPT ![i] = to]
    /\ interrupted' = [interrupted EXCEPT ![i] = @ \/ to \in {"FINISHING", "TERMINATED", "EXCEPTION"}]
    /\ count' = IF to \in Inactive \ {"EXCEPTION"} THEN count - 1 ELSE count
    /\ again' = IF to = "EXCEPTION" /\ state[i] = to THEN again + 1 ELSE again

\* Aggregate::stateTransition, whose assertions do not stop a release build.
StateTransition(i, to) ==
    /\ state' = [state EXCEPT ![i] = to]
    /\ interrupted' = [interrupted EXCEPT ![i] = @ \/ to \in {"FINISHING", "TERMINATED", "EXCEPTION"}]
    /\ count' = IF to \in Inactive THEN count - 1 ELSE count
    /\ again' = IF to = "EXCEPTION" /\ state[i] = to THEN again + 1 ELSE again

\* The script of p is running and free to make a call.
Scripting(p) == pc[p] = "script" /\ starting[p] = NoIsolate

-----------------------------------------------------------------------------
\* new Worker: Aggregate::newIsolate, which refuses during a shutdown.
NewIsolate(p, c) ==
    /\ Scripting(p)
    /\ ~inShutdown
    /\ state[c] = "NONE"
    /\ state' = [state EXCEPT ![c] = "NEW"]
    /\ parent' = [parent EXCEPT ![c] = p]
    /\ inMap' = inMap \cup {c}
    /\ count' = count + 1
    /\ UNCHANGED <<interrupted, again, core, blobs, wordVars, threads, unjoined, inShutdown, starting, pc>>

\* Worker.start up to spawnIsolateThread: new, and a child of this isolate.
StartCheck(p, c) ==
    /\ Scripting(p)
    /\ state[c] = "NEW"
    /\ parent[c] = p
    /\ starting' = [starting EXCEPT ![p] = c]
    /\ UNCHANGED <<stateVars, isolateVars, wordVars, inMap, threads, unjoined, inShutdown, pc>>

\* Mutant of Spawn: the thread is not entered in the map.
SpawnForgotten(p) ==
    LET c == starting[p] IN
    /\ c # NoIsolate
    /\ starting' = [starting EXCEPT ![p] = NoIsolate]
    /\ StateTransition(c, "CANSTART")
    /\ pc' = [pc EXCEPT ![c] = "spawned"]
    /\ UNCHANGED <<isolateVars, wordVars, inMap, threads, unjoined, inShutdown>>

\* Aggregate::spawnIsolateThread, which does not ask for a shutdown.  If Main
\* is already iterating over the map of threads, the new entry may be behind
\* the iterator, which then does not meet it.
Spawn(p) ==
    LET c == starting[p] IN
    /\ c # NoIsolate
    /\ starting' = [starting EXCEPT ![p] = NoIsolate]
    /\ \/ /\ StateTransition(c, "CANSTART")
          /\ threads' = threads \cup {c}
          /\ unjoined' \in IF pc[Main] = "join" THEN {unjoined, unjoined \cup {c}} ELSE {unjoined}
          /\ pc' = [pc EXCEPT ![c] = "spawned"]
       \/ /\ StateTransition(c, "FAILED")
          /\ UNCHANGED <<threads, unjoined, pc>>
    /\ UNCHANGED <<isolateVars, wordVars, inMap, inShutdown>>

-----------------------------------------------------------------------------
\* Isolate::run: "don't run if interrupted".
RunCheck(i) ==
    /\ pc[i] = "spawned"
    /\ IF interrupted[i]
         THEN StateTransition(i, "TERMINATED") /\ pc' = [pc EXCEPT ![i] = "done"]
         ELSE pc' = [pc EXCEPT ![i] = "go"] /\ UNCHANGED stateVars
    /\ UNCHANGED <<isolateVars, wordVars, tableVars>>

\* Isolate::run, otherwise.
GoStarting(i) ==
    /\ pc[i] = "go"
    /\ StateTransition(i, "STARTING")
    /\ pc' = [pc EXCEPT ![i] = "init"]
    /\ UNCHANGED <<isolateVars, wordVars, tableVars>>

\* doRun makes a core, and Isolate::initialize publishes it in m_core.
Initialize(i) ==
    /\ pc[i] = "init"
    /\ core' = [core EXCEPT ![i] = "live"]
    /\ pc' = [pc EXCEPT ![i] = "query"]
    /\ UNCHANGED <<stateVars, parent, blobs, wordVars, tableVars>>

\* The set-up of the core asks for the state ...
SetupQuery(i) ==
    /\ pc[i] = "query"
    /\ pc' = [pc EXCEPT ![i] = IF state[i] = "STARTING" THEN "trans" ELSE "ready"]
    /\ UNCHANGED <<stateVars, isolateVars, wordVars, tableVars>>

\* ... and makes the isolate RUNNING.
SetupRun(i) ==
    /\ pc[i] = "trans"
    /\ StateTransition(i, "RUNNING")
    /\ pc' = [pc EXCEPT ![i] = "ready"]
    /\ UNCHANGED <<isolateVars, wordVars, tableVars>>

\* The cores of the isolates S are interrupted, where there are any; what is
\* written to a deleted one nobody reads.
Interrupt(S) ==
    LET told == {i \in S : core[i] = "live"} IN
    /\ raised' = [i \in Isolates |-> raised[i] \/ i \in told]
    /\ lost' = [i \in Isolates |-> lost[i] /\ i \notin told]

\* Platform::setTimer: there is one timer, and setting it replaces whatever it
\* was set for, which may be a grace period that somebody relied on.
SetTimer(i) ==
    /\ timer' = i
    /\ lost' = IF timer \in {i, NoIsolate} \/ ~grace[timer] \/ raised[timer]
                 THEN lost ELSE [lost EXCEPT ![timer] = TRUE]

\* The time limit of a code blob.
LimitBlob(i) == IF Interrupts THEN SetTimer(i) ELSE UNCHANGED <<timer, lost>>

\* ShellIsolate::doRun evaluates the code only if RUNNING; Main always does.
DoRunQuery(i) ==
    /\ pc[i] = "ready"
    /\ IF i = Main \/ state[i] = "RUNNING"
         THEN pc' = [pc EXCEPT ![i] = "script"] /\ LimitBlob(i)
         ELSE pc' = [pc EXCEPT ![i] = "cleanup"] /\ UNCHANGED <<timer, lost>>
    /\ UNCHANGED <<stateVars, isolateVars, raised, grace, tableVars>>

\* ShellCore::setup returns NULL, before or after it has made the isolate
\* RUNNING; a worker deletes the core.
SetupFails(i) ==
    /\ pc[i] \in {"query", "ready"}
    /\ core' = [core EXCEPT ![i] = "deleted"]
    /\ pc' = [pc EXCEPT ![i] = "failed"]
    /\ UNCHANGED <<stateVars, parent, blobs, wordVars, tableVars>>

\* Platform::exit: the process is gone, with all its threads.
ExitProcess ==
    /\ pc' = [i \in Isolates |-> "killed"]
    /\ core' = [i \in Isolates |-> "null"]
    /\ starting' = [i \in Isolates |-> NoIsolate]
    /\ timer' = NoIsolate

\* A worker that could not be set up, or Main, ends the process.
SetupAborts(i) ==
    /\ pc[i] = "failed"
    /\ IF i = Main THEN UNCHANGED stateVars ELSE StateTransition(i, "ABORTED")
    /\ ExitProcess
    /\ UNCHANGED <<parent, blobs, raised, grace, lost, inMap, threads, unjoined, inShutdown>>

\* A code blob is over, however it ended; the next one follows.
EndBlob(i) ==
    /\ blobs' = [blobs EXCEPT ![i] = @ - 1]
    /\ pc' = [pc EXCEPT ![i] = IF blobs[i] > 1 THEN "script"
                               ELSE IF i = Main THEN "exit" ELSE "cleanup"]
    /\ IF blobs[i] > 1 THEN LimitBlob(i) ELSE UNCHANGED <<timer, lost>>

\* A script returns.
ScriptEnd(i) ==
    /\ Scripting(i)
    /\ EndBlob(i)
    /\ UNCHANGED <<stateVars, parent, core, raised, grace, tableVars>>

\* A script leaves an exception uncaught.
ScriptThrow(i) ==
    /\ Scripting(i)
    /\ i # Main
    /\ StateTransition(i, "EXCEPTION")
    /\ EndBlob(i)
    /\ UNCHANGED <<parent, core, raised, grace, tableVars>>

\* Mutant of FirstInterrupt: no timer is set for the grace period.
FirstInterruptUntimed(i) ==
    /\ Scripting(i)
    /\ raised[i] /\ ~grace[i]
    /\ raised' = [raised EXCEPT ![i] = FALSE]
    /\ grace' = [grace EXCEPT ![i] = TRUE]
    /\ UNCHANGED <<timer, lost, stateVars, isolateVars, tableVars, pc>>

\* ShellCore::interrupt at a poll.  The first time it sets a timer and throws
\* an error, which the script may catch, or not (ScriptThrow).
FirstInterrupt(i) ==
    /\ Scripting(i)
    /\ raised[i] /\ ~grace[i]
    /\ raised' = [raised EXCEPT ![i] = FALSE]
    /\ grace' = [grace EXCEPT ![i] = TRUE]
    /\ SetTimer(i)
    /\ UNCHANGED <<stateVars, isolateVars, tableVars, pc>>

\* The second time it cannot.  The script of Main then ends the process.
LastInterrupt(i) ==
    /\ Scripting(i)
    /\ raised[i] /\ grace[i]
    /\ raised' = [raised EXCEPT ![i] = FALSE]
    /\ IF i = Main THEN ExitProcess /\ UNCHANGED <<blobs, lost>>
                   ELSE EndBlob(i) /\ UNCHANGED <<core, starting>>
    /\ UNCHANGED <<stateVars, parent, grace, inMap, threads, unjoined, inShutdown>>

\* The reason in the word is lost: the isolate runs a safepoint task of its
\* own, before which it clears its word, or a handler that read a poll does.
WordCleared(i) ==
    /\ Scripting(i)
    /\ raised[i]
    /\ raised' = [raised EXCEPT ![i] = FALSE]
    /\ lost' = [lost EXCEPT ![i] = TRUE]
    /\ UNCHANGED <<grace, timer, stateVars, isolateVars, tableVars, pc>>

\* The timer fires and interrupts the core it was set for.
TimerFires ==
    /\ timer # NoIsolate
    /\ timer' = NoIsolate
    /\ Interrupt({timer})
    /\ UNCHANGED <<grace, stateVars, isolateVars, tableVars, pc>>

\* beforeCoreDeletion, a collection, and `delete core', with which the interrupt
\* word and the grace period go; m_core stays, and so does the timer.
DeleteCore(i) ==
    /\ pc[i] = "cleanup"
    /\ core' = [core EXCEPT ![i] = "deleted"]
    /\ raised' = [raised EXCEPT ![i] = FALSE]
    /\ grace' = [grace EXCEPT ![i] = FALSE]
    /\ lost' = [lost EXCEPT ![i] = FALSE]
    /\ pc' = [pc EXCEPT ![i] = "deleted"]
    /\ UNCHANGED <<stateVars, parent, blobs, timer, tableVars>>

\* Aggregate::afterGCDeletion.
AfterGCDeletion(i) ==
    /\ pc[i] = "deleted"
    /\ IF state[i] \in {"EXCEPTION", "FAILED"} THEN UNCHANGED stateVars
                                               ELSE StateTransition(i, "TERMINATED")
    /\ core' = [core EXCEPT ![i] = "null"]
    /\ pc' = [pc EXCEPT ![i] = IF i = Main THEN "wait" ELSE "done"]
    /\ UNCHANGED <<parent, blobs, wordVars, tableVars>>

-----------------------------------------------------------------------------
\* Worker.terminate: Aggregate::requestIsolateExit.  A worker that was started
\* is marked, leaves the map, and its children become orphans; its core, if it
\* has one, is interrupted.  A worker that terminates itself throws an
\* exception it cannot catch.
Terminate(p, c) ==
    LET s == IF state[c] \in {"CANSTART", "STARTING", "RUNNING"} /\ ~interrupted[c]
               THEN "FINISHING" ELSE state[c] IN
    /\ Scripting(p)
    /\ c \in inMap
    /\ IF s # state[c] THEN StateTransition(c, s) ELSE UNCHANGED stateVars
    /\ IF s \in {"NEW", "CANSTART"}
         THEN UNCHANGED <<inMap, parent>>
         ELSE /\ inMap' = inMap \ {c}
              /\ parent' = [i \in Isolates |-> IF i \in inMap /\ parent[i] = c THEN NoIsolate ELSE parent[i]]
    /\ IF s \notin {"STARTING", "RUNNING", "FINISHING"}
         THEN UNCHANGED <<raised, timer, lost, blobs, pc>>
         ELSE IF c = p THEN EndBlob(p) /\ UNCHANGED raised
              ELSE Interrupt({c}) /\ UNCHANGED <<timer, blobs, pc>>
    /\ UNCHANGED <<core, grace, threads, unjoined, inShutdown, starting>>

\* The isolates that the first iterator of requestAggregateExit acts on: those
\* that never started, and those whose cores it interrupts.
Unstarted == {i \in inMap : ~interrupted[i] /\ state[i] \in {"NEW", "CANSTART"}}
Unwinding == {i \in inMap : ~interrupted[i] /\ state[i] \in Active \ {"NEW", "CANSTART"}}

\* Mutant of Shutdown: workers that have not started yet are passed over.
ShutdownStarted ==
    /\ pc[Main] = "exit"
    /\ inShutdown' = TRUE
    /\ state' = [i \in Isolates |-> IF i \in Unwinding THEN "FINISHING" ELSE state[i]]
    /\ interrupted' = [i \in Isolates |-> interrupted[i] \/ i \in Unwinding]
    /\ Interrupt(Unwinding)
    /\ pc' = [pc EXCEPT ![Main] = "cleanup"]
    /\ UNCHANGED <<count, again, isolateVars, grace, timer, inMap, threads, unjoined, starting>>

\* Main's scripts are over: Aggregate::requestAggregateExit.
Shutdown ==
    /\ pc[Main] = "exit"
    /\ inShutdown' = TRUE
    /\ state' = [i \in Isolates |-> IF i \in Unstarted THEN "TERMINATED"
                                    ELSE IF i \in Unwinding THEN "FINISHING" ELSE state[i]]
    /\ interrupted' = [i \in Isolates |-> interrupted[i] \/ i \in Unstarted \cup Unwinding]
    /\ count' = count - Cardinality(Unstarted)
    /\ Interrupt(Unwinding)
    /\ pc' = [pc EXCEPT ![Main] = "cleanup"]
    /\ UNCHANGED <<again, isolateVars, grace, timer, inMap, threads, unjoined, starting>>

\* Aggregate::waitUntilNoIsolates: the count is down to zero, which every
\* transition that lowers it notifies.
WaitUntilNoIsolates ==
    /\ pc[Main] = "wait"
    /\ count <= 0
    /\ inMap' = {}
    /\ unjoined' = threads
    /\ pc' = [pc EXCEPT ![Main] = "join"]
    /\ UNCHANGED <<stateVars, isolateVars, wordVars, threads, inShutdown, starting>>

\* ActiveIsolateThreadMap::cleanup, without a lock: the iterator joins and
\* deletes one thread after the other ...
JoinThread(i) ==
    /\ pc[Main] = "join"
    /\ i \in unjoined
    /\ pc[i] = "done"
    /\ unjoined' = unjoined \ {i}
    /\ UNCHANGED <<stateVars, isolateVars, wordVars, inMap, threads, inShutdown, starting, pc>>

\* ... and then the map is cleared.
ClearThreads ==
    /\ pc[Main] = "join"
    /\ unjoined = {}
    /\ threads' = {}
    /\ pc' = [pc EXCEPT ![Main] = "end"]
    /\ UNCHANGED <<stateVars, isolateVars, wordVars, inMap, unjoined, inShutdown, starting>>

-----------------------------------------------------------------------------
\* Shell::run has created Main, made it CANSTART and calls its run().
Init ==
    /\ state = [i \in Isolates |-> IF i = Main THEN "CANSTART" ELSE "NONE"]
    /\ interrupted = [i \in Isolates |-> FALSE]
    /\ parent = [i \in Isolates |-> NoIsolate]
    /\ core = [i \in Isolates |-> "null"]
    /\ raised = [i \in Isolates |-> FALSE]
    /\ grace = [i \in Isolates |-> FALSE]
    /\ timer = NoIsolate
    /\ lost = [i \in Isolates |-> FALSE]
    /\ blobs = [i \in Isolates |-> NumBlobs]
    /\ inMap = {Main}
    /\ threads = {} /\ unjoined = {}
    /\ count = 1 /\ again = 0
    /\ inShutdown = FALSE
    /\ starting = [i \in Isolates |-> NoIsolate]
    /\ pc = [i \in Isolates |-> IF i = Main THEN "spawned" ELSE "none"]

\* What the thread of an isolate does whatever its script is about.
Proceed(i) ==
    \/ Spawn(i) \/ RunCheck(i) \/ GoStarting(i) \/ Initialize(i) \/ SetupQuery(i) \/ SetupRun(i)
    \/ DoRunQuery(i) \/ FirstInterrupt(i) \/ LastInterrupt(i) \/ SetupAborts(i)
    \/ DeleteCore(i) \/ AfterGCDeletion(i)

Script(i) == \/ ScriptEnd(i) \/ ScriptThrow(i) \/ WordCleared(i)
             \/ \E c \in Workers : NewIsolate(i, c) \/ StartCheck(i, c) \/ Terminate(i, c)

Leave == Shutdown \/ WaitUntilNoIsolates \/ (\E i \in Workers : JoinThread(i)) \/ ClearThreads

Next == Leave \/ TimerFires \/ \E i \in Isolates : Proceed(i) \/ Script(i) \/ SetupFails(i)

Spec == Init /\ [][Next]_vars

\* Fairness: threads go on, a running script polls, and the timer fires if
\* nobody sets it again.  A script need not ever end.
LiveSpec == Spec /\ WF_vars(Leave) /\ WF_vars(TimerFires) /\ \A i \in Isolates : WF_vars(Proceed(i))

\* Every script is finite.
ScriptsEnd == \A i \in Isolates : WF_vars(ScriptEnd(i))

-----------------------------------------------------------------------------
\* Types; a core is set exactly while its thread is between the publication
\* and the reset of m_core.
TypeOK ==
    /\ state \in [Isolates -> Active \cup Over \cup {"NONE"}]
    /\ interrupted \in [Isolates -> BOOLEAN] /\ raised \in [Isolates -> BOOLEAN]
    /\ grace \in [Isolates -> BOOLEAN] /\ lost \in [Isolates -> BOOLEAN]
    /\ timer \in Isolates \cup {NoIsolate}
    /\ parent \in [Isolates -> Isolates \cup {NoIsolate}]
    /\ core \in [Isolates -> {"null", "live", "deleted"}]
    /\ blobs \in [Isolates -> 0..NumBlobs]
    /\ inMap \subseteq Isolates
    /\ threads \subseteq Workers /\ unjoined \subseteq threads
    /\ count \in Int /\ again \in Nat
    /\ inShutdown \in BOOLEAN
    /\ starting \in [Isolates -> Workers \cup {NoIsolate}]
    /\ pc \in [Isolates -> {"none", "spawned", "go", "init", "query", "trans", "ready", "failed", "script",
                            "exit", "cleanup", "deleted", "wait", "join", "done", "end", "killed"}]
    /\ \A i \in Isolates : core[i] = "live" <=>
          pc[i] \in {"query", "trans", "ready", "script", "exit", "cleanup"}

\* m_activeIsolateCount counts the isolates that are not over, through failed
\* starts, exceptions and terminations, as long as nobody shuts down; but a
\* worker whose second code blob also ends in an exception is counted out again.
CountExact ==
    ~inShutdown /\ pc[Main] # "killed" =>
        count = Cardinality({i \in Isolates : state[i] \in Active}) - again

\* When the process ends no worker is running code, or will: a thread that the
\* end of the process has not joined belongs to a worker that was told to stop
\* before it began, and returns at once.
NoCodeOutlives ==
    pc[Main] = "end" =>
        \A i \in Workers : pc[i] \in {"none", "done"} \/ (pc[i] = "spawned" /\ interrupted[i])

\* After a shutdown there is no worker in the map that could still be started
\* or that does not know of it.
ShutdownMarksAll == inShutdown => \A i \in inMap : interrupted[i] \/ state[i] \in Over

\* The aggregate keeps account of its isolates, before a shutdown by its count and after
\* it by their marks.
Accounted == TypeOK /\ CountExact /\ ShutdownMarksAll

\* The process ends after the script of Main, if all scripts end: no worker is
\* waited for that is not there, whatever was being created, started or
\* terminated at the time.
ShutdownEnds == ScriptsEnd => (pc[Main] = "exit" ~> pc[Main] \in {"end", "killed"})

\* Worker.terminate on a worker with a core ends its first code blob, although
\* the script may run forever and catch the first error; unless the reason, or
\* the timer of the grace period, is lost.
TerminatedStops ==
    \A i \in Workers :
        (state[i] = "FINISHING" /\ core[i] = "live" /\ blobs[i] = NumBlobs)
            ~> (core[i] # "live" \/ blobs[i] < NumBlobs \/ lost[i])
=============================================================================
