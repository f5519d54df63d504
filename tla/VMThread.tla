------------------------------ MODULE VMThread ------------------------------
(***************************************************************************)
(* One VMThread object (vmbase/VMThread.cpp): the native thread that runs  *)
(* it, the threads that join it, and its owner, which starts it, may join  *)
(* it and deletes it.  m_joinMonitor guards everything; each critical      *)
(* section but the one of start() is one step, a wait ends one section     *)
(* and begins the next.                                                    *)
(*                                                                         *)
(* The clients keep the rule of VMThread.h: nobody calls start() twice,    *)
(* joins a thread that was not started, or still has to enter join() when  *)
(* the owner deletes the object.                                           *)
(***************************************************************************)
EXTENDS Integers, FiniteSets

CONSTANTS Joiners,       \* threads that may call join()
          Owner,         \* the thread that starts and deletes the object
          SpuriousWakes  \* whether a wait may end without a notification

ASSUME VMThreadAssumption ==
    /\ IsFiniteSet(Joiners)
    /\ Owner \notin Joiners
    /\ SpuriousWakes \in BOOLEAN

VARIABLES
    state,      \* m_state
    joinerQty,  \* m_joinerQty
    native,     \* where the native thread is
    pc          \* where each client is

vars == <<state, joinerQty, native, pc>>
Clients == Joiners \cup {Owner}

States == {"NOT_STARTED", "RUNNABLE", "TERMINATED"}
NativePlaces == {"none", "born", "running", "ending", "gone"}
OwnerPlaces == {"creating", "started", "failed", "dtorLock", "dtorWait", "dtorWoken", "freed"}
JoinPlaces == {"idle", "joinLock", "waiting", "woken", "joined"}

TypeOK ==
    /\ state \in States
    /\ joinerQty \in 0..Cardinality(Clients)
    /\ native \in NativePlaces
    /\ pc \in [Clients -> OwnerPlaces \cup JoinPlaces]
    /\ \A c \in Joiners : pc[c] \in JoinPlaces

Init ==
    /\ state = "NOT_STARTED"
    /\ joinerQty = 0
    /\ native = "none"
    /\ pc = [c \in Clients |-> "idle"]

MonitorFree == pc[Owner] # "creating"
Goto(c, place) == pc' = [pc EXCEPT ![c] = place]

\* start(): the native thread exists before m_state says so.
Start ==
    /\ pc[Owner] = "idle"
    /\ native' = "born"
    /\ Goto(Owner, "creating")
    /\ UNCHANGED <<state, joinerQty>>

Started ==
    /\ pc[Owner] = "creating"
    /\ state' = "RUNNABLE"
    /\ Goto(Owner, "started")
    /\ UNCHANGED <<joinerQty, native>>

\* VMPI_threadCreate fails; the object can only be deleted.
StartFails ==
    /\ pc[Owner] = "idle"
    /\ Goto(Owner, "failed")
    /\ UNCHANGED <<state, joinerQty, native>>

\* startInternal up to run().
ThreadBegins ==
    /\ native = "born" /\ MonitorFree
    /\ native' = "running"
    /\ UNCHANGED <<state, joinerQty, pc>>

RunReturns ==
    /\ native = "running"
    /\ native' = "ending"
    /\ UNCHANGED <<state, joinerQty, pc>>

\* What a notification does to a client.
Notified(place) == CASE place = "waiting"  -> "woken"
                     [] place = "dtorWait" -> "dtorWoken"
                     [] OTHER -> place
\* Mutant of Terminate: nobody is notified.
TerminateSilently ==
    /\ native = "ending" /\ MonitorFree
    /\ state' = "TERMINATED"
    /\ native' = "gone"
    /\ UNCHANGED <<joinerQty, pc>>
\* Mutant of Terminate: notify() instead of notifyAll().
TerminateNotifiesOne ==
    /\ native = "ending" /\ MonitorFree
    /\ state' = "TERMINATED"
    /\ native' = "gone"
    /\ \/ \E c \in Clients : Goto(c, Notified(pc[c])) /\ pc' # pc
       \/ (\A c \in Clients : Notified(pc[c]) = pc[c]) /\ UNCHANGED pc
    /\ UNCHANGED joinerQty

\* The rest of startInternal, notifyAll included.
Terminate ==
    /\ native = "ending" /\ MonitorFree
    /\ state' = "TERMINATED"
    /\ native' = "gone"
    /\ pc' = [c \in Clients |-> Notified(pc[c])]
    /\ UNCHANGED joinerQty

\* join(): a client calls it, enters the monitor, and comes back from wait().
MayJoin(c) == IF c = Owner THEN pc[c] = "started"
              ELSE pc[c] = "idle" /\ pc[Owner] \in {"started"} \cup (JoinPlaces \ {"idle"})

CallJoin(c) ==
    /\ MayJoin(c)
    /\ Goto(c, "joinLock")
    /\ UNCHANGED <<state, joinerQty, native>>

EnterJoin(c) ==
    /\ pc[c] = "joinLock" /\ MonitorFree
    /\ IF state = "TERMINATED"
       THEN Goto(c, "joined") /\ UNCHANGED joinerQty
       ELSE Goto(c, "waiting") /\ joinerQty' = joinerQty + 1
    /\ UNCHANGED <<state, native>>

\* Mutant of ResumeJoin: a wake-up counts as the end of the thread.
ResumeJoinUntested(c) ==
    /\ pc[c] = "woken" /\ MonitorFree
    /\ Goto(c, "joined") /\ joinerQty' = joinerQty - 1
    /\ UNCHANGED <<state, native>>
ResumeJoin(c) ==
    /\ pc[c] = "woken" /\ MonitorFree
    /\ IF state # "TERMINATED"
       THEN Goto(c, "waiting") /\ UNCHANGED joinerQty
       ELSE Goto(c, "joined") /\ joinerQty' = joinerQty - 1
    /\ UNCHANGED <<state, native>>

\* The condition variable may wake a thread that nobody notified.
Wake(c) ==
    /\ SpuriousWakes
    /\ pc[c] \in {"waiting", "dtorWait"}
    /\ Goto(c, Notified(pc[c]))
    /\ UNCHANGED <<state, joinerQty, native>>

\* ~VMThread(), called when no client is about to enter join().
CallDestroy ==
    /\ pc[Owner] \in {"idle", "failed", "started", "joined"}
    /\ \A c \in Joiners : pc[c] # "joinLock"
    /\ Goto(Owner, "dtorLock")
    /\ UNCHANGED <<state, joinerQty, native>>

\* Mutant of MustWait: the joiners are not counted.
MustWaitForThread == state = "RUNNABLE"
MustWait == state # "NOT_STARTED" /\ (state = "RUNNABLE" \/ joinerQty # 0)

Destroy ==
    /\ pc[Owner] \in {"dtorLock", "dtorWoken"}
    /\ Goto(Owner, IF MustWait THEN "dtorWait" ELSE "freed")
    /\ UNCHANGED <<state, joinerQty, native>>

Next ==
    \/ Start \/ Started \/ StartFails
    \/ ThreadBegins \/ RunReturns \/ Terminate
    \/ \E c \in Clients : CallJoin(c) \/ EnterJoin(c) \/ ResumeJoin(c) \/ Wake(c)
    \/ CallDestroy \/ Destroy

Spec == Init /\ [][Next]_vars

(***************************************************************************)
(* Threads that can run do run, and the Runnable's run() returns.  Nobody  *)
(* has to call join() or delete, and no wake-up comes by itself.           *)
(***************************************************************************)
LiveSpec ==
    /\ Spec
    /\ WF_vars(Started) /\ WF_vars(ThreadBegins) /\ WF_vars(RunReturns) /\ WF_vars(Terminate)
    /\ \A c \in Clients : WF_vars(EnterJoin(c)) /\ WF_vars(ResumeJoin(c))
    /\ WF_vars(Destroy)
-----------------------------------------------------------------------------
InJoin(c) == pc[c] \in {"joinLock", "waiting", "woken"}

\* The comment of ~VMThread(): once the destructor has returned, no client is
\* still inside join() and the native thread does not touch the object again.
FreedUnused ==
    pc[Owner] = "freed" =>
        /\ \A c \in Joiners : ~InJoin(c)
        /\ native \in {"none", "gone"}

\* The assertion of startInternal: whoever runs finds the state RUNNABLE, and
\* join() never returns before run() did.
JoinedEnded ==
    /\ native \in {"running", "ending"} => state = "RUNNABLE"
    /\ \A c \in Clients : pc[c] = "joined" => native = "gone"

\* join() returns, for every joiner, also while the destructor waits.
JoinReturns == \A c \in Clients : pc[c] = "joinLock" ~> pc[c] = "joined"

\* The destructor returns when nobody is inside join() as it is called.
UnjoinedDtorReturns == pc[Owner] = "dtorLock" /\ joinerQty = 0 ~> pc[Owner] = "freed"
=============================================================================
