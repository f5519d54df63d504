---------------------------- MODULE InterruptWord ----------------------------
(***************************************************************************)
(* The interrupt word of one AvmCore (`interrupted' and                    *)
(* `pending_interrupt', src/src/core/AvmCore.cpp) and the three parties    *)
(* that write it without a lock: the thread of the core, which polls and   *)
(* clears it, another thread that requests a safepoint task and installs   *)
(* SafepointPoll by compare-and-swap, and the timer and another isolate,   *)
(* which raise a terminating reason.  What the shell makes of such a       *)
(* reason, ShellCore::interrupt (src/src/shell/ShellCore.cpp), decides     *)
(* whether the script runs on.                                             *)
(*                                                                         *)
(* Module Safepoint has the protocol around it, for many threads and with  *)
(* atomic access to the word; here every read and write is a step.  The    *)
(* two terminating reasons, ScriptTimeout and ExternalInterrupt, are one.  *)
(* The requester's mutex is held in all its states but "idle" and "wait".  *)
(***************************************************************************)
EXTENDS Naturals

CONSTANTS
    MaxRaises,        \* bound: calls of raiseInterrupt by other isolates
    Interrupts,       \* config.interrupts: every code blob has a time limit
    NonInterruptible, \* whether the core runs methods that must not unwind
    OwnTasks          \* whether the core's thread requests tasks itself

ASSUME InterruptWordAssumption ==
    /\ MaxRaises \in Nat
    /\ Interrupts \in BOOLEAN
    /\ {NonInterruptible, OwnTasks} \subseteq BOOLEAN

Raisers == {"isolate", "timer"}

VARIABLES
    word,       \* AvmCore::interrupted
    pending,    \* AvmCore::pending_interrupt
    reason,     \* local of handleInterruptToplevel
    core,       \* where the thread of the core is
    grace,      \* ShellCore::gracePeriod
    timer,      \* whether the timer of the process is set for this core
    requester,  \* where the thread that requests tasks is
    raiser,     \* where each raiseInterrupt is
    raises,     \* calls of raiseInterrupt by other isolates so far
    late,       \* ghost: the raises that looked at the word before it was
                \* last told to poll, and have still to write it
    lost        \* ghost: one of them has overwritten the poll

wordVars  == <<word, pending, reason>>
shellVars == <<grace, timer>>
raiseVars == <<raiser, raises>>
ghostVars == <<late, lost>>
vars == <<wordVars, core, shellVars, requester, raiseVars, ghostVars>>

\* The record of the core is SP_SAFE, or no longer on the list.
Safe == core \in {"gate", "left"}

\* Whether the current method may be unwound.
MayUnwind == IF NonInterruptible THEN BOOLEAN ELSE {TRUE}

-----------------------------------------------------------------------------
\* ShellCore::interrupt.  The first time the script gets a grace period and an
\* error, which it may catch to run on; after that the error ends the code blob.
Interrupt ==
    IF grace THEN core' = "unwound" /\ UNCHANGED shellVars
    ELSE /\ grace' = TRUE /\ timer' = TRUE
         /\ core' \in {"run", "unwound"}

\* Mutant of ReadReason: the handler is entered without a reason.
ReadReasonAlways ==
    /\ core = "run"
    /\ reason' = word
    /\ core' = "clear"
    /\ UNCHANGED <<word, pending, shellVars, requester, raiseVars, ghostVars>>

\* handleInterruptToplevel: the word is read ...
ReadReason ==
    /\ core = "run"
    /\ word # "none"
    /\ reason' = word
    /\ core' = "clear"
    /\ UNCHANGED <<word, pending, shellVars, requester, raiseVars, ghostVars>>

\* ... and then cleared.
ClearWord ==
    /\ core = "clear"
    /\ word' = "none"
    /\ core' = IF reason = "poll" THEN "poll" ELSE "act"
    /\ UNCHANGED <<pending, reason, shellVars, requester, raiseVars, ghostVars>>

\* SAFEPOINT_POLL: pass through a gate if there is a request.
Poll ==
    /\ core = "poll"
    /\ core' = IF requester \in {"idle", "wait"} THEN "after" ELSE "gate"
    /\ UNCHANGED <<wordVars, shellVars, requester, raiseVars, ghostVars>>

\* The gate closes when the requester has released its mutex.
LeaveGate ==
    /\ core = "gate"
    /\ requester \in {"idle", "wait"}
    /\ core' = "after"
    /\ UNCHANGED <<wordVars, shellVars, requester, raiseVars, ghostVars>>

\* After the poll: act on a pending reason, if the method may be unwound.
AfterPoll ==
    /\ core = "after"
    /\ \E can \in MayUnwind :
          IF pending # "none" /\ can
            THEN pending' = "none" /\ Interrupt
            ELSE core' = "run" /\ UNCHANGED <<pending, shellVars>>
    /\ UNCHANGED <<word, reason, requester, raiseVars, ghostVars>>

\* A terminating reason: interrupt the script, or keep it for later.
Act ==
    /\ core = "act"
    /\ \E can \in MayUnwind :
          IF can THEN pending' = "none" /\ Interrupt
                 ELSE pending' = reason /\ core' = "run" /\ UNCHANGED shellVars
    /\ UNCHANGED <<word, reason, requester, raiseVars, ghostVars>>

\* An unwound thread goes on with the next code blob of its isolate.  The grace
\* period is not given again.
NextBlob ==
    /\ core = "unwound"
    /\ core' = "run"
    /\ timer' = (timer \/ Interrupts)
    /\ UNCHANGED <<wordVars, grace, requester, raiseVars, ghostVars>>

\* After the last one it leaves the manager; it is safe already while it waits
\* for the mutex that it needs for that.
LeaveManager ==
    /\ core = "unwound"
    /\ core' = "left"
    /\ UNCHANGED <<wordVars, shellVars, requester, raiseVars, ghostVars>>

\* The core's thread runs a safepoint task of its own, before which it clears
\* its word ("Don't interrupt oneself").
OwnTask ==
    /\ OwnTasks
    /\ core = "run"
    /\ requester \in {"idle", "wait"}
    /\ word' = "none"
    /\ UNCHANGED <<pending, reason, core, shellVars, requester, raiseVars, ghostVars>>

-----------------------------------------------------------------------------
\* Mutant of RaiseCheck: a poll in the word is overwritten.
RaiseCheckBlind(r) ==
    /\ raiser[r] = "idle"
    /\ IF r = "timer" THEN timer /\ timer' = FALSE /\ UNCHANGED raises
                      ELSE raises < MaxRaises /\ raises' = raises + 1 /\ UNCHANGED timer
    /\ raiser' = [raiser EXCEPT ![r] = "store"]
    /\ UNCHANGED <<wordVars, core, grace, requester, ghostVars>>

\* raiseInterrupt, called by another isolate or when the timer fires, looks at
\* the word ...
RaiseCheck(r) ==
    /\ raiser[r] = "idle"
    /\ IF r = "timer" THEN timer /\ timer' = FALSE /\ UNCHANGED raises
                      ELSE raises < MaxRaises /\ raises' = raises + 1 /\ UNCHANGED timer
    /\ raiser' = [raiser EXCEPT ![r] = IF word = "poll" THEN "pend" ELSE "store"]
    /\ UNCHANGED <<wordVars, core, grace, requester, ghostVars>>

\* ... and writes the reason into it, though a poll may have been installed in
\* the meantime, or into pending_interrupt.
RaiseStore(r) ==
    /\ raiser[r] # "idle"
    /\ IF raiser[r] = "pend" THEN pending' = "ext" /\ UNCHANGED <<word, lost>>
                             ELSE /\ word' = "ext" /\ UNCHANGED pending
                                  /\ lost' = (lost \/ (word = "poll" /\ r \in late))
    /\ raiser' = [raiser EXCEPT ![r] = "idle"]
    /\ late' = late \ {r}
    /\ UNCHANGED <<reason, core, shellVars, requester, raises>>

-----------------------------------------------------------------------------
\* Another thread announces a request.
Announce ==
    /\ requester = "idle"
    /\ requester' = "tell"
    /\ UNCHANGED <<wordVars, core, shellVars, raiseVars, ghostVars>>

\* It installs the poll unless the core is safe or is to unwind.
Tell ==
    /\ requester = "tell"
    /\ word' = IF ~Safe /\ word = "none" THEN "poll" ELSE word
    /\ requester' = IF ~Safe /\ word = "ext" THEN "wait" ELSE "spin"
    /\ late' = {r \in Raisers : raiser[r] = "store"} /\ lost' = FALSE
    /\ UNCHANGED <<pending, reason, core, shellVars, raiseVars>>

\* It waits for the core to leave, which notifies it.
Notified ==
    /\ requester = "wait"
    /\ core = "left"
    /\ requester' = "tell"
    /\ UNCHANGED <<wordVars, core, shellVars, raiseVars, ghostVars>>

\* The busy-wait ends when the core is safe, and the task runs.
RunTask ==
    /\ requester = "spin"
    /\ Safe
    /\ requester' = "idle"
    /\ UNCHANGED <<wordVars, core, shellVars, raiseVars, ghostVars>>

-----------------------------------------------------------------------------
Init ==
    /\ word = "none" /\ pending = "none" /\ reason = "none"
    /\ core = "run" /\ requester = "idle"
    /\ grace = FALSE /\ timer = Interrupts
    /\ raiser = [r \in Raisers |-> "idle"]
    /\ raises = 0
    /\ late = {} /\ lost = FALSE

Handler == ReadReason \/ ClearWord \/ Poll \/ LeaveGate \/ AfterPoll \/ Act \/ NextBlob \/ LeaveManager

Next == \/ Handler \/ OwnTask \/ Announce \/ Tell \/ Notified \/ RunTask
        \/ \E r \in Raisers : RaiseCheck(r) \/ RaiseStore(r)

Spec == Init /\ [][Next]_vars

\* Fairness: running code polls its word, handlers and loops go on, and the
\* gate gets the mutex.  Nobody has to raise an interrupt or request a task, and
\* the timer may never fire: another core may have it set for itself.
LiveSpec ==
    /\ Spec
    /\ SF_vars(Handler) /\ \A r \in Raisers : WF_vars(RaiseStore(r))
    /\ WF_vars(Tell) /\ WF_vars(Notified) /\ WF_vars(RunTask)

-----------------------------------------------------------------------------
\* Types, and: a reason that is being handled is one that somebody wrote.
TypeOK ==
    /\ {word, reason} \subseteq {"none", "poll", "ext"}
    /\ pending \in {"none", "ext"}
    /\ core \in {"run", "clear", "poll", "gate", "after", "act", "unwound", "left"}
    /\ core \in {"clear", "act"} => reason # "none"
    /\ grace \in BOOLEAN /\ timer \in BOOLEAN /\ lost \in BOOLEAN
    /\ late \subseteq Raisers
    /\ requester \in {"idle", "tell", "spin", "wait"}
    /\ raiser \in [Raisers -> {"idle", "pend", "store"}]
    /\ raises \in 0..MaxRaises

\* A request that has told the core to poll gets its task, whether the script
\* catches the interrupts that are raised at the same time or not; unless the
\* poll is overwritten by a raise that looked at the word before it was there.
\* No handler that clears the word and no earlier request takes it.
RequestServed == requester = "spin" ~> (requester = "idle" \/ lost)
=============================================================================
