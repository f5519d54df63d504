------------------------ MODULE InterruptWordProofs ------------------------
(***************************************************************************)
(* Theorems about the interrupt word, for any number of raised interrupts. *)
(* That a request is served is liveness and stays with TLC; proved here is *)
(* what it rests on: a requester that busy-waits for a running core has    *)
(* its poll in the word or in the hands of the handler, unless a raise     *)
(* that was under way when the core was told has overwritten it.           *)
(***************************************************************************)
EXTENDS InterruptWord, TLAPS

\* A requester that busy-waits has something to rely on: the core is safe, its
\* word holds the poll, or the handler has read the poll and is on its way to
\* the gate.  An interrupt that the script catches, a handler that clears the
\* word and a raise between its two steps must all keep this; only a raise
\* that looked at the word before the core was told may break it.
PollKept ==
    requester = "spin" /\ ~lost =>
        \/ Safe
        \/ word = "poll"
        \/ core \in {"clear", "poll"} /\ reason = "poll"

\* TypeOK is not inductive: what is kept for later is the reason the handler
\* acts on, and that is never the poll.
TypeInv == TypeOK /\ (core = "act" => reason = "ext")

\* Nor is PollKept: a raise that is going to write over a poll began before the
\* poll was there, and a handler that has read a terminating reason clears
\* nothing else.
PollInv ==
    /\ PollKept
    /\ word = "poll" => \A r \in Raisers : raiser[r] = "store" => r \in late
    /\ core = "clear" /\ reason # "poll" => word = "ext"

-----------------------------------------------------------------------------
\* What ShellCore::interrupt leaves behind.
LEMMA InterruptFacts ==
    ASSUME TypeOK, Interrupt
    PROVE  core' \in {"run", "unwound"} /\ grace' \in BOOLEAN /\ timer' \in BOOLEAN
<1>1. CASE grace
  BY <1>1 DEF TypeOK, Interrupt, shellVars
<1>2. CASE ~grace
  BY <1>2 DEF Interrupt
<1>3. QED BY <1>1, <1>2

\* No step of a handler, a raise or a request spoils the types, or enters the
\* handler without a reason (handleInterruptToplevel, raiseInterrupt).
LEMMA TypeStep ==
    ASSUME TypeInv, [Next]_vars
    PROVE  TypeInv'
<1> USE InterruptWordAssumption DEF TypeInv, TypeOK, vars, wordVars, shellVars, raiseVars, ghostVars
<1>1. CASE ReadReason
  BY <1>1 DEF ReadReason
<1>2. CASE ClearWord
  BY <1>2 DEF ClearWord
<1>3. CASE Poll \/ LeaveGate \/ LeaveManager
  BY <1>3 DEF Poll, LeaveGate, LeaveManager
<1>4. CASE AfterPoll
  <2>1. PICK can \in MayUnwind :
          IF pending # "none" /\ can THEN pending' = "none" /\ Interrupt
                                     ELSE core' = "run" /\ UNCHANGED <<pending, shellVars>>
    BY <1>4 DEF AfterPoll
  <2>2. CASE pending # "none" /\ can
    BY <1>4, <2>1, <2>2, InterruptFacts DEF AfterPoll
  <2>3. CASE ~(pending # "none" /\ can)
    BY <1>4, <2>1, <2>3 DEF AfterPoll
  <2>4. QED BY <2>2, <2>3
<1>5. CASE Act
  <2>1. PICK can \in MayUnwind :
          IF can THEN pending' = "none" /\ Interrupt
                 ELSE pending' = reason /\ core' = "run" /\ UNCHANGED shellVars
    BY <1>5 DEF Act
  <2>2. CASE can
    BY <1>5, <2>1, <2>2, InterruptFacts DEF Act
  <2>3. CASE ~can
    BY <1>5, <2>1, <2>3 DEF Act
  <2>4. QED BY <2>2, <2>3
<1>6. CASE NextBlob \/ OwnTask
  BY <1>6 DEF NextBlob, OwnTask
<1>7. ASSUME NEW r \in Raisers, RaiseCheck(r) PROVE TypeInv'
  <2>1. timer' \in BOOLEAN /\ raises' \in 0..MaxRaises
    <3>1. CASE r = "timer"
      <4>1. timer' = FALSE /\ raises' = raises
        BY <1>7, <3>1 DEF RaiseCheck
      <4>2. QED BY <4>1
    <3>2. CASE r # "timer"
      BY <1>7, <3>2 DEF RaiseCheck
    <3>3. QED BY <3>1, <3>2
  <2>2. raiser' \in [Raisers -> {"idle", "pend", "store"}]
    BY <1>7 DEF RaiseCheck
  <2>3. QED BY <1>7, <2>1, <2>2 DEF RaiseCheck
<1>8. ASSUME NEW r \in Raisers, RaiseStore(r) PROVE TypeInv'
  BY <1>8 DEF RaiseStore
<1>9. CASE Announce \/ Notified \/ RunTask
  BY <1>9 DEF Announce, Notified, RunTask
<1>10. CASE Tell
  BY <1>10 DEF Tell
<1>11. CASE UNCHANGED vars
  BY <1>11
<1>12. QED
  BY <1>1, <1>2, <1>3, <1>4, <1>5, <1>6, <1>7, <1>8, <1>9, <1>10, <1>11
  DEF Next, Handler

\* No step takes the poll of a waiting requester, but a raise that was under way.
LEMMA PollStep ==
    ASSUME TypeInv, PollInv, [Next]_vars
    PROVE  PollInv'
<1> USE DEF PollInv, PollKept, Safe, wordVars, shellVars, raiseVars, ghostVars
<1>1. CASE ReadReason
  BY <1>1 DEF ReadReason, TypeInv, TypeOK
<1>2. CASE ClearWord
  BY <1>2 DEF ClearWord
<1>3. CASE Poll \/ LeaveGate \/ LeaveManager
  BY <1>3 DEF Poll, LeaveGate, LeaveManager
<1>4. CASE AfterPoll \/ Act
  <2>1. /\ core' \in {"run", "unwound"} /\ core \in {"after", "act"}
        /\ UNCHANGED <<word, reason, requester, raiser, late, lost>>
    BY <1>4, InterruptFacts DEF AfterPoll, Act, TypeInv
  <2>2. QED BY <2>1
<1>6. CASE NextBlob \/ OwnTask
  BY <1>6 DEF NextBlob, OwnTask
<1>7. ASSUME NEW r \in Raisers, RaiseCheck(r) PROVE PollInv'
  <2>1. word = "poll" => raiser'[r] # "store"
    BY <1>7 DEF RaiseCheck, TypeInv, TypeOK
  <2>2. \A q \in Raisers \ {r} : raiser'[q] = raiser[q]
    BY <1>7 DEF RaiseCheck, TypeInv, TypeOK
  <2>3. QED BY <1>7, <2>1, <2>2 DEF RaiseCheck
<1>8. ASSUME NEW r \in Raisers, RaiseStore(r) PROVE PollInv'
  <2>1. /\ \A q \in Raisers \ {r} : raiser'[q] = raiser[q]
        /\ raiser'[r] = "idle" /\ late' = late \ {r}
        /\ UNCHANGED <<reason, core, requester>>
    BY <1>8 DEF RaiseStore, TypeInv, TypeOK
  <2>2. CASE raiser[r] = "pend"
    <3>1. UNCHANGED <<word, lost>>
      BY <1>8, <2>2 DEF RaiseStore
    <3>2. QED BY <2>1, <3>1
  <2>3. CASE raiser[r] # "pend"
    <3>1. word' = "ext" /\ lost' = (lost \/ (word = "poll" /\ r \in late)) /\ raiser[r] = "store"
      BY <1>8, <2>3 DEF RaiseStore, TypeInv, TypeOK
    <3>2. word = "poll" => lost'
      BY <3>1
    <3>3. lost => lost'
      BY <3>1
    <3>4. QED BY <2>1, <3>1, <3>2, <3>3
  <2>4. QED BY <2>2, <2>3
<1>9. CASE Announce \/ Notified \/ RunTask
  BY <1>9 DEF Announce, Notified, RunTask
<1>10. CASE Tell
  BY <1>10 DEF Tell, TypeInv, TypeOK
<1>11. CASE UNCHANGED vars
  BY <1>11 DEF vars
<1>12. QED
  BY <1>1, <1>2, <1>3, <1>4, <1>6, <1>7, <1>8, <1>9, <1>10, <1>11
  DEF Next, Handler

\* Nothing is raised or asked for initially.
LEMMA InitInv == Init => TypeInv /\ PollInv
<1> SUFFICES ASSUME Init PROVE TypeInv /\ PollInv
  OBVIOUS
<1>1. timer \in BOOLEAN
  BY InterruptWordAssumption, Zenon DEF Init
<1>2. raiser \in [Raisers -> {"idle", "pend", "store"}] /\ raises \in 0..MaxRaises
  BY InterruptWordAssumption DEF Init
<1>3. TypeInv
  BY <1>1, <1>2 DEF Init, TypeInv, TypeOK
<1>4. PollInv
  BY DEF Init, PollInv, PollKept
<1>5. QED BY <1>3, <1>4

-----------------------------------------------------------------------------
\* Types hold, and a reason that handleInterruptToplevel acts on is one that
\* somebody wrote, with or without methods that must not unwind.
THEOREM TypesHold == Spec => []TypeOK
<1>1. TypeInv /\ [Next]_vars => TypeInv'
  BY TypeStep
<1>2. TypeInv => TypeOK
  BY DEF TypeInv
<1>3. QED BY InitInv, <1>1, <1>2, PTL DEF Spec

\* The poll a requester waits for is lost to nothing but a raise that looked at
\* the word before the core was told: not to an interrupt that the script
\* catches, not to the clearing of the word, not to a raise that finds the
\* poll, whether or not methods may be unwound.
THEOREM PollKeptHolds == Spec => []PollKept
<1>1. TypeInv /\ PollInv /\ [Next]_vars => TypeInv' /\ PollInv'
  BY TypeStep, PollStep
<1>2. PollInv => PollKept
  BY DEF PollInv
<1>3. QED BY InitInv, <1>1, <1>2, PTL DEF Spec
=============================================================================
