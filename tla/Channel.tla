------------------------------- MODULE Channel -------------------------------
(***************************************************************************)
(* MostlyNonBlockingChannel (src/src/core/Channels.cpp), the channel under *)
(* PromiseChannel: Lamport's circular buffer between one sender and one    *)
(* receiver, which falls back on a monitor when it is full or empty.       *)
(*                                                                         *)
(* A receiver that finds the buffer empty makes it look full and sleeps; a *)
(* sender that finds it full makes it look empty and moves everything to   *)
(* an overflow buffer; `fallback' keeps the index that was overwritten.    *)
(* Both do so by a compare-and-swap that races with the other side, which  *)
(* does not hold the monitor, so every access to head, tail, fallback and  *)
(* the try counters by a side without the monitor is a step of its own.    *)
(*                                                                         *)
(* Items are numbered in the order in which they are put.  The tries are   *)
(* counted up to Tries + 1: the code only compares them with TRIES and 0.  *)
(***************************************************************************)
EXTENDS Integers, Sequences

CONSTANTS
    InitLength,     \* INIT_LENGTH
    Tries,          \* TRIES
    MaxItems,       \* bound: calls of put() that may succeed
    CloseAllowed,   \* whether somebody calls close()
    SpuriousWakes   \* whether a sender's wait may return without notification

ASSUME ChannelAssumption ==
    /\ InitLength \in Nat \ {0, 1}
    /\ Tries \in Nat
    /\ MaxItems \in Nat
    /\ CloseAllowed \in BOOLEAN
    /\ SpuriousWakes \in BOOLEAN

NoFb == -1      \* NO_FB
None == 0       \* unreachableAtom

VARIABLES
    buf, head, tail,    \* bufferData->m_items and the two indices
    fallback,
    overflow,           \* overflowBufferData->m_items; <<>> for NULL
    overflowHead,
    eof,
    putTries, getTries,
    putPc, getPc,       \* where the sender and the receiver are
    putAt, getAt,       \* old_h or t of put(); old_t or h of get()
    out,                \* *outp of get()
    sent,               \* how many items put() has accepted
    received            \* what get() has returned so far

bufVars == <<buf, head, tail, fallback, overflow, overflowHead>>
putVars == <<putTries, putPc, putAt, sent>>
getVars == <<getTries, getPc, getAt, out, received>>
vars == <<bufVars, eof, putVars, getVars>>

Length  == Len(buf)
Wrap(i) == i % Length
At(i)   == buf[i + 1]            \* bufferData->m_items[i]
Full    == Wrap(head + 1) = tail

\* The sections under m_monitor that the other side can look into.
MonitorFree == putPc # "swap" /\ getPc \notin {"swap", "restore"}

Blank(n)  == [i \in 1..n |-> None]
Count(n)  == IF n > Tries THEN n ELSE n + 1

\* lk.notify() and lk.notifyAll(): the two sides never wait at the same time.
Wake(pc) == IF pc = "wait" THEN "woken" ELSE pc

-----------------------------------------------------------------------------
\* put() is called with the next item.
PutBegin ==
    /\ putPc = "idle"
    /\ sent < MaxItems
    /\ putPc' = "top"
    /\ UNCHANGED <<bufVars, eof, putTries, putAt, sent, getVars>>

\* put() returns: true counts the item.
PutReturn(ok) ==
    /\ putPc' = "idle"
    /\ putTries' = 0
    /\ sent' = IF ok THEN sent + 1 ELSE sent

\* The top of the inner loop: closed, or out of tries, or an overflow to fill.
PutTop ==
    /\ putPc = "top"
    /\ IF eof
         THEN PutReturn(FALSE)
         ELSE /\ putTries' = Count(putTries)
              /\ putPc' = IF putTries = Tries \/ overflow # <<>> THEN "lock" ELSE "index"
              /\ UNCHANGED sent
    /\ UNCHANGED <<bufVars, eof, putAt, getVars>>

\* old_h = head.
PutIndex ==
    /\ putPc = "index"
    /\ putAt' = head
    /\ putPc' = "room"
    /\ UNCHANGED <<bufVars, eof, putTries, sent, getVars>>

\* Is there room behind old_h?
PutRoom ==
    /\ putPc = "room"
    /\ putPc' = IF Wrap(putAt + 1) = tail THEN "full" ELSE "store"
    /\ UNCHANGED <<bufVars, eof, putTries, putAt, sent, getVars>>

\* No: fake full, so take the monitor, or full, so try again.
PutFull ==
    /\ putPc = "full"
    /\ putPc' = IF fallback # NoFb THEN "lock" ELSE "top"
    /\ UNCHANGED <<bufVars, eof, putTries, putAt, sent, getVars>>

\* Mutant of PutStore: the index is stored without compare-and-swap.
PutStoreBlind ==
    /\ putPc = "store"
    /\ buf' = [buf EXCEPT ![putAt + 1] = sent + 1]
    /\ head' = Wrap(putAt + 1)
    /\ PutReturn(TRUE)
    /\ UNCHANGED <<tail, fallback, overflow, overflowHead, eof, putAt, getVars>>

\* Yes: store the item and publish it, unless get() has faked full meanwhile.
PutStore ==
    /\ putPc = "store"
    /\ buf' = [buf EXCEPT ![putAt + 1] = sent + 1]
    /\ IF head = putAt
         THEN head' = Wrap(putAt + 1) /\ PutReturn(TRUE)
         ELSE putPc' = "lock" /\ UNCHANGED <<head, putTries, sent>>
    /\ UNCHANGED <<tail, fallback, overflow, overflowHead, eof, putAt, getVars>>

\* The item goes to the end of the overflow buffer o, of which h slots are
\* used.  A get() in progress has to take the overflow over first.
PutOverflow(o, h) ==
    /\ overflow' = [o EXCEPT ![h + 1] = sent + 1]
    /\ overflowHead' = h + 1
    /\ IF getTries > 0
         THEN putPc' = "wait" /\ UNCHANGED <<putTries, sent>>
         ELSE PutReturn(TRUE)

\* resizeOverflowBuffer, one slot before the buffer is full.
Resized ==
    IF overflowHead = Len(overflow) - 1 THEN overflow \o Blank(InitLength) ELSE overflow

\* With the monitor: there is an overflow buffer already.
PutMore ==
    /\ putPc = "lock" /\ MonitorFree
    /\ overflow # <<>>
    /\ PutOverflow(Resized, overflowHead)
    /\ UNCHANGED <<buf, head, tail, fallback, eof, putAt, getVars>>

\* Mutant of PutRevive: the sleeping receiver is not notified.
PutReviveSilent ==
    /\ putPc = "lock" /\ MonitorFree
    /\ overflow = <<>>
    /\ fallback # NoFb
    /\ buf' = [buf EXCEPT ![fallback + 1] = sent + 1]
    /\ head' = Wrap(fallback + 1)
    /\ fallback' = NoFb
    /\ PutReturn(TRUE)
    /\ UNCHANGED <<tail, overflow, overflowHead, eof, putAt, getVars>>

\* With the monitor: get() has faked full and sleeps, so the buffer is empty.
PutRevive ==
    /\ putPc = "lock" /\ MonitorFree
    /\ overflow = <<>>
    /\ fallback # NoFb
    /\ buf' = [buf EXCEPT ![fallback + 1] = sent + 1]
    /\ head' = Wrap(fallback + 1)
    /\ fallback' = NoFb
    /\ getPc' = Wake(getPc)
    /\ PutReturn(TRUE)
    /\ UNCHANGED <<tail, overflow, overflowHead, eof, putAt, getTries, getAt, out, received>>

\* With the monitor: full or not any more; if full, remember tail in fallback.
PutMark ==
    /\ putPc = "lock" /\ MonitorFree
    /\ overflow = <<>>
    /\ fallback = NoFb
    /\ IF Full
         THEN fallback' = tail /\ putAt' = tail /\ putPc' = "swap"
         ELSE putPc' = "top" /\ UNCHANGED <<fallback, putAt>>
    /\ UNCHANGED <<buf, head, tail, overflow, overflowHead, eof, putTries, sent, getVars>>

\* createOverflowBuffer: the items of the full buffer, oldest first.
Overflow ==
    [i \in 1..Length + InitLength |-> IF i < Length THEN At(Wrap(fallback + i - 1)) ELSE None]

\* Mutant of PutSwap: fallback is kept when get() got ahead.
PutSwapKept ==
    /\ putPc = "swap"
    /\ IF tail # putAt
         THEN putPc' = "top" /\ UNCHANGED <<tail, fallback, overflow, overflowHead, putTries, sent>>
         ELSE /\ tail' = head
              /\ IF eof THEN PutReturn(FALSE) /\ UNCHANGED <<overflow, overflowHead>>
                        ELSE PutOverflow(Overflow, Length - 1)
              /\ UNCHANGED fallback
    /\ UNCHANGED <<buf, head, eof, putAt, getVars>>

\* Make the buffer look empty, unless get() has been quicker, and move on to
\* an overflow buffer.
PutSwap ==
    /\ putPc = "swap"
    /\ IF tail # putAt
         THEN /\ fallback' = NoFb
              /\ putPc' = "top"
              /\ UNCHANGED <<tail, overflow, overflowHead, putTries, sent>>
         ELSE /\ tail' = head
              /\ IF eof THEN PutReturn(FALSE) /\ UNCHANGED <<overflow, overflowHead>>
                        ELSE PutOverflow(Overflow, Length - 1)
              /\ UNCHANGED fallback
    /\ UNCHANGED <<buf, head, eof, putAt, getVars>>

\* Back from the wait with the item in the overflow buffer.
PutWoken ==
    /\ putPc = "woken" /\ MonitorFree
    /\ PutReturn(TRUE)
    /\ UNCHANGED <<bufVars, eof, putAt, getVars>>

-----------------------------------------------------------------------------
\* get() is called.
GetBegin ==
    /\ getPc = "idle"
    /\ getPc' = "top"
    /\ UNCHANGED <<bufVars, eof, putVars, getTries, getAt, out, received>>

\* The top of the inner loop: closed, or out of tries.
GetTop ==
    /\ getPc = "top"
    /\ IF eof
         THEN getTries' = 0 /\ getPc' = "idle"
         ELSE getTries' = Count(getTries) /\ getPc' = IF getTries = Tries THEN "lock" ELSE "index"
    /\ UNCHANGED <<bufVars, eof, putVars, getAt, out, received>>

\* old_t = tail.
GetIndex ==
    /\ getPc = "index"
    /\ getAt' = tail
    /\ getPc' = "any"
    /\ UNCHANGED <<bufVars, eof, putVars, getTries, out, received>>

\* Is there an item at old_t?
GetAny ==
    /\ getPc = "any"
    /\ getPc' = IF head = getAt THEN "empty" ELSE "take"
    /\ UNCHANGED <<bufVars, eof, putVars, getTries, getAt, out, received>>

\* No: fake empty, so take the monitor, or empty, so try again.
GetEmpty ==
    /\ getPc = "empty"
    /\ getPc' = IF fallback # NoFb THEN "lock" ELSE "top"
    /\ UNCHANGED <<bufVars, eof, putVars, getTries, getAt, out, received>>

\* Yes: read it and take it, unless put() has faked empty meanwhile.
GetTake ==
    /\ getPc = "take"
    /\ out' = At(getAt)
    /\ IF tail = getAt
         THEN tail' = Wrap(getAt + 1) /\ getPc' = "done"
         ELSE getPc' = "top" /\ UNCHANGED tail
    /\ UNCHANGED <<buf, head, fallback, overflow, overflowHead, eof, putVars, getTries, getAt, received>>

\* get() resets its tries and returns the item.
GetDone ==
    /\ getPc = "done"
    /\ received' = Append(received, out)
    /\ getTries' = 0
    /\ getPc' = "idle"
    /\ UNCHANGED <<bufVars, eof, putVars, getAt, out>>

\* With the monitor: the overflow buffer becomes the buffer, less its first
\* item.
GetOverflow ==
    /\ getPc = "lock" /\ MonitorFree
    /\ fallback # NoFb
    /\ overflow # <<>>
    /\ out' = overflow[1]
    /\ tail' = 1
    /\ head' = overflowHead
    /\ buf' = overflow
    /\ overflow' = <<>>
    /\ getPc' = "restore"
    /\ UNCHANGED <<fallback, overflowHead, eof, putVars, getTries, getAt, received>>

\* Mutant of GetRestore: the sender is not notified.
GetRestoreSilent ==
    /\ getPc = "restore"
    /\ fallback' = NoFb
    /\ getPc' = "done"
    /\ UNCHANGED <<buf, head, tail, overflow, overflowHead, eof, putVars, getTries, getAt, out, received>>

\* Still with the monitor: notify the sender, then clear fallback.
GetRestore ==
    /\ getPc = "restore"
    /\ putPc' = Wake(putPc)
    /\ fallback' = NoFb
    /\ getPc' = "done"
    /\ UNCHANGED <<buf, head, tail, overflow, overflowHead, eof, putTries, putAt, sent,
                   getTries, getAt, out, received>>

\* With the monitor and a fallback but no overflow buffer: the null pointer is
\* read, against the assertion in front of it.
GetNull ==
    /\ getPc = "lock" /\ MonitorFree
    /\ fallback # NoFb
    /\ overflow = <<>>
    /\ getPc' = "crash"
    /\ UNCHANGED <<bufVars, eof, putVars, getTries, getAt, out, received>>

\* With the monitor: empty or not any more; if empty, remember head in fallback.
GetMark ==
    /\ getPc = "lock" /\ MonitorFree
    /\ fallback = NoFb
    /\ IF head = tail
         THEN fallback' = head /\ getAt' = head /\ getPc' = "swap"
         ELSE getPc' = "top" /\ UNCHANGED <<fallback, getAt>>
    /\ UNCHANGED <<buf, head, tail, overflow, overflowHead, eof, putVars, getTries, out, received>>

\* Make the buffer look full, unless put() has been quicker, and sleep.
GetSwap ==
    /\ getPc = "swap"
    /\ IF head # getAt
         THEN fallback' = NoFb /\ getPc' = "top" /\ UNCHANGED <<buf, head, getTries>>
         ELSE /\ head' = IF tail = 0 THEN Length - 1 ELSE tail - 1
              /\ buf' = Blank(Length)
              /\ IF eof THEN getTries' = 0 /\ getPc' = "idle"
                        ELSE getPc' = "wait" /\ UNCHANGED getTries
              /\ UNCHANGED fallback
    /\ UNCHANGED <<tail, overflow, overflowHead, eof, putVars, getAt, out, received>>

\* Back from the wait: start over.
GetWoken ==
    /\ getPc = "woken" /\ MonitorFree
    /\ getPc' = "top"
    /\ UNCHANGED <<bufVars, eof, putVars, getTries, getAt, out, received>>

-----------------------------------------------------------------------------

\* close() by either side or by the aggregate.
Close ==
    /\ CloseAllowed
    /\ MonitorFree
    /\ ~eof
    /\ eof' = TRUE
    /\ putPc' = Wake(putPc)
    /\ getPc' = Wake(getPc)
    /\ UNCHANGED <<bufVars, putTries, putAt, sent, getTries, getAt, out, received>>

\* A sender's wait on the monitor ends without notification.  get() takes every wake-up
\* for a notification, so that the order of items is claimed for monitors that do not
\* wake the receiver otherwise.
SpuriousWake ==
    /\ SpuriousWakes /\ putPc = "wait" /\ putPc' = "woken"
    /\ UNCHANGED <<bufVars, eof, putTries, putAt, sent, getVars>>

-----------------------------------------------------------------------------
Init ==
    /\ buf = Blank(InitLength) /\ head = 0 /\ tail = 0
    /\ fallback = NoFb
    /\ overflow = <<>> /\ overflowHead = 0
    /\ eof = FALSE
    /\ putTries = 0 /\ getTries = 0
    /\ putPc = "idle" /\ getPc = "idle"
    /\ putAt = 0 /\ getAt = 0
    /\ out = None
    /\ sent = 0
    /\ received = <<>>

PutStep == \/ PutTop \/ PutIndex \/ PutRoom \/ PutFull \/ PutStore
           \/ PutMore \/ PutRevive \/ PutMark \/ PutSwap \/ PutWoken
GetStep == \/ GetTop \/ GetIndex \/ GetAny \/ GetEmpty \/ GetTake \/ GetDone
           \/ GetOverflow \/ GetRestore \/ GetNull \/ GetMark \/ GetSwap \/ GetWoken

Next == PutBegin \/ PutStep \/ GetBegin \/ GetStep \/ Close \/ SpuriousWake

Spec == Init /\ [][Next]_vars

\* Fairness: a call under way goes on, and the monitor, free again and again,
\* is obtained.  Nothing makes a script call put(), get() or close().
LiveSpec == Spec /\ SF_vars(PutStep) /\ SF_vars(GetStep)

\* ... except in a system whose receiver goes on receiving.
ReadingSpec == LiveSpec /\ WF_vars(GetBegin)

-----------------------------------------------------------------------------
\* The items really in the channel.  A side that has faked the state of the
\* buffer left the true index in fallback; a side in its swap has not yet, and
\* one in restore has repaired it.
Faked == fallback # NoFb /\ MonitorFree
Ring(t, h) == [i \in 1..Wrap(h - t) |-> At(Wrap(t + i - 1))]
Contents ==
    IF overflow # <<>> THEN SubSeq(overflow, 1, overflowHead)
    ELSE IF Faked THEN IF head = tail THEN Ring(fallback, head) ELSE <<>>
    ELSE Ring(tail, head)

\* available(), which the receiver calls between two gets.
Available == head # tail \/ (fallback # NoFb /\ head # fallback)

\* Types and index bounds: no access to m_items of either buffer is out of its
\* bounds, through growth, wrap-around and change of buffers.
TypeOK ==
    /\ buf \in Seq(0..MaxItems)
    /\ {head, tail} \subseteq 0..Length - 1
    /\ fallback \in -1..Length - 1
    /\ overflow \in Seq(0..MaxItems)
    /\ overflow # <<>> => overflowHead \in 1..Len(overflow) - 1
    /\ eof \in BOOLEAN
    /\ {putTries, getTries} \subseteq 0..Tries + 1
    /\ putPc \in {"idle", "top", "index", "room", "full", "store", "lock", "swap", "wait", "woken"}
    /\ getPc \in {"idle", "top", "index", "any", "empty", "take", "done", "lock", "restore",
                  "swap", "wait", "woken", "crash"}
    /\ out \in 0..MaxItems
    /\ sent \in 0..MaxItems
    /\ received \in Seq(0..MaxItems)

\* Between two gets of an open channel available() tells whether there is an
\* item, although the buffer may look empty while it is full.
AvailableExact ==
    (getPc = "idle" /\ MonitorFree /\ ~eof) => (Available <=> Contents # <<>>)

\* The indices stay inside their buffers, the overflow buffer included, which grows one
\* slot before it is full, and available() sees through the faked states.
BuffersConsistent == TypeOK /\ AvailableExact

\* What went in and what came out: an item is in from its publication, though
\* its put() may still sleep, and out from its removal.
Puts == IF putPc \in {"wait", "woken"} THEN sent + 1 ELSE sent
Got  == IF getPc \in {"restore", "done"} THEN Append(received, out) ELSE received

\* The abstract queue.
Fifo == INSTANCE FifoChannel WITH puts <- Puts, queue <- Contents, got <- Got, closed <- eof

\* The channel is a FIFO queue: every step of the ring, of the overflow buffer
\* and of the fallback is a put, a get, a close, or invisible.  No item is lost,
\* duplicated or overtaken, and no stale slot is taken for one.
IsFifo == Fifo!Spec

\* "The main challenge ... is to avoid the other channel user to finish updating
\* the channel state without realizing that notification is required": a get()
\* that is under way while there is an item, or when the channel is closed, returns,
\* or runs into the null pointer of GetNull once the channel is closed.
GetServed == (getPc # "idle" /\ (Contents # <<>> \/ eof)) ~> getPc = "idle" \/ (eof /\ getPc = "crash")

\* put() returns as long as the channel is open and the receiver goes on
\* receiving.
PutReturns == putPc # "idle" ~> putPc = "idle" \/ eof
=============================================================================
