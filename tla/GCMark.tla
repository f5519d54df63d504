------------------------------- MODULE GCMark -------------------------------
(***************************************************************************)
(* The incremental marker of MMgc (MMgc/GC.cpp): the collector traces the  *)
(* heap in slices between which the program runs and overwrites pointers,  *)
(* so a write barrier sends every traced object that is written to back    *)
(* to a queue.  Mark stacks are bounded; what does not fit is dropped and  *)
(* found again by scanning the heap (HandleMarkStackOverflow).  Large      *)
(* objects and large roots are traced in two parts with a marker item      *)
(* below them on the stack.                                                *)
(*                                                                         *)
(* The program and the collector share one thread: the program runs        *)
(* between two calls of the collector (phases "idle" and "mark") and       *)
(* FinishIncrementalMark runs to its end without it.                       *)
(***************************************************************************)
EXTENDS Integers, Sequences, SequencesExt, FiniteSets

CONSTANTS NObjects,     \* objects are 1..NObjects, in the order of the heap
          NRoots,       \* roots are NObjects+1 .. NObjects+NRoots
          Large,        \* the objects that are traced in two parts
          LargeRoots,   \* the roots that are traced in two parts
          Leaf,         \* the objects without pointers
          MarkCap,      \* items the mark stack m_incrementalWork has room for
          BarrierCap,   \* items the stack m_barrierWork has room for
          SegmentsKept, \* CheckBarrierWork leaves so many segments alone
          StackCap,     \* objects the program holds on the native stack
          Weaklings,    \* the objects the program makes weak references to
          Deletable     \* the objects the program deletes itself

Objects == 1..NObjects
Roots == (NObjects + 1)..(NObjects + NRoots)
NULL == 0

ASSUME GCMarkAssumption ==
    /\ NObjects \in Nat \ {0}
    /\ NRoots \in Nat
    /\ Large \subseteq Objects
    /\ LargeRoots \subseteq Roots
    /\ Leaf \subseteq Objects \ Large
    /\ MarkCap \in Nat \ {0}
    /\ BarrierCap \in Nat
    /\ SegmentsKept \in Nat
    /\ StackCap \in Nat
    /\ Weaklings \subseteq Objects
    /\ Deletable \subseteq Objects

VARIABLES
    alive, mem, stack, rootAlive,
    weak,       \* objects that have a weak reference
    bits,       \* "white", "queued" or "marked": kQueued and kMark
    work,       \* m_incrementalWork, the mark stack
    barrier,    \* m_barrierWork, the objects the write barrier caught
    overflow,   \* m_markStackOverflow
    protected,  \* large objects with kProtected
    sentinel,   \* markStackSentinel of a root: an index of work, or 0
    phase,      \* what the collector is doing
    scan        \* its place in the list of roots and objects

progVars == <<alive, mem, stack, rootAlive, weak>>
markVars == <<bits, work, overflow, protected, sentinel>>
vars == <<alive, mem, stack, rootAlive, weak, bits, work, barrier, overflow,
          protected, sentinel, phase, scan>>

C == INSTANCE Collector
Parts == C!Parts
Empty == [i \in Parts |-> NULL]
SlotsOf(x) == IF x \in Leaf THEN {}
              ELSE IF x \in Large \cup LargeRoots THEN Parts ELSE {1}

Obj(o)       == <<"object", o>>
Tail2(o)     == <<"tail", o>>             \* kLargeExactObjectTail
Protector(o) == <<"protector", o>>        \* kLargeObjectProtector
Chunk(r)     == <<"chunk", r>>            \* kLargeRootChunk
RootProt(r)  == <<"rootProtector", r>>    \* kRootProtector
StackMem(S)  == <<"stack", S>>            \* kStackMemory
Dead         == <<"dead", 0>>             \* m_deadItem

Phases == {"idle", "start", "mark", "drain", "recover", "roots", "drain2",
           "recover2", "presweep", "drain3", "recover3"}

TypeOK ==
    /\ alive \subseteq Objects
    /\ mem \in [Objects \cup Roots -> [Parts -> Objects \cup {NULL}]]
    /\ stack \subseteq Objects
    /\ rootAlive \subseteq Roots
    /\ weak \subseteq Objects
    /\ bits \in [Objects -> {"white", "queued", "marked"}]
    /\ Len(work) <= MarkCap
    /\ Range(barrier) \subseteq Objects /\ Len(barrier) <= BarrierCap
    /\ overflow \in BOOLEAN
    /\ protected \subseteq Large
    /\ sentinel \in [Roots -> 0..MarkCap]
    /\ phase \in Phases
    /\ scan \in 0..(NRoots + NObjects + 1)

Init ==
    /\ C!Init
    /\ weak = {}
    /\ bits = [o \in Objects |-> "white"]
    /\ work = <<>> /\ barrier = <<>>
    /\ overflow = FALSE
    /\ protected = {}
    /\ sentinel = [r \in Roots |-> 0]
    /\ phase = "idle" /\ scan = 0

-----------------------------------------------------------------------------
(***************************************************************************)
(* The marker as functions of its own state m.                             *)
(***************************************************************************)
Marker == [bits |-> bits, work |-> work, overflow |-> overflow,
           protected |-> protected, sentinel |-> sentinel]
Becomes(m) ==
    /\ bits' = m.bits
    /\ work' = m.work
    /\ overflow' = m.overflow
    /\ protected' = m.protected
    /\ sentinel' = m.sentinel

HasRoom(m) == Len(m.work) < MarkCap

\* GC::Push_* of an item that is not an object; SignalMarkStackOverflow_NonGCObject.
Push(m, item) ==
    IF HasRoom(m) THEN [m EXCEPT !.work = Append(@, item)]
                  ELSE [m EXCEPT !.overflow = TRUE]

\* Mutant of Push_GCObject: an object that is dropped keeps its queued bit.
Push_GCObjectKeepsBit(m, o) ==
    IF HasRoom(m) THEN [m EXCEPT !.work = Append(@, Obj(o))]
                  ELSE [m EXCEPT !.overflow = TRUE]

\* GC::Push_GCObject; SignalMarkStackOverflow_GCObject takes the queued bit back.
Push_GCObject(m, o) ==
    IF HasRoom(m) THEN [m EXCEPT !.work = Append(@, Obj(o))]
                  ELSE [m EXCEPT !.bits[o] = "white", !.overflow = TRUE]

\* GC::TracePointer, and TraceConservativePointer once it has found the object.
TracePointer(m, p) ==
    IF p = NULL \/ m.bits[p] # "white" THEN m
    ELSE IF p \in Leaf THEN [m EXCEPT !.bits[p] = "marked"]
    ELSE Push_GCObject([m EXCEPT !.bits[p] = "queued"], p)

\* The first part of an object is traced at once, see SplitExactGCObject.
SplitExactGCObject(m, o) ==
    Push(Push([m EXCEPT !.protected = @ \cup {o}], Protector(o)), Tail2(o))

MarkItem_GCObject(m, o) ==
    LET head == TracePointer([m EXCEPT !.bits[o] = "marked"], mem[o][1])
    IN  IF o \in Large THEN SplitExactGCObject(head, o) ELSE head

\* The tail's state is pushed again before the trace and overwritten after it.
MarkItem_ExactObjectTail(m, o) == TracePointer(Push(m, Dead), mem[o][2])

\* GCMarkStack::ClearRootProtectorAndChunkAbove, called when sentinel[r] # 0.
ClearRootProtectorAndChunkAbove(m, r) ==
    LET above == {i \in (m.sentinel[r] + 1)..Len(m.work) : m.work[i] = Chunk(r)}
        cleared == {m.sentinel[r]} \cup {i \in above : \A j \in above : i <= j}
    IN  [m EXCEPT !.work = [i \in DOMAIN @ |-> IF i \in cleared THEN Dead ELSE @[i]]]

\* GCRoot::SetMarkStackSentinelPointer.
SetMarkStackSentinelPointer(m, r, index) ==
    [ (IF m.sentinel[r] # 0 THEN ClearRootProtectorAndChunkAbove(m, r) ELSE m)
        EXCEPT !.sentinel[r] = index ]

\* The body of the loop of GC::MarkRoots for a root that is registered.
MarkRoot(m, r) ==
    LET guarded == IF r \notin LargeRoots THEN m
                   ELSE IF HasRoom(m)
                   THEN SetMarkStackSentinelPointer(Push(m, RootProt(r)), r, Len(m.work) + 1)
                   ELSE Push(m, RootProt(r))
        split == IF r \in LargeRoots THEN Push(guarded, Chunk(r)) ELSE guarded
    IN  TracePointer(split, mem[r][1])

\* MarkTopItem_NonGCObject and Pop_GCObject: the states after the item on top.
MarkTopItem(m) ==
    LET item == Last(m.work)
        rest == [m EXCEPT !.work = Front(@)]
        x == item[2]
    IN  CASE item[1] = "object"        -> {MarkItem_GCObject(rest, x)}
          [] item[1] = "tail"          -> {MarkItem_ExactObjectTail(rest, x)}
          [] item[1] = "protector"     -> {[rest EXCEPT !.protected = @ \ {x}]}
          [] item[1] = "chunk"         -> {TracePointer(rest, mem[x][2])}
          [] item[1] = "rootProtector" -> {[rest EXCEPT !.sentinel[x] = 0]}
          [] item[1] = "stack"         ->
               {TracePointer(IF x = {o} THEN rest ELSE Push(rest, StackMem(x \ {o})), o)
                  : o \in x}
          [] item[1] = "dead"          -> {rest}
-----------------------------------------------------------------------------
(***************************************************************************)
(* The program.  It reaches objects through its stack, the roots and weak  *)
(* references, and every store into an object passes the write barrier.    *)
(***************************************************************************)
marking == phase # "idle"
collecting == phase \in {"presweep", "drain3", "recover3"}
ProgramRuns == phase \in {"idle", "mark"}
Hold(o) == stack' = stack \cup {o} /\ Cardinality(stack') <= StackCap

Reachable == C!Live

\* GC::Alloc outside a sweep: the object is new and white.
Alloc(o) ==
    /\ ProgramRuns /\ o \notin alive
    /\ Hold(o)
    /\ alive' = alive \cup {o}
    /\ mem' = [mem EXCEPT ![o] = Empty]
    /\ bits' = [bits EXCEPT ![o] = "white"]
    /\ protected' = protected \ {o}
    /\ UNCHANGED <<rootAlive, weak, work, barrier, overflow, sentinel, phase, scan>>

\* The program follows pointers to an object and keeps it on the stack.
Load(o) ==
    /\ ProgramRuns /\ o \in Reachable \ stack
    /\ Hold(o)
    /\ UNCHANGED <<alive, mem, rootAlive, weak, markVars, barrier, phase, scan>>

Drop(o) ==
    /\ ProgramRuns /\ o \in stack
    /\ stack' = stack \ {o}
    /\ UNCHANGED <<alive, mem, rootAlive, weak, markVars, barrier, phase, scan>>

\* Mutant of WriteBarrierTrap: a store that misses the barrier.
WriteBarrierMissing(x) == UNCHANGED <<markVars, barrier>>

\* InlineWriteBarrierTrap and WriteBarrierHit: a marked container becomes queued
\* again, on the barrier stack or, when that is full, on the mark stack.
WriteBarrierTrap(x) ==
    IF marking /\ bits[x] = "marked"
    THEN LET m == [Marker EXCEPT !.bits[x] = "queued"]
         IN  IF Len(barrier) < BarrierCap
             THEN Becomes(m) /\ barrier' = Append(barrier, x)
             ELSE Becomes(Push_GCObject(m, x)) /\ UNCHANGED barrier
    ELSE UNCHANGED <<markVars, barrier>>

Write(x, i, p) ==
    /\ ProgramRuns /\ x \in Reachable /\ i \in SlotsOf(x)
    /\ p \in Reachable \cup {NULL} /\ p # mem[x][i]
    /\ WriteBarrierTrap(x)
    /\ mem' = [mem EXCEPT ![x][i] = p]
    /\ UNCHANGED <<alive, stack, rootAlive, weak, phase, scan>>

\* Roots have no write barrier; FinishIncrementalMark marks them again.
WriteRoot(r, i, p) ==
    /\ ProgramRuns /\ r \in rootAlive /\ i \in SlotsOf(r)
    /\ p \in Reachable \cup {NULL} /\ p # mem[r][i]
    /\ mem' = [mem EXCEPT ![r][i] = p]
    /\ UNCHANGED <<alive, stack, rootAlive, weak, markVars, barrier, phase, scan>>

\* Mutant of MoveWithinBlock: moving pointers inside an object needs no barrier.
MoveUnseen(x) ==
    /\ ProgramRuns /\ x \in Reachable \cap Large
    /\ mem[x][1] # mem[x][2]
    /\ mem' = [mem EXCEPT ![x] = [i \in Parts |-> mem[x][3 - i]]]
    /\ UNCHANGED <<alive, stack, rootAlive, weak, markVars, barrier, phase, scan>>

\* movePointersWithinBlock, reversePointersWithinBlock: only an object that is
\* traced in parts passes the barrier when its pointers move inside it.
MoveWithinBlock(x) ==
    /\ ProgramRuns /\ x \in Reachable \cap Large
    /\ mem[x][1] # mem[x][2]
    /\ WriteBarrierTrap(x)
    /\ mem' = [mem EXCEPT ![x] = [i \in Parts |-> mem[x][3 - i]]]
    /\ UNCHANGED <<alive, stack, rootAlive, weak, phase, scan>>

\* GCRoot::Destroy and the constructor.
DestroyRoot(r) ==
    /\ ProgramRuns /\ r \in rootAlive
    /\ Becomes(SetMarkStackSentinelPointer(Marker, r, 0))
    /\ rootAlive' = rootAlive \ {r}
    /\ mem' = [mem EXCEPT ![r] = Empty]
    /\ UNCHANGED <<alive, stack, weak, barrier, phase, scan>>

CreateRoot(r) ==
    /\ ProgramRuns /\ r \in Roots \ rootAlive
    /\ rootAlive' = rootAlive \cup {r}
    /\ UNCHANGED <<alive, mem, stack, weak, markVars, barrier, phase, scan>>

\* GCAlloc::Free and GCLargeAlloc::Free: what is queued or protected is only
\* cleared (AbortFree), since the marker still has it on a stack.
Free(o) ==
    /\ ProgramRuns /\ o \in Deletable \cap stack
    /\ \A x \in (alive \cup rootAlive) \ {o} : o \notin C!Targets(mem, x)
    /\ stack' = stack \ {o}
    /\ mem' = [mem EXCEPT ![o] = Empty]
    /\ weak' = weak \ {o}
    /\ IF marking /\ (bits[o] = "queued" \/ o \in protected)
       THEN UNCHANGED <<alive, bits>>
       ELSE alive' = alive \ {o} /\ bits' = [bits EXCEPT ![o] = "white"]
    /\ UNCHANGED <<rootAlive, work, barrier, overflow, protected, sentinel, phase, scan>>

\* GC::GetWeakRef, and GCWeakRef::get outside a sweep.
GetWeakRef(o) ==
    /\ ProgramRuns /\ o \in (Weaklings \cap Reachable) \ weak
    /\ weak' = weak \cup {o}
    /\ UNCHANGED <<alive, mem, stack, rootAlive, markVars, barrier, phase, scan>>

WeakRefGet(o) ==
    /\ ProgramRuns /\ o \in weak \ stack
    /\ Hold(o)
    /\ UNCHANGED <<alive, mem, rootAlive, weak, markVars, barrier, phase, scan>>

Program ==
    \/ \E o \in Objects : Alloc(o) \/ Load(o) \/ Drop(o) \/ Free(o) \/ GetWeakRef(o)
                          \/ WeakRefGet(o) \/ MoveWithinBlock(o)
    \/ \E x \in Objects, i \in Parts, p \in Objects \cup {NULL} : Write(x, i, p)
    \/ \E r \in Roots, i \in Parts, p \in Objects \cup {NULL} : WriteRoot(r, i, p)
    \/ \E r \in Roots : DestroyRoot(r) \/ CreateRoot(r)
-----------------------------------------------------------------------------
(***************************************************************************)
(* The collector.                                                          *)
(***************************************************************************)
At(p, next) == phase = p /\ phase' = next

\* StartIncrementalMark up to MarkNonstackRoots.
StartIncrementalMark ==
    /\ At("idle", "start")
    /\ scan' = 1
    /\ UNCHANGED <<progVars, markVars, barrier>>

\* GC::MarkRoots, one root at a time: at the start of a collection and again
\* before the stack is scanned.
MarkRoots ==
    /\ phase \in {"start", "roots"} /\ scan <= NRoots
    /\ Becomes(IF NObjects + scan \in rootAlive THEN MarkRoot(Marker, NObjects + scan)
               ELSE Marker)
    /\ scan' = scan + 1
    /\ UNCHANGED <<progVars, barrier, phase>>

RootsMarked ==
    /\ At("start", "mark") /\ scan > NRoots
    /\ scan' = 0
    /\ UNCHANGED <<progVars, markVars, barrier>>

\* What HandleMarkStackOverflow traces at place i of its scan: a root that is
\* registered or a marked object with pointers.
Place(i) == IF i <= NRoots THEN NObjects + i ELSE i - NRoots
Scanned(i) == \/ Place(i) \in rootAlive
              \/ Place(i) \in Objects \ Leaf /\ bits[Place(i)] = "marked"
\* After the presweep callbacks it starts with work on the mark stack, which it drains
\* when it has traced the first of them.
Undrained == /\ phase = "recover3" /\ scan <= NRoots + NObjects
             /\ \A i \in 1..(scan - 1) : ~Scanned(i)

\* GC::Mark: one item of the mark stack.
Mark ==
    /\ phase \in {"mark", "drain", "recover", "drain2", "recover2", "drain3", "recover3"}
    /\ work # <<>> /\ ~Undrained
    /\ \E m \in MarkTopItem(Marker) : Becomes(m)
    /\ UNCHANGED <<progVars, barrier, phase, scan>>

\* IncrementalMark with an empty mark stack: TransferOneInactiveSegmentFrom
\* takes the segment below the top of the barrier stack.
CheckBarrierWork ==
    /\ phase = "mark" /\ work = <<>>
    /\ Len(barrier) > 1 /\ Len(barrier) - 1 >= SegmentsKept
    /\ work' = <<Obj(barrier[Len(barrier) - 1])>>
    /\ barrier' = Append(SubSeq(barrier, 1, Len(barrier) - 2), Last(barrier))
    /\ UNCHANGED <<progVars, bits, overflow, protected, sentinel, phase, scan>>

FinishIncrementalMark ==
    /\ At("mark", "drain")
    /\ UNCHANGED <<progVars, markVars, barrier, scan>>

\* GC::FlushBarrierWork: all of it goes below the mark stack, or one item on top.
Fits(m) == Len(m.work) + Len(barrier) <= MarkCap
OneFits(m) == barrier # <<>> /\ HasRoom(m)
FlushBarrierWork(m) ==
    LET moved == [i \in DOMAIN barrier |-> Obj(barrier[i])]
    IN  IF Fits(m) THEN [m EXCEPT !.work = moved \o @]
        ELSE IF OneFits(m) THEN [m EXCEPT !.work = Append(@, Last(moved)), !.overflow = TRUE]
        ELSE [m EXCEPT !.overflow = TRUE]
BarrierLeft(m) ==
    IF Fits(m) THEN <<>> ELSE IF OneFits(m) THEN Front(barrier) ELSE barrier

\* Mutant of StartRecovery: the overflow flag stays up.
StartRecoveryKeepsFlag(p, next) ==
    /\ At(p, next) /\ work = <<>> /\ overflow
    /\ scan' = 1
    /\ UNCHANGED <<progVars, markVars, barrier>>

\* The overflow test of a loop that drives marking to its end.
StartRecovery(p, next) ==
    /\ At(p, next) /\ work = <<>> /\ overflow
    /\ overflow' = FALSE
    /\ scan' = 1
    /\ UNCHANGED <<progVars, bits, work, protected, sentinel, barrier>>

\* HandleMarkStackOverflow: each root, then each marked object in heap order,
\* with the mark stack drained in between.
HandleMarkStackOverflow ==
    /\ phase \in {"recover", "recover2", "recover3"}
    /\ work = <<>> \/ Undrained
    /\ scan <= NRoots + NObjects
    /\ Becomes(IF ~Scanned(scan) THEN Marker
               ELSE IF scan <= NRoots THEN MarkRoot(Marker, Place(scan))
               ELSE MarkItem_GCObject(Marker, Place(scan)))
    /\ scan' = scan + 1
    /\ UNCHANGED <<progVars, barrier, phase>>

Recovered(p, next) == At(p, next) /\ work = <<>> /\ scan > NRoots + NObjects

\* The first loop of FinishIncrementalMark, entered with the mark stack drained.
OverflowBeforeRoots == StartRecovery("drain", "recover")
RecoveredBeforeRoots ==
    /\ Recovered("recover", "drain")
    /\ Becomes(FlushBarrierWork(Marker))
    /\ barrier' = BarrierLeft(Marker)
    /\ scan' = 0
    /\ UNCHANGED progVars

FlushAndMarkRoots ==
    /\ At("drain", "roots") /\ work = <<>> /\ ~overflow
    /\ Becomes(FlushBarrierWork(Marker))
    /\ barrier' = BarrierLeft(Marker)
    /\ scan' = 1
    /\ UNCHANGED progVars

\* MarkQueueAndStack: the native stack is pushed as one item.
PushStackMemory(m) == IF stack = {} THEN m ELSE Push(m, StackMem(stack))

MarkQueueAndStack ==
    /\ At("roots", "drain2") /\ scan > NRoots
    /\ Becomes(PushStackMemory(Marker))
    /\ scan' = 0
    /\ UNCHANGED <<progVars, barrier>>

OverflowAfterRoots == StartRecovery("drain2", "recover2")
RecoveredAfterRoots ==
    /\ Recovered("recover2", "drain2")
    /\ Becomes(PushStackMemory(FlushBarrierWork(Marker)))
    /\ barrier' = BarrierLeft(Marker)
    /\ scan' = 0
    /\ UNCHANGED progVars

\* GC::Sweep as far as the presweep callbacks.
StartSweep ==
    /\ At("drain2", "presweep") /\ work = <<>> /\ ~overflow
    /\ barrier' = <<>>
    /\ UNCHANGED <<progVars, markVars, scan>>

\* A presweep callback reads a weak reference (the read barrier of
\* GCWeakRef::get) and stores the object in a root or in a live object; while
\* collecting, WriteBarrierHit only restores the container's mark.
PresweepGet(o, x, i) ==
    /\ phase = "presweep" /\ o \in weak
    /\ x \in rootAlive \cup Reachable /\ i \in SlotsOf(x) /\ mem[x][i] # o
    /\ Becomes(IF bits[o] = "marked" THEN Marker
               ELSE Push_GCObject([Marker EXCEPT !.bits[o] = "queued"], o))
    /\ mem' = [mem EXCEPT ![x][i] = o]
    /\ UNCHANGED <<alive, stack, rootAlive, weak, barrier, phase, scan>>

\* An allocation of a presweep callback, kept in a root: it is born marked.
PresweepAlloc(o, r, i) ==
    /\ phase = "presweep" /\ o \notin alive
    /\ r \in rootAlive /\ i \in SlotsOf(r)
    /\ alive' = alive \cup {o}
    /\ mem' = [mem EXCEPT ![o] = Empty, ![r][i] = o]
    /\ bits' = [bits EXCEPT ![o] = "marked"]
    /\ protected' = protected \ {o}
    /\ UNCHANGED <<stack, rootAlive, weak, work, barrier, overflow, sentinel, phase, scan>>

\* Then GC::Sweep marks what the callbacks pushed, an overflow first.
EndPresweep ==
    /\ At("presweep", IF overflow THEN "recover3" ELSE "drain3")
    /\ overflow' = FALSE
    /\ scan' = IF overflow THEN 1 ELSE 0
    /\ UNCHANGED <<progVars, bits, work, protected, sentinel, barrier>>

OverflowInSweep == StartRecovery("drain3", "recover3")
RecoveredInSweep ==
    /\ Recovered("recover3", "drain3")
    /\ scan' = 0
    /\ UNCHANGED <<progVars, markVars, barrier>>

\* Mutant of Sweep: the survivors keep their marks.
SweepKeepsMarks ==
    /\ At("drain3", "idle") /\ work = <<>> /\ ~overflow
    /\ LET marked == {o \in alive : bits[o] = "marked"}
       IN  /\ alive' = marked
           /\ weak' = weak \cap marked
           /\ mem' = [x \in DOMAIN mem |-> IF x \in alive \ marked THEN Empty ELSE mem[x]]
    /\ UNCHANGED <<bits, stack, rootAlive, work, barrier, overflow, protected, sentinel, scan>>

\* The rest of GC::Sweep: MarkOrClearWeakRefs, and everything without a mark is
\* finalized and freed (GCAlloc models how).
Sweep ==
    /\ At("drain3", "idle") /\ work = <<>> /\ ~overflow
    /\ LET marked == {o \in alive : bits[o] = "marked"}
       IN  /\ alive' = marked
           /\ weak' = weak \cap marked
           /\ mem' = [x \in DOMAIN mem |-> IF x \in alive \ marked THEN Empty ELSE mem[x]]
    /\ bits' = [o \in Objects |-> "white"]
    /\ UNCHANGED <<stack, rootAlive, work, barrier, overflow, protected, sentinel, scan>>

Finishing ==
    \/ MarkRoots \/ RootsMarked \/ HandleMarkStackOverflow
    \/ OverflowBeforeRoots \/ RecoveredBeforeRoots \/ FlushAndMarkRoots
    \/ MarkQueueAndStack \/ OverflowAfterRoots \/ RecoveredAfterRoots
    \/ StartSweep \/ EndPresweep \/ OverflowInSweep \/ RecoveredInSweep \/ Sweep
    \/ (Mark /\ phase # "mark")

Collection ==
    \/ StartIncrementalMark \/ FinishIncrementalMark \/ Finishing
    \/ (Mark /\ phase = "mark") \/ CheckBarrierWork

Presweep ==
    \/ \E o \in Objects, x \in Objects \cup Roots, i \in Parts : PresweepGet(o, x, i)
    \/ \E o \in Objects, r \in Roots, i \in Parts : PresweepAlloc(o, r, i)

Next == Program \/ Collection \/ Presweep
Spec == Init /\ [][Next]_vars
-----------------------------------------------------------------------------
(***************************************************************************)
(* Properties.                                                             *)
(***************************************************************************)
OnStack(o) == Obj(o) \in Range(work) \/ o \in Range(barrier)

\* GC::WorkItemInvariants_GCObject and the comments of WriteBarrierHit: until
\* the sweep an object has the queued bit exactly while the marker still owes it
\* a trace, so that GC::Free can tell and no barrier queues it twice.
QueuedExact ==
    ~collecting => \A o \in Objects : bits[o] = "queued" <=> OnStack(o)

\* What FindMissingWriteBarriers looks for: while nothing was dropped from the
\* mark stack, no part of an object that was traced points to a white object.
NoBlackToWhite ==
    ~overflow /\ phase \notin {"idle", "recover", "recover2", "recover3"} =>
        \A o \in alive, i \in Parts :
            /\ bits[o] = "marked" /\ mem[o][i] # NULL /\ bits[mem[o][i]] = "white"
            => i = 2 /\ Tail2(o) \in Range(work)

\* GCAlloc::Free, GCLargeAlloc::Free and the comment on GC::HandleLargeItem: an object
\* that is on a stack as a whole was not freed, nor one whose tail or protector is on the
\* stack while its kProtected bit stands; no part of a deleted root is left there
\* (GCRoot::Destroy).  An object that is traced again before its tail was has two tails
\* and two protectors but one bit, which goes with the upper protector: once it has gone,
\* the object may be freed with the lower tail still on the stack.
StackedAlive ==
    /\ \A o \in Objects : OnStack(o) => o \in alive
    /\ \A o \in protected : Tail2(o) \in Range(work) \/ Protector(o) \in Range(work)
                            => o \in alive
    /\ \A r \in Roots : Chunk(r) \in Range(work) \/ RootProt(r) \in Range(work)
                         => r \in rootAlive

\* MarkOrClearWeakRefs: a weak reference never outlives its object.
WeakAlive == weak \subseteq alive

\* The state of the marker between any two steps: what it owes a trace is queued, and no
\* object it has to trace, or holds protected on its stack, or that has a weak reference,
\* is freed.
MarkerConsistent == TypeOK /\ QueuedExact /\ StackedAlive /\ WeakAlive

\* MMgc implements the collector the program relies on.
IsCollector == C!Spec

LiveSpec == Spec /\ WF_vars(Finishing) /\ WF_vars(StartIncrementalMark)
                 /\ WF_vars(FinishIncrementalMark)

\* FinishIncrementalMark returns, however often the mark stack overflows.
FinishEnds == phase = "drain" ~> phase = "idle"

\* An object the program can no longer reach does not stay allocated.
GarbageFreed == \A o \in Objects : o \in alive \ Reachable ~> o \notin alive \/ o \in Reachable
=============================================================================
