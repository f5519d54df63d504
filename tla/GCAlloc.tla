------------------------------- MODULE GCAlloc -------------------------------
(***************************************************************************)
(* One size class of MMgc's small-object allocator (MMgc/GCAlloc.cpp) over *)
(* whole collections: blocks of equal items, the quick list the program    *)
(* allocates from, the blocks' own free lists, finalization, and lazy      *)
(* sweeping of the blocks that finalization found garbage in.              *)
(*                                                                         *)
(* The marker (GCMark) is here only what it does to the bits of the items; *)
(* a collection begins to sweep when everything the program still uses is  *)
(* marked.  During a sweep the program runs inside callbacks: presweep     *)
(* callbacks, and destructors, which may allocate and delete.              *)
(***************************************************************************)
EXTENDS Integers, Sequences, SequencesExt, FiniteSets

CONSTANTS NBlocks,         \* blocks the page heap can give to this allocator
          ItemsPerBlock,   \* m_itemsPerBlock
          FinalizersMoveBlocks  \* whether the allocations of a destructor may add blocks to
                           \* this allocator, or free some, while it is being finalized

ASSUME GCAllocAssumption ==
    /\ NBlocks \in Nat \ {0}
    /\ ItemsPerBlock \in Nat \ {0}
    /\ FinalizersMoveBlocks \in BOOLEAN

Blocks == 1..NBlocks
Slots == 1..ItemsPerBlock
Items == Blocks \X Slots
None == 0

VARIABLES
    containsFinalizedObjects,
    bits,       \* per item: kFreelist, no bit, kQueued or kMark
    blocks,     \* the block list, from m_firstBlock
    avail,      \* the list of blocks with free items, from m_firstFree
    dirty,      \* the list of blocks to be swept, from m_needsSweeping
    free,       \* per block: the items on its own free list
    quick,      \* m_qList
    budget,     \* m_qBudget
    obtained,   \* m_qBudgetObtained
    finalizeState, finalizedValue,
    finalizable,\* items with kFinalizable
    empties,    \* smallEmptyPageList
    phase,      \* where the collection is
    cur, next, putOnFreeList,  \* the locals of FinalizationPass
    live,       \* items the program uses
    undestroyed \* items whose constructor has run and whose destructor has not

listVars == <<bits, blocks, avail, dirty, free, quick, budget, obtained, finalizeState>>
walkVars == <<cur, next, putOnFreeList>>
vars == <<containsFinalizedObjects, listVars, finalizedValue, finalizable, empties, phase,
          walkVars, live, undestroyed>>

Phases == {"run", "mark", "presweep", "finalize", "after"}
collecting == phase \in {"presweep", "finalize", "after"}
m_finalized == phase \in {"finalize", "after"}
ProgramRuns == phase \in {"run", "mark"}

TypeOK ==
    /\ containsFinalizedObjects \in BOOLEAN
    /\ bits \in [Items -> {"free", "white", "queued", "marked"}]
    /\ IsInjective(blocks) /\ Range(blocks) \subseteq Blocks
    /\ IsInjective(avail) /\ Range(avail) \subseteq Range(blocks)
    /\ IsInjective(dirty) /\ Range(dirty) \subseteq Range(blocks)
    /\ free \in [Blocks -> SUBSET Slots]
    /\ IsInjective(quick) /\ Range(quick) \subseteq Items
    /\ finalizeState \in [Blocks -> BOOLEAN] /\ finalizedValue \in BOOLEAN
    /\ finalizable \subseteq Items
    /\ empties \subseteq Blocks \ Range(blocks)
    /\ phase \in Phases
    /\ cur \in Blocks \cup {None} /\ next \in Blocks \cup {None}
    /\ putOnFreeList \in BOOLEAN
    /\ live \subseteq Items /\ undestroyed \subseteq Items

Init ==
    /\ containsFinalizedObjects \in BOOLEAN
    /\ bits = [x \in Items |-> "free"]
    /\ blocks = <<>> /\ avail = <<>> /\ dirty = <<>>
    /\ free = [b \in Blocks |-> {}]
    /\ quick = <<>> /\ budget = ItemsPerBlock /\ obtained = ItemsPerBlock
    /\ finalizeState = [b \in Blocks |-> FALSE] /\ finalizedValue = TRUE
    /\ finalizable = {} /\ empties = {}
    /\ phase = "run"
    /\ cur = None /\ next = None /\ putOnFreeList = FALSE
    /\ live = {} /\ undestroyed = {}
-----------------------------------------------------------------------------
(***************************************************************************)
(* The allocator as functions of its lists a.                              *)
(***************************************************************************)
Lists == [bits |-> bits, blocks |-> blocks, avail |-> avail, dirty |-> dirty, free |-> free,
          quick |-> quick, budget |-> budget, obtained |-> obtained,
          finalizeState |-> finalizeState]
Becomes(a) ==
    /\ bits' = a.bits /\ blocks' = a.blocks /\ avail' = a.avail /\ dirty' = a.dirty
    /\ free' = a.free /\ quick' = a.quick
    /\ budget' = a.budget /\ obtained' = a.obtained
    /\ finalizeState' = a.finalizeState

Without(s, S) == SelectSeq(s, LAMBDA b : b \notin S)
Full(a, b) == a.free[b] = Slots
HasMark(a, b) == {i \in Slots : a.bits[b, i] = "marked"}

\* UnlinkChunk and FreeChunk of a set of blocks.
UnlinkChunk(a, S) == [a EXCEPT !.blocks = Without(@, S), !.avail = Without(@, S)]
FreeChunk(a, S) ==
    [a EXCEPT !.bits = [x \in Items |-> IF x[1] \in S THEN "free" ELSE @[x]],
              !.free = [b \in Blocks |-> IF b \in S THEN {} ELSE @[b]],
              !.finalizeState = [b \in Blocks |-> IF b \in S THEN FALSE ELSE @[b]]]

\* CreateChunk: last in the block list, first in the list of free blocks.
CanGrow(a) == \E b \in Blocks \ empties : b \notin Range(a.blocks)

CreateChunk(a) ==
    LET b == CHOOSE b \in Blocks \ empties : b \notin Range(a.blocks)
    IN  [a EXCEPT !.blocks = Append(@, b), !.avail = <<b>> \o @,
                  !.free[b] = Slots,
                  !.finalizeState[b] = IF collecting /\ m_finalized THEN finalizedValue
                                       ELSE ~finalizedValue]

\* FillQuickList: the free list of the first free block becomes the quick list.
\* BudgetExact says that the budget suffices, so that no other list is flushed.
FillQuickList(a) ==
    LET b == Head(a.avail)
        n == Cardinality(a.free[b])
        more == IF a.budget < n THEN ItemsPerBlock ELSE 0
    IN  [a EXCEPT !.quick = SetToSeq({b} \X a.free[b]), !.free[b] = {}, !.avail = Tail(@),
                  !.budget = @ + more - n, !.obtained = @ + more]

AllocFromQuickList(a) ==
    [a EXCEPT !.bits[Head(a.quick)] = "white", !.quick = Tail(@), !.budget = @ + 1]

BlocksOf(q) == [i \in DOMAIN q |-> q[i][1]]

\* CoalesceQuickList up to the search for empty blocks.
Returned(a) ==
    LET back == FoldLeft(LAMBDA s, b : IF a.free[b] = {} /\ b \notin Range(s) THEN <<b>> \o s
                                       ELSE s, a.avail, BlocksOf(a.quick))
    IN  [a EXCEPT !.quick = <<>>, !.avail = back,
                  !.free = [b \in Blocks |-> @[b] \cup {i \in Slots : <<b, i>> \in Range(a.quick)}],
                  !.obtained = ItemsPerBlock, !.budget = ItemsPerBlock]

\* The search starts at m_firstFree but follows the block list.
EmptyFrom(a) ==
    IF a.avail = <<>> THEN {}
    ELSE LET start == CHOOSE i \in DOMAIN a.blocks : a.blocks[i] = Head(a.avail)
         IN  {a.blocks[i] : i \in {j \in start..Len(a.blocks) :
                                     Full(a, a.blocks[j]) /\ a.blocks[j] \notin Range(a.dirty)}}

CoalesceQuickList(a) ==
    LET r == Returned(a)
    IN  FreeChunk(UnlinkChunk(r, EmptyFrom(r)), EmptyFrom(r))

\* SweepGuts and Sweep of one block.
SweepGuts(a, b) ==
    LET garbage == {i \in Slots : a.bits[b, i] = "white"}
    IN  [a EXCEPT !.free[b] = @ \cup garbage,
                  !.bits = [x \in Items |-> IF x[1] # b \/ @[x] = "free" THEN @[x]
                                            ELSE IF x[2] \in garbage THEN "free" ELSE "white"]]
SweepBlock(a, b) ==
    LET s == SweepGuts([a EXCEPT !.dirty = Without(@, {b})], b)
    IN  IF Full(s, b) THEN FreeChunk(UnlinkChunk(s, {b}), {b})
        ELSE IF s.free[b] # {} THEN [s EXCEPT !.avail = <<b>> \o @]
        ELSE s

SweepNeedsSweeping(a) == FoldLeft(SweepBlock, a, a.dirty)

\* The loop of AllocSlow outside a sweep.
SweepUntilFree(a) ==
    FoldLeft(LAMBDA s, b : IF s.avail = <<>> THEN SweepBlock(s, b) ELSE s, a, a.dirty)

Grown(a) == IF a.avail = <<>> THEN CreateChunk(a) ELSE a

\* Mutant of ClearMarks: the bits of free items are cleared too.
ClearMarksOfAll(a, b) ==
    [a EXCEPT !.bits = [x \in Items |-> IF x[1] # b THEN @[x] ELSE "white"]]

\* ClearMarks of one block; its free items keep kFreelist.
ClearMarks(a, b) ==
    [a EXCEPT !.bits = [x \in Items |-> IF x[1] # b THEN @[x]
                                        ELSE IF x[2] \in a.free[b] THEN "free" ELSE "white"]]
-----------------------------------------------------------------------------
(***************************************************************************)
(* The program outside a sweep.                                            *)
(***************************************************************************)
\* A new item, with kFinalizable if the class asks for it; its constructor is
\* called from the destructors of the items in dead.
Construct(x, dead) ==
    /\ live' = live \cup {x}
    /\ undestroyed' = (undestroyed \ dead) \cup {x}
    /\ finalizable' = IF containsFinalizedObjects THEN (finalizable \ dead) \cup {x}
                      ELSE finalizable \ {x}

\* Alloc, with AllocSlow when the quick list is empty.
Alloc ==
    /\ ProgramRuns
    /\ LET swept == IF quick = <<>> THEN SweepUntilFree(Lists) ELSE Lists
           a == IF quick = <<>> THEN FillQuickList(Grown(swept)) ELSE Lists
       IN  /\ quick # <<>> \/ swept.avail # <<>> \/ CanGrow(swept)
           /\ Becomes(AllocFromQuickList(a))
           /\ Construct(Head(a.quick), {})
    /\ UNCHANGED <<containsFinalizedObjects, finalizedValue, empties, phase, walkVars>>

\* The program forgets an item.
Drop(x) ==
    /\ ProgramRuns /\ x \in live
    /\ live' = live \ {x}
    /\ UNCHANGED <<containsFinalizedObjects, listVars, finalizedValue, finalizable, empties, phase,
                   walkVars, undestroyed>>

\* GC::AbortFree: the item is cleared and stays where it is.
AbortFree(x) ==
    /\ finalizable' = finalizable \ {x}
    /\ UNCHANGED listVars

\* Free and FreeSlow outside a sweep, without the quick list's budget.
FreeItem(a, x) ==
    LET b == x[1]
        f == [a EXCEPT !.bits[x] = "free"]
    IN  IF b \in Range(a.dirty)
        THEN [SweepBlock([f EXCEPT !.quick = <<>>, !.free[b] = @ \cup {x[2]}], b)
                EXCEPT !.quick = a.quick]
        ELSE [f EXCEPT !.quick = <<x>> \o @, !.budget = @ - 1]

\* QuickListBudgetExhausted: the budget may have to come from this very list.
MoreBudget(a) == [a EXCEPT !.obtained = @ + ItemsPerBlock, !.budget = @ + ItemsPerBlock]
Exhausted(a) ==
    IF a.budget <= 0 THEN {MoreBudget(a), MoreBudget(CoalesceQuickList(a))} ELSE {a}

\* The program deletes an item; its destructor has run.
Free(x) ==
    /\ ProgramRuns /\ x \in live
    /\ IF phase = "mark" /\ bits[x] = "queued"
       THEN AbortFree(x)
       ELSE /\ \E a \in Exhausted(FreeItem(Lists, x)) : Becomes(a)
            /\ UNCHANGED finalizable
    /\ live' = live \ {x}
    /\ undestroyed' = undestroyed \ {x}
    /\ UNCHANGED <<containsFinalizedObjects, finalizedValue, empties, phase, walkVars>>

\* ObtainQuickListBudget for another allocator takes this one's quick list.
GiveUpQuickList ==
    /\ ProgramRuns /\ quick # <<>>
    /\ Becomes(CoalesceQuickList(Lists))
    /\ UNCHANGED <<containsFinalizedObjects, finalizedValue, finalizable, empties, phase,
                   walkVars, live, undestroyed>>
-----------------------------------------------------------------------------
(***************************************************************************)
(* A collection.                                                           *)
(***************************************************************************)
ItemsSame == UNCHANGED <<finalizable, live, undestroyed>>

\* GC::StartIncrementalMark: EstablishSweepInvariants and SweepNeedsSweeping.
StartIncrementalMark ==
    /\ phase = "run" /\ phase' = "mark"
    /\ Becomes(SweepNeedsSweeping(CoalesceQuickList(Lists)))
    /\ UNCHANGED <<containsFinalizedObjects, finalizedValue, empties, walkVars>> /\ ItemsSame

\* The marker reaches an item, and traces it.
Mark(x) ==
    /\ phase = "mark" /\ bits[x] \in {"white", "queued"}
    /\ bits' = [bits EXCEPT ![x] = IF @ = "white" THEN "queued" ELSE "marked"]
    /\ UNCHANGED <<containsFinalizedObjects, blocks, avail, dirty, free, quick, budget, obtained,
                   finalizeState, finalizedValue, empties, phase, walkVars>> /\ ItemsSame

\* GC::AbortInProgressMarking: ClearMarks of every block.
AbortInProgressMarking ==
    /\ phase = "mark" /\ phase' = "run"
    /\ LET a == SweepNeedsSweeping(CoalesceQuickList(Lists))
       IN  Becomes(FoldLeft(ClearMarks, a, a.blocks))
    /\ UNCHANGED <<containsFinalizedObjects, finalizedValue, empties, walkVars>> /\ ItemsSame

\* GC::Sweep up to the presweep callbacks.  What the program uses is marked.
StartSweep ==
    /\ phase = "mark" /\ phase' = "presweep"
    /\ \A x \in live : bits[x] = "marked"
    /\ \A x \in Items : bits[x] # "queued"
    /\ Becomes(CoalesceQuickList(Lists))
    /\ UNCHANGED <<containsFinalizedObjects, finalizedValue, empties, walkVars>> /\ ItemsSame

\* Mutant of AllocCollecting: the item does not start out marked.
AllocCollectingUnmarked(dead) ==
    LET a == FillQuickList(Grown(Lists))
    IN  /\ avail # <<>> \/ CanGrow(Lists)
        /\ Becomes(CoalesceQuickList(AllocFromQuickList(a)))
        /\ Construct(Head(a.quick), dead)

\* AllocSlow while collecting, from a callback or a destructor.
AllocCollecting(dead) ==
    LET a == FillQuickList(Grown(Lists))
        x == Head(a.quick)
        got == AllocFromQuickList(a)
    IN  /\ avail # <<>> \/ CanGrow(Lists)
        /\ Becomes(CoalesceQuickList(
              IF got.finalizeState[x[1]] # finalizedValue THEN [got EXCEPT !.bits[x] = "marked"]
              ELSE got))
        /\ Construct(x, dead)

\* A callback, or a destructor of another allocator's item, allocates.
CallbackAllocs ==
    /\ phase \in {"presweep", "after"}
    /\ AllocCollecting({})
    /\ UNCHANGED <<containsFinalizedObjects, finalizedValue, empties, phase, walkVars>>

\* Finalize of an allocator without destructors: LazySweepPass.
LazySweepPass ==
    /\ phase = "presweep" /\ ~containsFinalizedObjects
    /\ phase' = "after"
    /\ LET gone == {b \in Range(blocks) : HasMark(Lists, b) = {}}
           a == UnlinkChunk(Lists, gone)
       IN  /\ Becomes([a EXCEPT !.avail = <<>>, !.dirty = Reverse(a.blocks) \o @,
                                !.finalizeState = [b \in Blocks |-> IF b \in Range(blocks)
                                                      THEN finalizedValue ELSE @[b]]])
           /\ empties' = empties \cup gone
    /\ undestroyed' = undestroyed \ {x \in Items : x[1] \in Range(blocks) /\ bits[x] = "white"}
    /\ UNCHANGED <<containsFinalizedObjects, finalizedValue, finalizable, walkVars, live>>

\* FinalizationPass comes to a block: it leaves the list of free blocks.
NextOf(b) == IF b \notin Range(blocks) \/ b = Last(blocks) THEN None
             ELSE blocks[1 + CHOOSE i \in DOMAIN blocks : blocks[i] = b]
Visit(b) ==
    /\ cur' = b
    /\ phase' = IF b = None THEN "after" ELSE "finalize"
    /\ next' = NextOf(b)

StartFinalization ==
    /\ phase = "presweep" /\ containsFinalizedObjects
    /\ Visit(IF blocks = <<>> THEN None ELSE Head(blocks))
    /\ putOnFreeList' = (cur' \in Range(avail))
    /\ avail' = Without(avail, {cur'})
    /\ UNCHANGED <<containsFinalizedObjects, bits, blocks, dirty, free, quick, budget, obtained,
                   finalizeState, finalizedValue, empties>> /\ ItemsSame

\* The items of the block still to be finalized, in their order.
Garbage == {x \in {cur} \X Slots : bits[x] = "white" /\ x \in finalizable}
Due == CHOOSE x \in Garbage : \A y \in Garbage : x[2] <= y[2]

\* The destructor of an item runs.
FinalizeItem ==
    /\ phase = "finalize" /\ Garbage # {}
    /\ finalizable' = finalizable \ {Due}
    /\ undestroyed' = undestroyed \ {Due}
    /\ UNCHANGED <<containsFinalizedObjects, listVars, finalizedValue, empties, phase, walkVars, live>>

\* Mutant of FinalizerDeletes: the item that was deleted keeps kFinalizable.
FinalizerDeletesFlagged(x) ==
    /\ phase = "finalize" /\ Garbage # {} /\ x # Due
    /\ x \in undestroyed /\ (x \in live \/ bits[x] = "white")
    /\ finalizable' = finalizable \ {Due}
    /\ undestroyed' = undestroyed \ {Due, x}
    /\ live' = live \ {x}
    /\ UNCHANGED <<containsFinalizedObjects, listVars, finalizedValue, empties, phase, walkVars>>

\* It deletes another item, dead or alive, whose destructor runs too; Free finds
\* that a sweep is in progress.
FinalizerDeletes(x) ==
    /\ phase = "finalize" /\ Garbage # {} /\ x # Due
    /\ x \in undestroyed /\ (x \in live \/ bits[x] = "white")
    /\ finalizable' = finalizable \ {Due, x}
    /\ undestroyed' = undestroyed \ {Due, x}
    /\ live' = live \ {x}
    /\ UNCHANGED <<containsFinalizedObjects, listVars, finalizedValue, empties, phase, walkVars>>

\* It allocates an item that a root keeps.
FinalizerAllocs ==
    /\ phase = "finalize" /\ Garbage # {}
    /\ AllocCollecting({Due})
    /\ FinalizersMoveBlocks \/ blocks' = blocks
    /\ UNCHANGED <<containsFinalizedObjects, finalizedValue, empties, phase, walkVars>>

\* Mutant of BlockFinalized: the marks of a block without garbage stay.
BlockFinalizedKeepsMarks(a, b) ==
    LET marked == Cardinality(HasMark(a, b))
        done == [a EXCEPT !.finalizeState[b] = finalizedValue]
    IN  IF marked = 0 THEN UnlinkChunk(done, {b})
        ELSE IF marked = ItemsPerBlock - Cardinality(a.free[b])
        THEN [done EXCEPT !.avail = IF putOnFreeList THEN <<b>> \o @ ELSE @]
        ELSE [done EXCEPT !.dirty = <<b>> \o @]

\* The three outcomes for a block whose items are finalized, and the next block.
BlockFinalized(a, b) ==
    LET marked == Cardinality(HasMark(a, b))
        done == [a EXCEPT !.finalizeState[b] = finalizedValue]
    IN  IF marked = 0 THEN UnlinkChunk(done, {b})
        ELSE IF marked = ItemsPerBlock - Cardinality(a.free[b])
        THEN [ClearMarks(done, b) EXCEPT !.avail = IF putOnFreeList THEN <<b>> \o @ ELSE @]
        ELSE [done EXCEPT !.dirty = <<b>> \o @]

FinishBlock ==
    /\ phase = "finalize" /\ Garbage = {}
    /\ LET a == BlockFinalized(Lists, cur)
       IN  /\ Visit(next)
           /\ putOnFreeList' = (next \in Range(a.avail))
           /\ Becomes([a EXCEPT !.avail = Without(@, {next})])
    /\ empties' = IF HasMark(Lists, cur) = {} THEN empties \cup {cur} ELSE empties
    /\ UNCHANGED <<containsFinalizedObjects, finalizedValue>> /\ ItemsSame

\* The end of GC::Finalize and of GC::Sweep; eagerSweeping sweeps at once.
EndSweep ==
    /\ phase = "after" /\ phase' = "run"
    /\ finalizedValue' = ~finalizedValue
    /\ LET freed == FreeChunk(Lists, empties)
       IN  \E a \in {freed, SweepNeedsSweeping(freed)} : Becomes(a)
    /\ empties' = {}
    /\ UNCHANGED <<containsFinalizedObjects, walkVars>> /\ ItemsSame

Next ==
    \/ Alloc \/ GiveUpQuickList
    \/ \E x \in Items : Drop(x) \/ Free(x) \/ Mark(x) \/ FinalizerDeletes(x)
    \/ StartIncrementalMark \/ AbortInProgressMarking \/ StartSweep
    \/ CallbackAllocs \/ LazySweepPass
    \/ StartFinalization \/ FinalizeItem \/ FinalizerAllocs \/ FinishBlock
    \/ EndSweep

Spec == Init /\ [][Next]_vars
-----------------------------------------------------------------------------
(***************************************************************************)
(* Properties.                                                             *)
(***************************************************************************)
Allocated(x) == x[1] \in Range(blocks) /\ bits[x] # "free"

\* The promise to the program, also to its destructors and callbacks: an item it
\* uses is neither freed nor destroyed (AllocSlow, FinalizationPass, SweepGuts).
LiveKept == \A x \in live : Allocated(x) /\ x \in undestroyed

\* "True about objects on the quick list" (GCAlloc.cpp): free items have
\* kFreelist and are on exactly one list; a quick item's block is not to be swept.
FreeOnOneList ==
    \A x \in Items : x[1] \in Range(blocks) =>
        /\ bits[x] = "free" <=> (x[2] \in free[x[1]] \/ x \in Range(quick))
        /\ x \in Range(quick) => x[2] \notin free[x[1]] /\ x[1] \notin Range(dirty)

\* The list AllocSlow takes blocks from has exactly those with free items that
\* are swept, the block that is being finalized excepted.
AvailExact ==
    \A b \in Range(blocks) \ {cur} :
        b \in Range(avail) <=> free[b] # {} /\ b \notin Range(dirty)

\* A quick list always has its budget, so FillQuickList never flushes lists, which
\* could free the very block it is about to use.
BudgetExact == budget = obtained - Len(quick) /\ obtained >= ItemsPerBlock

\* GCAlloc::VerifyFreeBlockIntegrity and the quick list's comments: the lists of blocks
\* and items agree with the bits and with the budget.
ListsExact == TypeOK /\ FreeOnOneList /\ AvailExact /\ BudgetExact

\* CheckMarks: no mark survives into the next collection, where it would keep
\* the marker from tracing the item.
MarksClean ==
    /\ phase = "run" =>
         \A x \in Items : x[1] \in Range(blocks) \ Range(dirty) => bits[x] \in {"free", "white"}
    /\ phase = "mark" => dirty = <<>>

\* AllocSlow decides by finalizeState whether a new item must start out marked:
\* between collections no block passes for one that this collection has done.
FinalizeStateClean == ~collecting => \A b \in Range(blocks) : finalizeState[b] # finalizedValue

\* A collection, also an abandoned one, leaves nothing that misleads the next one.
SweepClean == MarksClean /\ FinalizeStateClean

\* A destructor runs at most once, and before the memory is used again.
DestroyedOnce ==
    containsFinalizedObjects => \A x \in Items :
        /\ Allocated(x) /\ x \in finalizable => x \in undestroyed
        /\ x \in undestroyed => Allocated(x)
=============================================================================
