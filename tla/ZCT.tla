--------------------------------- MODULE ZCT ---------------------------------
(***************************************************************************)
(* Deferred reference counting (MMgc/ZCT.cpp, RCObject in GCObject.h).     *)
(* Counted fields of objects and of a root change the counts of what they  *)
(* point to; pointers on the native stack are not counted.  An object with *)
(* count zero is listed in the zero count table, and a reap destroys the   *)
(* listed objects that the stack does not point to.                        *)
(*                                                                         *)
(* Each object has one counted field.  An operation that finds the table   *)
(* full reaps in the middle of itself: `adding' is then the object that    *)
(* waits to be added, and `after' what the operation has left to do.       *)
(***************************************************************************)
EXTENDS Integers, Sequences, SequencesExt, FiniteSets

CONSTANTS Objects,      \* the RCObjects that can ever be allocated
          Root, NULL,
          SegCap,       \* CAPACITY(RCObject*), entries of one block of the table
          MaxSegs,      \* blocks that ZCT_CAPACITY allows
          StickyAt,     \* the count at which an object becomes sticky
          SegAllocFails,\* whether the page heap may refuse a block
          StackCap,     \* bound on the number of objects the stack or a destructor points to
          Deletable,    \* objects the program may delete
          Stickable,    \* objects the program may make sticky
          Callback,     \* the GCCallbacks, as what runs when a reap calls prereap()
          Builders,     \* objects whose destructors allocate, load and store
          Careful       \* whether code that a reap calls keeps out of its way

ASSUME ZCTAssumption ==
    /\ IsFiniteSet(Objects) /\ NULL \notin Objects /\ Root \notin Objects \cup {NULL}
    /\ Callback \notin Objects \cup {NULL, Root} /\ Builders \subseteq Objects /\ Careful \in BOOLEAN
    /\ SegCap \in Nat \ {0, 1} /\ MaxSegs \in Nat \ {0}
    /\ StickyAt \in Nat \ {0, 1}
    /\ SegAllocFails \in BOOLEAN
    /\ Deletable \subseteq Objects /\ Stickable \subseteq Objects

VARIABLES
    alive,      \* allocated objects
    field,      \* the counted field of an object or of the root
    stack,      \* objects the native stack points to
    rc,         \* RefCount()
    sticky,     \* objects with STICKYFLAG
    idx,        \* getZCTIndex() + 1 of the objects with ZCTFLAG, 0 of the others
    pinned,     \* objects with STACK_PIN
    zct,        \* the entries of the block table up to topIndex
    segs,       \* blocktop - blocktable
    budget,
    pins,       \* the entries of pinList up to pinIndex
    phase,      \* run, reap (reaping) or collect (gc->collecting)
    condemned,  \* unmarked objects the sweep has yet to finalize
    adding, after,
    running,    \* the object whose destructor a reap runs, or Callback, or NULL
    locals,     \* objects that the code running inside a reap points to
    missed      \* objects with count zero that the table had no room for

tableVars == <<rc, sticky, idx, pinned, zct, segs, budget, missed>>
frame == <<running, locals>>
vars == <<alive, field, stack, tableVars, pins, phase, condemned, adding, after, frame>>

Holders == Objects \cup {Root}
Nothing == <<"none", NULL, NULL>>
Afters == {Nothing} \cup {<<"new", NULL, NULL>>} \cup ({"store"} \X Holders \X (Objects \cup {NULL}))
          \cup ({"delete"} \X Objects \X {NULL})

TypeOK ==
    /\ alive \subseteq Objects
    /\ field \in [Holders -> Objects \cup {NULL}]
    /\ \A x \in Holders \ condemned : field[x] \in alive \cup {NULL}
    /\ stack \subseteq alive
    /\ rc \in [Objects -> 0..StickyAt]
    /\ sticky \subseteq alive /\ pinned \subseteq alive /\ missed \subseteq alive
    /\ idx \in [Objects -> 0..(SegCap * MaxSegs)]
    /\ \A s \in {zct, pins} : Len(s) <= SegCap * MaxSegs /\ Range(s) \subseteq alive \cup {NULL}
    /\ segs \in 1..MaxSegs
    /\ Len(zct) \in (segs - 1) * SegCap .. segs * SegCap
    /\ budget \in 0..1
    /\ phase \in {"run", "reap", "collect"}
    /\ condemned \subseteq alive
    /\ adding \in alive \cup {NULL} /\ after \in Afters
    /\ running \in alive \cup {Callback, NULL} /\ locals \subseteq alive

Init ==
    /\ alive = {} /\ stack = {} /\ field = [x \in Holders |-> NULL]
    /\ rc = [o \in Objects |-> 0] /\ idx = [o \in Objects |-> 0]
    /\ sticky = {} /\ pinned = {} /\ missed = {}
    /\ zct = <<>> /\ segs = 1 /\ budget = 0 /\ pins = <<>>
    /\ phase = "run" /\ condemned = {}
    /\ adding = NULL /\ after = Nothing /\ running = NULL /\ locals = {}
-----------------------------------------------------------------------------
(***************************************************************************)
(* The table and the header words of the objects as a record z.            *)
(***************************************************************************)
Table == [rc |-> rc, sticky |-> sticky, idx |-> idx, pinned |-> pinned, zct |-> zct,
          segs |-> segs, budget |-> budget, missed |-> missed]
Becomes(z) ==
    /\ rc' = z.rc /\ sticky' = z.sticky /\ idx' = z.idx /\ pinned' = z.pinned
    /\ zct' = z.zct /\ segs' = z.segs /\ budget' = z.budget /\ missed' = z.missed

Room(z) == Len(z.zct) < z.segs * SegCap
CanGrow(z) == Len(z.zct) + SegCap <= MaxSegs * SegCap

\* The entry of o; the pin flag is preserved while reaping only.
Enter(z, o, mode) ==
    [z EXCEPT !.zct = Append(@, o), !.idx[o] = Len(z.zct) + 1,
              !.pinned = IF mode = "reap" THEN @ ELSE @ \ {o}]
Miss(z, o) == [z EXCEPT !.missed = @ \cup {o}]
Grow(z) == [z EXCEPT !.segs = @ + 1, !.budget = IF @ > 0 THEN @ - 1 ELSE 0]

\* Add and AddSlow once no reap is called for: the possible tables.  A sweep adds
\* objects that are marked; it has cleared the marks of some that it keeps.
Add(z, o, mode) ==
    (IF o \in condemned THEN {}
     ELSE IF Room(z) THEN {Enter(z, o, mode)}
     ELSE IF CanGrow(z) THEN {Enter(Grow(z), o, mode)} ELSE {Miss(z, o)})
    \cup (IF mode = "collect" \/ (~Room(z) /\ SegAllocFails) THEN {Miss(z, o)} ELSE {})

RemoveFromZCT(z, o) == [z EXCEPT !.zct[z.idx[o]] = NULL, !.idx[o] = 0]
RemoveIfListed(z, o) == IF z.idx[o] # 0 THEN RemoveFromZCT(z, o) ELSE z

\* Whether DecrementRef of o, one of the pointers that may be NULL, changes the count.
Counts(z, o) == o # NULL /\ o \in alive \ z.sticky /\ z.rc[o] > 0
Decrement(z, o) == [z EXCEPT !.rc[o] = @ - 1]

\* Mutant of DecrementRef: a destructor run by a reap does not list what it releases.
DecrementRefUnlisted(z, o, mode) ==
    IF ~Counts(z, o) THEN {z}
    ELSE IF z.rc[o] > 1 \/ mode = "reap" THEN {Decrement(z, o)} ELSE Add(Decrement(z, o), o, mode)

DecrementRef(z, o, mode) ==
    IF ~Counts(z, o) THEN {z}
    ELSE IF z.rc[o] > 1 THEN {Decrement(z, o)} ELSE Add(Decrement(z, o), o, mode)

IncrementRef(z, o) ==
    IF o = NULL \/ o \in z.sticky THEN z
    ELSE LET d == [z EXCEPT !.rc[o] = @ + 1, !.missed = @ \ {o}]
         IN  IF d.rc[o] = StickyAt THEN [d EXCEPT !.sticky = @ \cup {o}]
             ELSE RemoveIfListed(d, o)

\* AddSlow reaps when the table is full and may not grow.
MustReap(z) == phase = "run" /\ ~Room(z) /\ ~(z.budget > 0 /\ CanGrow(z))
DropReaps(o) == Counts(Table, o) /\ rc[o] = 1 /\ MustReap(Table)

\* ~RCObject and the release of the memory: the header word becomes 0.
Destroyed(z, o) ==
    [RemoveIfListed(z, o) EXCEPT !.rc[o] = 0, !.sticky = @ \ {o}, !.pinned = @ \ {o},
                                 !.missed = @ \ {o}]
-----------------------------------------------------------------------------
(***************************************************************************)
(* The program.  It runs between collections, and during a sweep in        *)
(* callbacks.                                                              *)
(***************************************************************************)
ProgramRuns == phase \in {"run", "collect"}

\* Mutant of BeginReap: only objects in the table are pinned.
BeginReapPinsListed(z, o, op) ==
    /\ phase' = "reap" /\ pins' = <<>> /\ running' = Callback
    /\ adding' = o /\ after' = op
    /\ Becomes([z EXCEPT !.pinned = @ \cup {p \in stack' : z.idx[p] # 0}])

\* Reap up to its loop: what the stack points to is pinned, listed or not; a word of the
\* stack that is no pointer pins as well.  Then it calls prereap().
BeginReap(z, o, op) ==
    /\ phase' = "reap" /\ pins' = <<>> /\ running' = Callback
    /\ adding' = o /\ after' = op
    /\ \E P \in SUBSET alive' :
          /\ (stack' \cup {o}) \ {NULL} \subseteq P
          /\ Becomes([z EXCEPT !.pinned = @ \cup P])

\* The constructor.  Memory that a sweep has finalized is used again only after the
\* destructors of the objects that pointed to it have run.
NewObject(o) ==
    /\ ProgramRuns /\ o \notin alive
    /\ \A x \in condemned : field[x] # o
    /\ alive' = alive \cup {o} /\ stack' = stack \cup {o}
    /\ Cardinality(stack') <= StackCap
    /\ \/ /\ MustReap(Table)
          /\ BeginReap(Table, o, <<"new", NULL, NULL>>)
       \/ /\ ~MustReap(Table)
          /\ \E z \in Add(Table, o, phase) : Becomes(z)
          /\ UNCHANGED <<pins, phase, adding, after, running>>
    /\ UNCHANGED <<field, condemned, locals>>

Load(x) ==
    /\ ProgramRuns /\ x \in stack \cup {Root} /\ field[x] # NULL
    /\ stack' = stack \cup {field[x]}
    /\ Cardinality(stack') <= StackCap
    /\ UNCHANGED <<alive, field, tableVars, pins, phase, condemned, adding, after, frame>>

Forget(o) ==
    /\ ProgramRuns /\ o \in stack
    /\ stack' = stack \ {o}
    /\ UNCHANGED <<alive, field, tableVars, pins, phase, condemned, adding, after, frame>>

\* Mutant of StoreRest: nothing is done when the field keeps its value.
StoreRestUnlessSame(z, x, v) ==
    /\ field' = [field EXCEPT ![x] = v]
    /\ Becomes(IF field[x] = v THEN z ELSE IncrementRef(z, v))
    /\ UNCHANGED <<alive, stack>>

\* WriteFieldRC: the old value loses a reference, the field is written, the new one gains.
StoreRest(z, x, v) ==
    /\ field' = [field EXCEPT ![x] = v]
    /\ Becomes(IncrementRef(z, v))
    /\ UNCHANGED <<alive, stack>>

Store(x, v) ==
    /\ ProgramRuns /\ x \in stack \cup {Root} /\ v \in stack \cup {NULL}
    /\ \/ /\ DropReaps(field[x])
          /\ UNCHANGED <<alive, field, stack>>
          /\ BeginReap(Decrement(Table, field[x]), field[x], <<"store", x, v>>)
       \/ /\ ~DropReaps(field[x])
          /\ \E z \in DecrementRef(Table, field[x], phase) : StoreRest(z, x, v)
          /\ UNCHANGED <<pins, phase, adding, after, running>>
    /\ UNCHANGED <<condemned, locals>>

\* An explicit delete of an object that nothing else points to.
DeleteRest(z, o) ==
    /\ alive' = alive \ {o} /\ stack' = stack \ {o}
    /\ field' = [field EXCEPT ![o] = NULL]
    /\ Becomes(Destroyed(z, o))

Delete(o) ==
    /\ ProgramRuns /\ o \in stack \cap Deletable
    /\ \A x \in Holders \ {o} : field[x] # o
    /\ \/ /\ DropReaps(field[o])
          /\ UNCHANGED <<alive, field, stack>>
          /\ BeginReap(Decrement(Table, field[o]), field[o], <<"delete", o, NULL>>)
       \/ /\ ~DropReaps(field[o])
          /\ \E z \in DecrementRef(Table, field[o], phase) : DeleteRest(z, o)
          /\ UNCHANGED <<pins, phase, adding, after, running>>
    /\ UNCHANGED <<condemned, locals>>

Stick(o) ==
    /\ ProgramRuns /\ o \in (stack \cap Stickable) \ sticky
    /\ Becomes([RemoveIfListed(Table, o) EXCEPT !.sticky = @ \cup {o}, !.missed = @ \ {o}])
    /\ UNCHANGED <<alive, field, stack, pins, phase, condemned, adding, after, frame>>
-----------------------------------------------------------------------------
(***************************************************************************)
(* Reap.  The table is a stack: destructors add to its end.                *)
(***************************************************************************)
ReapZCT ==
    /\ phase = "run" /\ zct # <<>>
    /\ UNCHANGED <<alive, field, stack, condemned, locals>>
    /\ BeginReap(Table, NULL, Nothing)

\* The loop of Reap, between the calls it makes.
Reaping == phase = "reap" /\ running = NULL

\* The table without its last entry; PopFastSegment.
Popped == [Table EXCEPT !.zct = Front(@),
                        !.segs = IF Len(zct) = (segs - 1) * SegCap THEN @ - 1 ELSE @]

PopNull ==
    /\ Reaping /\ zct # <<>> /\ Last(zct) = NULL
    /\ Becomes(Popped)
    /\ UNCHANGED <<alive, field, stack, pins, phase, condemned, adding, after, frame>>

\* Mutant of PinObject: the index does not count the link of the block.
PinObjectUncounted ==
    /\ Reaping /\ zct # <<>> /\ Last(zct) \in pinned
    /\ LET o == Last(zct)
           list == IF Len(pins) % SegCap = 0 THEN Append(pins, NULL) ELSE pins
       IN  /\ pins' = Append(list, o)
           /\ Becomes([Popped EXCEPT !.idx[o] = Len(pins) + 1, !.pinned = @ \ {o}])
    /\ UNCHANGED <<alive, field, stack, phase, condemned, adding, after, frame>>

\* Mutant of PinObject: a pinned object goes to the bottom of the table itself.
PinObjectInPlace ==
    /\ Reaping /\ zct # <<>> /\ Last(zct) \in pinned
    /\ Becomes([Table EXCEPT !.zct = <<Last(zct)>> \o Front(zct)])
    /\ UNCHANGED <<alive, field, stack, pins, phase, condemned, adding, after, frame>>

\* PinObject, GrowPinningMemory: the first entry of a block is the link of pinList.
PinObject ==
    /\ Reaping /\ zct # <<>> /\ Last(zct) \in pinned
    /\ LET o == Last(zct)
           grows == Len(pins) % SegCap = 0
           list == IF grows THEN Append(pins, NULL) ELSE pins
       IN  \/ /\ pins' = Append(list, o)
              /\ Becomes([Popped EXCEPT !.idx[o] = Len(list) + 1, !.pinned = @ \ {o}])
           \/ /\ grows /\ SegAllocFails
              /\ pins' = pins
              /\ Becomes([Miss(Popped, o) EXCEPT !.idx[o] = 0])
    /\ UNCHANGED <<alive, field, stack, phase, condemned, adding, after, frame>>

(***************************************************************************)
(* Code that a reap calls: prereap(), and the destructor of an object with *)
(* the prereap(obj) before it.  It does not start another reap: AddSlow    *)
(* grows the table instead.  What it makes is listed but not pinned, the   *)
(* stack having been scanned, and the loop frees nothing until it returns. *)
(*                                                                         *)
(* The reap itself is in the middle of things such code can get at: an     *)
(* object that is moved has an index into the pin list, which Remove takes *)
(* for one into the table; `adding' is listed without a second look at its *)
(* count; the field of an interrupted store has given up its reference     *)
(* already; and what only the stack of an outer frame points to is reaped. *)
(* Careful code does none of these things.                                 *)
(***************************************************************************)
RunsCode == running \in Builders \cup {Callback}
InReach == {Root} \cup locals \cup ({running} \cap Objects)
KeepsOut(x, v) ==
    /\ after[1] \in {"store", "delete"} => x # after[2]
    /\ v # NULL => v \notin Range(pins) \cup {adding}

\* A destructor makes no object whose destructor does the same: a reap would not end.
DestructorNew(o) ==
    /\ RunsCode /\ o \notin alive
    /\ running = Callback \/ o \notin Builders
    /\ alive' = alive \cup {o} /\ locals' = locals \cup {o}
    /\ Cardinality(locals') <= StackCap
    /\ \E z \in Add(Table, o, "reap") : Becomes(z)
    /\ UNCHANGED <<field, stack, pins, phase, condemned, adding, after, running>>

DestructorLoad(x) ==
    /\ RunsCode /\ x \in InReach /\ field[x] # NULL
    /\ locals' = locals \cup {field[x]}
    /\ Cardinality(locals') <= StackCap
    /\ UNCHANGED <<alive, field, stack, tableVars, pins, phase, condemned, adding, after, running>>

DestructorStore(x, v) ==
    /\ RunsCode /\ x \in InReach /\ v \in locals \cup {NULL}
    /\ Careful => KeepsOut(x, v)
    /\ \E z \in DecrementRef(Table, field[x], "reap") : StoreRest(z, x, v)
    /\ UNCHANGED <<pins, phase, condemned, adding, after, frame>>

\* The code returns, and may have left a pointer on the stack of an outer frame.
LeaveFrame ==
    /\ running' = NULL /\ locals' = {}
    /\ stack' \in IF Careful THEN {stack} ELSE {stack \cup K : K \in SUBSET locals}

\* ReapObject up to the destructor, and its end: ~RCObject and the release of the memory.
ReapObject ==
    /\ Reaping /\ zct # <<>> /\ Last(zct) \notin pinned \cup {NULL}
    /\ running' = Last(zct)
    /\ Becomes([Popped EXCEPT !.idx[Last(zct)] = 0])
    /\ UNCHANGED <<alive, field, stack, pins, phase, condemned, adding, after, locals>>

DestroyObject ==
    /\ running \in Objects
    /\ \E z \in DecrementRef(Table, field[running], "reap") : Becomes(Destroyed(z, running))
    /\ alive' = alive \ {running}
    /\ field' = [field EXCEPT ![running] = NULL]
    /\ LeaveFrame
    /\ UNCHANGED <<pins, phase, condemned, adding, after>>

CallbackReturns ==
    /\ running = Callback
    /\ LeaveFrame
    /\ UNCHANGED <<alive, field, tableVars, pins, phase, condemned, adding, after>>

\* UsePinningMemory; then the operation that overflowed the table goes on.
UsePinningMemory ==
    IF pins = <<>> THEN Table
    ELSE [Table EXCEPT !.zct = pins, !.segs = (Len(pins) + SegCap - 1) \div SegCap]

EndReap ==
    /\ Reaping /\ zct = <<>>
    /\ phase' = "run" /\ pins' = <<>>
    /\ adding' = NULL /\ after' = Nothing
    /\ \E z \in IF adding = NULL THEN {UsePinningMemory}
                ELSE Add([UsePinningMemory EXCEPT !.budget = 1], adding, "run") :
          CASE after[1] = "store"  -> StoreRest(z, after[2], after[3])
            [] after[1] = "delete" -> DeleteRest(z, after[2])
            [] OTHER -> Becomes(z) /\ UNCHANGED <<alive, field, stack>>
    /\ UNCHANGED <<condemned, frame>>
-----------------------------------------------------------------------------
(***************************************************************************)
(* A sweep.  The marks cover what the program can reach, and are closed.   *)
(***************************************************************************)
Sweep ==
    /\ phase = "run"
    /\ \E M \in SUBSET alive :
          /\ stack \cup ({field[Root]} \ {NULL}) \subseteq M
          /\ \A o \in M : field[o] \in M \cup {NULL}
          /\ condemned' = alive \ M
    /\ phase' = "collect"
    /\ UNCHANGED <<alive, field, stack, tableVars, pins, adding, after, frame>>

\* The destructor of an unmarked object, in the order of the pages.
Finalize(o) ==
    /\ phase = "collect" /\ o \in condemned
    /\ \E z \in DecrementRef(Table, field[o], "collect") : Becomes(Destroyed(z, o))
    /\ alive' = alive \ {o} /\ condemned' = condemned \ {o}
    /\ field' = [field EXCEPT ![o] = NULL]
    /\ UNCHANGED <<stack, pins, phase, adding, after, frame>>

EndCollecting ==
    /\ phase = "collect" /\ condemned = {}
    /\ phase' = "run"
    /\ UNCHANGED <<alive, field, stack, tableVars, pins, condemned, adding, after, frame>>
-----------------------------------------------------------------------------
ReapStep == PopNull \/ PinObject \/ ReapObject \/ DestroyObject \/ CallbackReturns \/ EndReap
CodeInReap ==
    \/ \E o \in Objects : DestructorNew(o)
    \/ \E x \in Holders : DestructorLoad(x) \/ \E v \in Objects \cup {NULL} : DestructorStore(x, v)
Program ==
    \/ \E o \in Objects : NewObject(o) \/ Forget(o) \/ Delete(o) \/ Stick(o)
    \/ \E x \in Holders : Load(x) \/ \E v \in Objects \cup {NULL} : Store(x, v)
Collection == Sweep \/ (\E o \in Objects : Finalize(o)) \/ EndCollecting
Next == Program \/ ReapZCT \/ ReapStep \/ CodeInReap \/ Collection
Spec == Init /\ [][Next]_vars

\* A reap runs on the thread that began it until it is done, and what it calls returns.
LiveSpec == Spec /\ WF_vars(ReapStep)
-----------------------------------------------------------------------------
(***************************************************************************)
(* Properties.                                                             *)
(***************************************************************************)
References(o) == {x \in Holders : field[x] = o}
BeingDropped(o) == IF adding = o /\ after[1] \in {"store", "delete"} THEN 1 ELSE 0

\* The count of an object is the number of counted fields that point to it, through
\* reaps in the middle of a store and the destructors of a sweep; a field whose old value
\* waits for the reap has given up its reference already.
CountExact ==
    \A o \in alive \ sticky : rc[o] = Cardinality(References(o)) - BeingDropped(o)

\* An object's index leads to its only entry: in the table, or, once a reap has pinned it,
\* in the list that will replace the table.  Remove() clears the entry it finds there.
ZctExact ==
    /\ \A i \in DOMAIN zct : zct[i] # NULL => idx[zct[i]] = i
    /\ \A i \in DOMAIN pins : pins[i] # NULL => idx[pins[i]] = i
    /\ \A o \in alive : idx[o] # 0 =>
          LET listed == idx[o] \in DOMAIN zct /\ zct[idx[o]] = o
              moved == idx[o] \in DOMAIN pins /\ pins[idx[o]] = o
          IN  listed # moved

\* What the reaper destroys without looking at its count has count zero and no flag that
\* makes the count meaningless.
ListedUnreferenced == \A o \in alive : idx[o] # 0 => rc[o] = 0 /\ o \notin sticky

\* An object whose count is zero is known to the next reap, unless the table had no room
\* for it or a sweep left it out.
ZeroListed ==
    \A o \in alive \ (sticky \cup condemned) :
        rc[o] = 0 /\ o \notin {adding, running} => idx[o] # 0 \/ o \in missed

\* Outside of a reap no listed object is pinned, so that pins of one reap do not keep
\* objects from the next one: the assertion at the end of Reap.
ListedUnpinned == phase # "reap" => \A o \in alive : idx[o] # 0 => o \notin pinned

\* The table as the reaper trusts it: exact indices of unreferenced, unpinned objects.
TableExact == TypeOK /\ ZctExact /\ ListedUnreferenced /\ ListedUnpinned

\* Every reap ends, although the destructors it runs add to the table it empties.
ReapEnds == phase = "reap" ~> phase # "reap"

\* Counting and reaping free objects the program cannot reach, and no other.
C == INSTANCE Collector WITH
        Roots <- {Root}, rootAlive <- {Root},
        mem <- [x \in Holders |-> [i \in 1..2 |-> IF i = 1 THEN field[x] ELSE NULL]]
IsCollector == C!Spec
=============================================================================
