---------------------------- MODULE GCMarkProofs ----------------------------
(***************************************************************************)
(* GCMark for any number of objects and roots, any size of the two stacks  *)
(* and any choice of large and leaf objects: the marker's bookkeeping is   *)
(* consistent, no traced object points to a white one unless something     *)
(* still remembers it, and marking and sweeping implement Collector.       *)
(***************************************************************************)
EXTENDS GCMark, SequenceTheorems, TLAPS

Holders == Objects \cup Roots
Colours == {"white", "queued", "marked"}
Items == {Obj(o) : o \in Objects} \cup {Tail2(o) : o \in Objects} \cup {Protector(o) : o \in Large}
         \cup {Chunk(r) : r \in Roots} \cup {RootProt(r) : r \in Roots}
         \cup {StackMem(S) : S \in SUBSET Objects} \cup {Dead}

\* The states of the marker.
Markers == {m \in [bits : [Objects -> Colours], work : Seq(Items), overflow : BOOLEAN,
                   protected : SUBSET Large, sentinel : [Roots -> 0..MarkCap]] :
               Len(m.work) <= MarkCap}

\* What a holder still owes the marker when its first part has been traced.
Later(x) == IF x \in Roots THEN Chunk(x) ELSE Tail2(x)

\* The sentinel of a root is the place of its protector, with at most one chunk
\* of the root somewhere above it.
RootItems(m) ==
    \A r \in Roots :
        /\ m.sentinel[r] # 0 => /\ m.sentinel[r] \in 1..Len(m.work)
                                /\ m.work[m.sentinel[r]] = RootProt(r)
        /\ \A j \in 1..Len(m.work) :
              /\ m.work[j] = RootProt(r) => m.sentinel[r] = j
              /\ m.work[j] = Chunk(r) => m.sentinel[r] # 0 /\ m.sentinel[r] < j
              /\ \A k \in 1..Len(m.work) : m.work[j] = Chunk(r) /\ m.work[k] = Chunk(r) => j = k

\* Nothing on the mark stack was freed; stack memory is on it in one phase only.
AliveItems(m, k) ==
    /\ \A o \in Objects : Obj(o) \in Range(m.work) => o \in alive
    /\ \A r \in Roots : Chunk(r) \in Range(m.work) \/ RootProt(r) \in Range(m.work) => r \in rootAlive
    /\ \A S \in SUBSET Objects : StackMem(S) \in Range(m.work) => k /\ S \subseteq stack

\* What is queued is on one of the stacks b and m.work ...
Queue(m, b) == \A o \in Objects : m.bits[o] = "queued" => Obj(o) \in Range(m.work) \/ o \in Range(b)

\* ... and, until the sweep, what is on them is queued and there once.
Exact(m, b) ==
    /\ \A o \in Objects : Obj(o) \in Range(m.work) \/ o \in Range(b) => m.bits[o] = "queued"
    /\ \A o \in Objects : ~(Obj(o) \in Range(m.work) /\ o \in Range(b))
    /\ \A o \in Objects, i, j \in 1..Len(m.work) : m.work[i] = Obj(o) /\ m.work[j] = Obj(o) => i = j
    /\ \A i, j \in 1..Len(b) : b[i] = b[j] => i = j

\* The marker m and the barrier stack b, before the sweep (s) and while stack
\* memory may be on the mark stack (k).
Good(m, b, s, k) == m \in Markers /\ RootItems(m) /\ AliveItems(m, k) /\ Queue(m, b) /\ (s => Exact(m, b))

\* What a traced holder points to is not white, unless the mark stack overflowed, the
\* rest of the holder is on it, or the holder will be traced again (e).
Black(m, x) == x \in rootAlive \/ (x \in Objects /\ m.bits[x] = "marked")
Lost(m, p) == p # NULL /\ m.bits[p] = "white"
Tri(m, e) ==
    \A x \in Holders, i \in Parts :
        Black(m, x) /\ Lost(m, mem[x][i]) =>
            m.overflow \/ (i = 2 /\ Later(x) \in Range(m.work)) \/ <<x, i>> \in e

\* The same of the native stack, once it has been pushed.
StackTri(m) ==
    \A o \in stack : m.bits[o] = "white" =>
        m.overflow \/ \E S \in SUBSET Objects : StackMem(S) \in Range(m.work) /\ o \in S

\* The holders that will be traced again: roots before their second marking, and
\* what a recovery has still to see.
Recovering == phase \in {"recover", "recover2", "recover3"}
Index(x) == IF x \in Roots THEN x - NObjects ELSE NRoots + x
Pending(x) ==
    \/ x \in Roots /\ phase \in {"idle", "start", "mark", "drain", "recover"}
    \/ x \in Roots /\ phase = "roots" /\ scan <= Index(x)
    \/ Recovering /\ scan <= Index(x)
Excused == {h \in Holders \X Parts : Pending(h[1])}

\* From m to n the marker forgets nothing but the items d, and blackens only objects
\* without pointers.
Grows(m, n, d) ==
    /\ Range(m.work) \ d \subseteq Range(n.work)
    /\ m.overflow => n.overflow
    /\ \A o \in Objects : /\ m.bits[o] = "marked" => n.bits[o] = "marked"
                          /\ n.bits[o] = "white" => m.bits[o] = "white"
                          /\ n.bits[o] = "marked" => m.bits[o] = "marked" \/ o \in Leaf

HeapInv ==
    /\ alive \subseteq Objects /\ stack \subseteq alive /\ weak \subseteq alive /\ rootAlive \subseteq Roots
    /\ mem \in [Holders -> [Parts -> Objects \cup {NULL}]]
    /\ \A x \in Holders, i \in Parts :
          mem[x][i] # NULL => mem[x][i] \in alive /\ i \in SlotsOf(x) /\ x \in alive \cup rootAlive

ScanInv ==
    /\ barrier \in Seq(Objects) /\ Len(barrier) <= BarrierCap /\ Range(barrier) \subseteq alive
    /\ phase \in Phases /\ scan \in 0..(NRoots + NObjects + 1) /\ (Recovering => scan # 0)

PhaseInv ==
    /\ phase = "idle" => /\ \A o \in Objects : bits[o] = "white"
                         /\ work = <<>> /\ barrier = <<>> /\ ~overflow
    /\ phase \in {"roots", "drain2"} => barrier = <<>> \/ overflow
    /\ phase = "drain2" => StackTri(Marker)
    /\ collecting => barrier = <<>> /\ \A o \in stack : bits[o] = "marked"

IndInv ==
    /\ HeapInv /\ ScanInv /\ PhaseInv
    /\ Good(Marker, barrier, ~collecting, phase = "drain2")
    /\ Tri(Marker, Excused)
-----------------------------------------------------------------------------
\* Objects and roots are numbers apart from each other and from NULL, and only a
\* large holder has a second part.
LEMMA HolderFacts ==
  /\ Objects \cap Roots = {} /\ NULL \notin Objects /\ NULL \notin Roots
  /\ Objects \subseteq Nat /\ Roots \subseteq Nat /\ Parts = {1, 2}
  /\ NObjects \in Nat /\ NRoots \in Nat /\ MarkCap \in Nat \ {0} /\ BarrierCap \in Nat
  /\ Large \subseteq Objects /\ LargeRoots \subseteq Roots /\ Leaf \subseteq Objects
  /\ \A x \in Holders : /\ SlotsOf(x) \subseteq Parts
                        /\ x \in Leaf => SlotsOf(x) = {}
                        /\ 2 \in SlotsOf(x) => x \in Large \cup LargeRoots
  <1>1. Parts = {1, 2}  BY DEF Parts, C!Parts
  <1> QED  BY <1>1, GCMarkAssumption DEF Objects, Roots, NULL, SlotsOf, Holders

\* Work items of different kinds, or of different holders, differ.
LEMMA ItemFacts ==
  /\ \A x, y : /\ Obj(x) = Obj(y) => x = y
               /\ Tail2(x) = Tail2(y) => x = y
               /\ Chunk(x) = Chunk(y) => x = y
               /\ RootProt(x) = RootProt(y) => x = y
               /\ StackMem(x) = StackMem(y) => x = y
  /\ \A x, y : /\ Obj(x) # Tail2(y) /\ Obj(x) # Protector(y) /\ Obj(x) # Chunk(y) /\ Obj(x) # RootProt(y)
               /\ Obj(x) # StackMem(y) /\ Obj(x) # Dead
               /\ Tail2(x) # Protector(y) /\ Tail2(x) # Chunk(y) /\ Tail2(x) # RootProt(y)
               /\ Tail2(x) # StackMem(y) /\ Tail2(x) # Dead
               /\ Protector(x) # Chunk(y) /\ Protector(x) # RootProt(y) /\ Protector(x) # StackMem(y)
               /\ Protector(x) # Dead
               /\ Chunk(x) # RootProt(y) /\ Chunk(x) # StackMem(y) /\ Chunk(x) # Dead
               /\ RootProt(x) # StackMem(y) /\ RootProt(x) # Dead /\ StackMem(x) # Dead
  BY DEF Obj, Tail2, Protector, Chunk, RootProt, StackMem, Dead

\* The elements of a sequence.
LEMMA RangeFacts ==
  ASSUME NEW S, NEW s \in Seq(S)
  PROVE  /\ Len(s) \in Nat /\ DOMAIN s = 1..Len(s) /\ Range(s) \subseteq S
         /\ \A j \in 1..Len(s) : s[j] \in S /\ s[j] \in Range(s)
         /\ \A e \in Range(s) : \E j \in 1..Len(s) : s[j] = e
         /\ Range(s) = {} <=> s = <<>>
         /\ Len(s) = 0 <=> s = <<>>
  <1>1. Len(s) \in Nat /\ DOMAIN s = 1..Len(s) /\ s \in [1..Len(s) -> S]  BY LenProperties
  <1>2. Len(s) = 0 <=> s = <<>>  BY EmptySeq
  <1>3. Range(s) = {s[j] : j \in 1..Len(s)}  BY <1>1 DEF Range
  <1>4. Range(s) = {} <=> Len(s) = 0
    <2>1. Len(s) # 0 => 1 \in 1..Len(s)  BY <1>1
    <2> QED  BY <1>1, <1>3, <2>1
  <1> QED  BY <1>1, <1>2, <1>3, <1>4

\* A sequence with one more element.
LEMMA AppendFacts ==
  ASSUME NEW S, NEW s \in Seq(S), NEW e \in S
  PROVE  /\ Append(s, e) \in Seq(S) /\ Len(Append(s, e)) = Len(s) + 1
         /\ Range(Append(s, e)) = Range(s) \cup {e}
         /\ \A j \in 1..(Len(s) + 1) : Append(s, e)[j] = IF j = Len(s) + 1 THEN e ELSE s[j]
  <1>1. Len(s) \in Nat /\ DOMAIN s = 1..Len(s)  BY RangeFacts
  <1>2. /\ Append(s, e) \in Seq(S) /\ Len(Append(s, e)) = Len(s) + 1
        /\ \A j \in 1..Len(s) : Append(s, e)[j] = s[j]
        /\ Append(s, e)[Len(s) + 1] = e
    BY AppendProperties
  <1>3. DOMAIN Append(s, e) = 1..(Len(s) + 1)  BY <1>2, RangeFacts
  <1>4. \A j \in 1..(Len(s) + 1) : Append(s, e)[j] = IF j = Len(s) + 1 THEN e ELSE s[j]
    BY <1>1, <1>2
  <1>5. Range(Append(s, e)) = Range(s) \cup {e}
    <2>1. \A j \in 1..Len(s) : j \in 1..(Len(s) + 1)  BY <1>1
    <2>2. Len(s) + 1 \in 1..(Len(s) + 1)  BY <1>1
    <2>3. Range(Append(s, e)) \subseteq Range(s) \cup {e}
      <3> SUFFICES ASSUME NEW j \in 1..(Len(s) + 1) PROVE Append(s, e)[j] \in Range(s) \cup {e}
        BY <1>3 DEF Range
      <3>1. j = Len(s) + 1 \/ j \in 1..Len(s)  BY <1>1
      <3> QED  BY <1>1, <1>2, <3>1 DEF Range
    <2>4. Range(s) \cup {e} \subseteq Range(Append(s, e))
      BY <1>1, <1>2, <1>3, <2>1, <2>2 DEF Range
    <2> QED  BY <2>3, <2>4
  <1> QED  BY <1>2, <1>4, <1>5

\* A sequence without its last element.
LEMMA FrontFacts ==
  ASSUME NEW S, NEW s \in Seq(S), s # <<>>
  PROVE  /\ Front(s) \in Seq(S) /\ Len(Front(s)) = Len(s) - 1 /\ Len(s) \in Nat \ {0}
         /\ \A j \in 1..(Len(s) - 1) : Front(s)[j] = s[j]
         /\ Last(s) = s[Len(s)] /\ Last(s) \in S
         /\ Range(s) = Range(Front(s)) \cup {Last(s)}
  <1>1. Len(s) \in Nat \ {0} /\ DOMAIN s = 1..Len(s)  BY EmptySeq, LenProperties
  <1>2. \A i \in 1..(Len(s) - 1) : s[i] \in S
    <2>1. \A i \in 1..(Len(s) - 1) : i \in 1..Len(s)  BY <1>1
    <2> QED  BY <2>1, ElementOfSeq
  <1>3. Len(s) - 1 \in Int  BY <1>1
  <1>4. /\ SubSeq(s, 1, Len(s) - 1) \in Seq(S)
        /\ Len(SubSeq(s, 1, Len(s) - 1)) = IF 1 <= Len(s) - 1 THEN (Len(s) - 1) - 1 + 1 ELSE 0
        /\ \A i \in 1..((Len(s) - 1) - 1 + 1) : SubSeq(s, 1, Len(s) - 1)[i] = s[1 + i - 1]
    BY <1>2, <1>3, SubSeqProperties
  <1>5. /\ (IF 1 <= Len(s) - 1 THEN (Len(s) - 1) - 1 + 1 ELSE 0) = Len(s) - 1
        /\ (Len(s) - 1) - 1 + 1 = Len(s) - 1
    BY <1>1
  <1>6. \A i \in 1..(Len(s) - 1) : 1 + i - 1 = i  BY <1>1
  <1>7. Len(s) \in 1..Len(s)  BY <1>1
  <1>8. s[Len(s)] \in S  BY <1>7, ElementOfSeq
  <1>9. /\ Front(s) \in Seq(S) /\ Len(Front(s)) = Len(s) - 1
        /\ \A j \in 1..(Len(s) - 1) : Front(s)[j] = s[j]
        /\ Last(s) = s[Len(s)]
    BY <1>4, <1>5, <1>6 DEF Front, Last
  <1>10. DOMAIN Front(s) = 1..(Len(s) - 1)  BY <1>9, RangeFacts
  <1>11. Range(s) = Range(Front(s)) \cup {Last(s)}
    <2>0. Len(s) \in Nat  BY <1>1
    <2>1. \A j \in 1..Len(s) : j \in 1..(Len(s) - 1) \/ j = Len(s)  BY <2>0
    <2>2. \A j \in 1..(Len(s) - 1) : j \in 1..Len(s)  BY <2>0
    <2>3. Range(s) \subseteq Range(Front(s)) \cup {Last(s)}
      BY <1>1, <1>9, <1>10, <2>1 DEF Range
    <2>4. Range(Front(s)) \cup {Last(s)} \subseteq Range(s)
      BY <1>1, <1>7, <1>9, <1>10, <2>2 DEF Range
    <2> QED  BY <2>3, <2>4
  <1> QED  BY <1>1, <1>8, <1>9, <1>11

\* The parts of a state of the marker.
LEMMA MarkerParts ==
  ASSUME NEW m \in Markers
  PROVE  /\ m.bits \in [Objects -> Colours] /\ m.work \in Seq(Items) /\ m.overflow \in BOOLEAN
         /\ m.protected \in SUBSET Large /\ m.sentinel \in [Roots -> 0..MarkCap]
         /\ Len(m.work) \in Nat /\ Len(m.work) <= MarkCap
         /\ m = [bits |-> m.bits, work |-> m.work, overflow |-> m.overflow,
                 protected |-> m.protected, sentinel |-> m.sentinel]
  <1>1. m \in [bits : [Objects -> Colours], work : Seq(Items), overflow : BOOLEAN,
               protected : SUBSET Large, sentinel : [Roots -> 0..MarkCap]] /\ Len(m.work) <= MarkCap
    BY DEF Markers
  <1> QED  BY <1>1, RangeFacts

\* A state the marker takes over is its state.
LEMMA BecomesIs ==
  ASSUME NEW n \in Markers, Becomes(n)
  PROVE  Marker' = n
  <1>1. n = [bits |-> n.bits, work |-> n.work, overflow |-> n.overflow,
             protected |-> n.protected, sentinel |-> n.sentinel]
    BY MarkerParts
  <1>2. Marker' = [bits |-> bits', work |-> work', overflow |-> overflow',
                   protected |-> protected', sentinel |-> sentinel']
    BY DEF Marker
  <1>3. Marker' = [bits |-> n.bits, work |-> n.work, overflow |-> n.overflow,
                   protected |-> n.protected, sentinel |-> n.sentinel]
    BY <1>2 DEF Becomes
  <1> QED  BY <1>1, <1>3
-----------------------------------------------------------------------------
(***************************************************************************)
(* What growing keeps.                                                     *)
(***************************************************************************)
LEMMA GrowsRefl ==
  ASSUME NEW m, NEW n, n.bits = m.bits, n.work = m.work, m.overflow => n.overflow
  PROVE  Grows(m, n, {})
  BY DEF Grows

LEMMA GrowsTrans ==
  ASSUME NEW m, NEW n, NEW q, NEW d, Grows(m, n, d), Grows(n, q, {})
  PROVE  Grows(m, q, d)
  BY DEF Grows

\* No traced pointer is lost but those of the forgotten items.
LEMMA GrowsTri ==
  ASSUME HeapInv, NEW m, NEW n, NEW d, NEW e, Tri(m, e), Grows(m, n, d),
         \A x \in Holders : Later(x) \in d => <<x, 2>> \in e
  PROVE  Tri(n, e)
  <1> SUFFICES ASSUME NEW x \in Holders, NEW i \in Parts, Black(n, x), Lost(n, mem[x][i])
               PROVE  n.overflow \/ (i = 2 /\ Later(x) \in Range(n.work)) \/ <<x, i>> \in e
    BY DEF Tri
  <1>1. mem[x][i] \in Objects /\ x \notin Leaf
    <2>1. mem[x][i] # NULL  BY DEF Lost
    <2>2. mem[x][i] \in alive /\ i \in SlotsOf(x) /\ alive \subseteq Objects
      BY <2>1 DEF HeapInv
    <2> QED  BY <2>2, HolderFacts
  <1>2. Black(m, x)  BY <1>1 DEF Black, Grows
  <1>3. Lost(m, mem[x][i])  BY <1>1 DEF Lost, Grows
  <1>4. m.overflow \/ (i = 2 /\ Later(x) \in Range(m.work)) \/ <<x, i>> \in e
    BY <1>2, <1>3 DEF Tri
  <1>5. CASE m.overflow  BY <1>5 DEF Grows
  <1>6. CASE i = 2 /\ Later(x) \in Range(m.work)  BY <1>6 DEF Grows
  <1> QED  BY <1>4, <1>5, <1>6

LEMMA GrowsStack ==
  ASSUME NEW m, NEW n, NEW d, StackTri(m), Grows(m, n, d), stack \subseteq Objects,
         \A S \in SUBSET Objects : StackMem(S) \notin d
  PROVE  StackTri(n)
  <1> SUFFICES ASSUME NEW o \in stack, n.bits[o] = "white"
               PROVE  n.overflow \/ \E S \in SUBSET Objects : StackMem(S) \in Range(n.work) /\ o \in S
    BY DEF StackTri
  <1>1. m.bits[o] = "white"  BY DEF Grows
  <1>2. m.overflow \/ \E S \in SUBSET Objects : StackMem(S) \in Range(m.work) /\ o \in S
    BY <1>1 DEF StackTri
  <1> QED  BY <1>2 DEF Grows
-----------------------------------------------------------------------------
(***************************************************************************)
(* Pushing and tracing.                                                    *)
(***************************************************************************)
\* An item on top of the stack that is none of a root leaves those of the roots.
LEMMA RootItemsAppend ==
  ASSUME NEW m \in Markers, NEW n \in Markers, RootItems(m), NEW t \in Items,
         \A r \in Roots : t # Chunk(r) /\ t # RootProt(r),
         n.sentinel = m.sentinel, n.work = Append(m.work, t)
  PROVE  RootItems(n)
  <1>1. m.work \in Seq(Items) /\ Len(m.work) \in Nat  BY MarkerParts
  <1>2. /\ Len(n.work) = Len(m.work) + 1
        /\ \A j \in 1..(Len(m.work) + 1) : n.work[j] = IF j = Len(m.work) + 1 THEN t ELSE m.work[j]
    BY <1>1, AppendFacts
  <1>3. \A j \in 1..Len(n.work) : j \in 1..Len(m.work) \/ j = Len(m.work) + 1  BY <1>1, <1>2
  <1>4. \A j \in 1..Len(m.work) : j \in 1..Len(n.work) /\ j # Len(m.work) + 1  BY <1>1, <1>2
  <1>5. \A j \in 1..Len(m.work) : n.work[j] = m.work[j]  BY <1>2, <1>4
  <1>6. n.work[Len(m.work) + 1] = t  BY <1>1, <1>2
  <1> QED  BY <1>3, <1>4, <1>5, <1>6 DEF RootItems

LEMMA RootItemsSame ==
  ASSUME NEW m, NEW n, RootItems(m), n.sentinel = m.sentinel, n.work = m.work
  PROVE  RootItems(n)
  BY DEF RootItems

\* A push, with or without room.
LEMMA PushFacts ==
  ASSUME NEW m \in Markers, NEW t \in Items
  PROVE  LET n == Push(m, t)
         IN  /\ n \in Markers /\ Grows(m, n, {})
             /\ n.bits = m.bits /\ n.sentinel = m.sentinel /\ n.protected = m.protected
             /\ HasRoom(m) => /\ n.work = Append(m.work, t) /\ n.overflow = m.overflow
                              /\ Range(n.work) = Range(m.work) \cup {t}
             /\ ~HasRoom(m) => n.work = m.work /\ n.overflow
  <1> DEFINE n == Push(m, t)
  <1>1. /\ m.bits \in [Objects -> Colours] /\ m.work \in Seq(Items) /\ m.overflow \in BOOLEAN
        /\ m.protected \in SUBSET Large /\ m.sentinel \in [Roots -> 0..MarkCap]
        /\ Len(m.work) \in Nat /\ Len(m.work) <= MarkCap /\ MarkCap \in Nat
    BY MarkerParts, HolderFacts
  <1>2. CASE HasRoom(m)
    <2>1. n = [m EXCEPT !.work = Append(@, t)]  BY <1>2 DEF Push
    <2>2. /\ Append(m.work, t) \in Seq(Items) /\ Len(Append(m.work, t)) = Len(m.work) + 1
          /\ Range(Append(m.work, t)) = Range(m.work) \cup {t}
      BY <1>1, AppendFacts
    <2>3. Len(m.work) + 1 <= MarkCap  BY <1>1, <1>2 DEF HasRoom
    <2>4. n \in Markers  BY <2>1, <2>2, <2>3 DEF Markers
    <2>5. /\ n.bits = m.bits /\ n.sentinel = m.sentinel /\ n.protected = m.protected
          /\ n.work = Append(m.work, t) /\ n.overflow = m.overflow
      BY <2>1 DEF Markers
    <2>6. Grows(m, n, {})  BY <2>2, <2>5 DEF Grows
    <2> QED  BY <1>2, <2>2, <2>4, <2>5, <2>6
  <1>3. CASE ~HasRoom(m)
    <2>1. n = [m EXCEPT !.overflow = TRUE]  BY <1>3 DEF Push
    <2>2. n \in Markers  BY <2>1 DEF Markers
    <2>3. /\ n.bits = m.bits /\ n.sentinel = m.sentinel /\ n.protected = m.protected
          /\ n.work = m.work /\ n.overflow
      BY <2>1 DEF Markers
    <2>4. Grows(m, n, {})  BY <2>3 DEF Grows
    <2> QED  BY <1>3, <2>2, <2>3, <2>4
  <1> QED  BY <1>2, <1>3

\* An item that is no object and none of a root may be pushed.
LEMMA PushGood ==
  ASSUME NEW m, NEW b, NEW s, NEW k, Good(m, b, s, k), NEW t \in Items,
         \A x : t # Obj(x) /\ t # Chunk(x) /\ t # RootProt(x),
         \A S \in SUBSET Objects : t = StackMem(S) => k /\ S \subseteq stack
  PROVE  /\ Good(Push(m, t), b, s, k) /\ Grows(m, Push(m, t), {})
         /\ Push(m, t).overflow \/ t \in Range(Push(m, t).work)
  <1> DEFINE n == Push(m, t)
  <1>1. m \in Markers /\ n \in Markers  BY PushFacts DEF Good
  <1>2. /\ Grows(m, n, {}) /\ n.bits = m.bits /\ n.sentinel = m.sentinel
        /\ HasRoom(m) => /\ n.work = Append(m.work, t) /\ Range(n.work) = Range(m.work) \cup {t}
        /\ ~HasRoom(m) => n.work = m.work /\ n.overflow
    BY <1>1, PushFacts
  <1> HIDE DEF n
  <1>3. RootItems(n)
    <2>1. CASE HasRoom(m)  BY <1>1, <1>2, <2>1, RootItemsAppend DEF Good
    <2>2. CASE ~HasRoom(m)  BY <1>2, <2>2, RootItemsSame DEF Good
    <2> QED  BY <2>1, <2>2
  <1>4. \A x \in Range(n.work) : x \in Range(m.work) \/ x = t  BY <1>2
  <1>5. AliveItems(n, k)  BY <1>4 DEF Good, AliveItems
  <1>6. Queue(n, b)  BY <1>2 DEF Good, Queue, Grows
  <1>7. ASSUME s PROVE Exact(n, b)
    <2>1. Exact(m, b)  BY <1>7 DEF Good
    <2>2. \A o : Obj(o) \in Range(n.work) => Obj(o) \in Range(m.work)  BY <1>4
    <2>3. ASSUME NEW o \in Objects, NEW i \in 1..Len(n.work), NEW j \in 1..Len(n.work),
                 n.work[i] = Obj(o), n.work[j] = Obj(o)
          PROVE  i = j
      <3>1. CASE ~HasRoom(m)  BY <1>2, <2>1, <2>3, <3>1 DEF Exact
      <3>2. CASE HasRoom(m)
        <4>1. m.work \in Seq(Items) /\ Len(m.work) \in Nat  BY <1>1, MarkerParts
        <4>2. /\ Len(n.work) = Len(m.work) + 1
              /\ \A l \in 1..(Len(m.work) + 1) : n.work[l] = IF l = Len(m.work) + 1 THEN t ELSE m.work[l]
          <5>1. n.work = Append(m.work, t)  BY <1>2, <3>2
          <5>2. /\ Len(Append(m.work, t)) = Len(m.work) + 1
                /\ \A l \in 1..(Len(m.work) + 1) :
                      Append(m.work, t)[l] = IF l = Len(m.work) + 1 THEN t ELSE m.work[l]
            BY <4>1, AppendFacts
          <5> QED  BY <5>1, <5>2
        <4>3. i # Len(m.work) + 1 /\ j # Len(m.work) + 1  BY <2>3, <4>2
        <4>4. i \in 1..Len(m.work) /\ j \in 1..Len(m.work)  BY <4>1, <4>2, <4>3
        <4>5. m.work[i] = Obj(o) /\ m.work[j] = Obj(o)  BY <2>3, <4>2, <4>3
        <4> QED  BY <2>1, <4>4, <4>5 DEF Exact
      <3> QED  BY <3>1, <3>2
    <2> QED  BY <1>2, <2>1, <2>2, <2>3 DEF Exact
  <1>8. Good(n, b, s, k)  BY <1>1, <1>3, <1>5, <1>6, <1>7 DEF Good
  <1> QED  BY <1>2, <1>8 DEF n
-----------------------------------------------------------------------------
\* A change of colour.
LEMMA ColourFacts ==
  ASSUME NEW m \in Markers, NEW p \in Objects, NEW c \in Colours
  PROVE  LET n == [m EXCEPT !.bits[p] = c]
         IN  /\ n \in Markers /\ n.bits = [m.bits EXCEPT ![p] = c] /\ n.work = m.work
             /\ n.overflow = m.overflow /\ n.sentinel = m.sentinel /\ n.protected = m.protected
  <1>1. [m.bits EXCEPT ![p] = c] \in [Objects -> Colours]
    <2>1. m.bits \in [Objects -> Colours]  BY MarkerParts
    <2> QED  BY <2>1
  <1> QED  BY <1>1 DEF Markers

\* An object that is on no stack may be queued on the mark stack ...
LEMMA QueueGood ==
  ASSUME NEW m, NEW n, NEW b, NEW s, NEW k, Good(m, b, s, k), n \in Markers, NEW p \in Objects, p \in alive,
         s => m.bits[p] # "queued",
         n.bits = [m.bits EXCEPT ![p] = "queued"], n.sentinel = m.sentinel,
         n.work = Append(m.work, Obj(p))
  PROVE  Good(n, b, s, k)
  <1>1. m \in Markers /\ m.work \in Seq(Items) /\ Len(m.work) \in Nat /\ m.bits \in [Objects -> Colours]
    BY MarkerParts DEF Good
  <1>2. Obj(p) \in Items  BY DEF Items
  <1>3. /\ Len(n.work) = Len(m.work) + 1 /\ Range(n.work) = Range(m.work) \cup {Obj(p)}
        /\ \A j \in 1..(Len(m.work) + 1) : n.work[j] = IF j = Len(m.work) + 1 THEN Obj(p) ELSE m.work[j]
    BY <1>1, <1>2, AppendFacts
  <1>4. RootItems(n)  BY <1>1, <1>2, ItemFacts, RootItemsAppend DEF Good
  <1>5. AliveItems(n, k)
    <2>1. \A x \in Range(n.work) : x \in Range(m.work) \/ x = Obj(p)  BY <1>3
    <2> QED  BY <2>1, ItemFacts DEF Good, AliveItems
  <1>6. Queue(n, b)  BY <1>1, <1>3 DEF Good, Queue
  <1>7. ASSUME s PROVE Exact(n, b)
    <2>1. Exact(m, b) /\ m.bits[p] # "queued"  BY <1>7 DEF Good
    <2>2. Obj(p) \notin Range(m.work) /\ p \notin Range(b)  BY <2>1 DEF Exact
    <2>3. \A o : Obj(o) \in Range(n.work) => Obj(o) \in Range(m.work) \/ o = p  BY <1>3, ItemFacts
    <2>4. ASSUME NEW o \in Objects, Obj(o) \in Range(n.work) \/ o \in Range(b)
          PROVE  n.bits[o] = "queued" /\ ~(Obj(o) \in Range(n.work) /\ o \in Range(b))
      <3>1. CASE o = p  BY <1>1, <2>2, <3>1
      <3>2. CASE o # p
        <4>1. n.bits[o] = m.bits[o]  BY <1>1, <3>2
        <4>2. Obj(o) \in Range(n.work) => Obj(o) \in Range(m.work)  BY <2>3, <3>2
        <4> QED  BY <2>1, <2>4, <4>1, <4>2 DEF Exact
      <3> QED  BY <3>1, <3>2
    <2>5. ASSUME NEW o \in Objects, NEW i \in 1..Len(n.work), NEW j \in 1..Len(n.work),
                 n.work[i] = Obj(o), n.work[j] = Obj(o)
          PROVE  i = j
      <3>1. \A l \in 1..Len(n.work) : l \in 1..Len(m.work) \/ l = Len(m.work) + 1  BY <1>1, <1>3
      <3>2. \A l \in 1..Len(n.work) : l # Len(m.work) + 1 => n.work[l] = m.work[l]  BY <1>3
      <3>3. \A l \in 1..Len(m.work) : m.work[l] # Obj(p)  BY <1>1, <2>2, RangeFacts
      <3>4. n.work[Len(m.work) + 1] = Obj(p)  BY <1>1, <1>3
      <3>5. CASE o = p
        <4>1. i = Len(m.work) + 1  BY <2>5, <3>1, <3>2, <3>3, <3>5
        <4>2. j = Len(m.work) + 1  BY <2>5, <3>1, <3>2, <3>3, <3>5
        <4> QED  BY <4>1, <4>2
      <3>6. CASE o # p
        <4>1. Obj(o) # Obj(p)  BY <3>6, ItemFacts
        <4>2. i # Len(m.work) + 1 /\ j # Len(m.work) + 1  BY <2>5, <3>4, <4>1
        <4>3. i \in 1..Len(m.work) /\ j \in 1..Len(m.work) /\ m.work[i] = Obj(o) /\ m.work[j] = Obj(o)
          BY <2>5, <3>1, <3>2, <4>2
        <4> QED  BY <2>1, <4>3 DEF Exact
      <3> QED  BY <3>5, <3>6
    <2> QED  BY <2>1, <2>4, <2>5 DEF Exact
  <1> QED  BY <1>4, <1>5, <1>6, <1>7 DEF Good

\* ... or take another colour.
LEMMA ColourGood ==
  ASSUME NEW m, NEW n, NEW b, NEW s, NEW k, Good(m, b, s, k), n \in Markers, NEW p \in Objects,
         NEW c \in {"white", "marked"}, s => m.bits[p] # "queued",
         n.bits = [m.bits EXCEPT ![p] = c], n.sentinel = m.sentinel, n.work = m.work
  PROVE  Good(n, b, s, k)
  <1>1. m \in Markers /\ m.bits \in [Objects -> Colours]  BY MarkerParts DEF Good
  <1>2. RootItems(n)  BY RootItemsSame DEF Good
  <1>3. AliveItems(n, k)  BY DEF Good, AliveItems
  <1>4. Queue(n, b)  BY <1>1 DEF Good, Queue
  <1>5. ASSUME s PROVE Exact(n, b)
    <2>1. Exact(m, b) /\ m.bits[p] # "queued"  BY <1>5 DEF Good
    <2>2. Obj(p) \notin Range(m.work) /\ p \notin Range(b)  BY <2>1 DEF Exact
    <2> QED  BY <1>1, <2>1, <2>2 DEF Exact
  <1> QED  BY <1>2, <1>3, <1>4, <1>5 DEF Good

\* Push_GCObject of an object whose queued bit has just been set: without room it ends
\* up white.
LEMMA PushObjectFacts ==
  ASSUME NEW m, NEW b, NEW s, NEW k, Good(m, b, s, k), NEW p \in Objects, p \in alive, s => m.bits[p] # "queued"
  PROVE  LET n == Push_GCObject([m EXCEPT !.bits[p] = "queued"], p)
         IN  /\ Good(n, b, s, k) /\ Range(m.work) \subseteq Range(n.work) /\ (m.overflow => n.overflow)
             /\ n.bits = [m.bits EXCEPT ![p] = n.bits[p]]
             /\ n.bits[p] \in {"white", "queued"} /\ (n.bits[p] = "white" => n.overflow)
  <1> DEFINE q == [m EXCEPT !.bits[p] = "queued"]
             n == Push_GCObject(q, p)
  <1>1. /\ m \in Markers /\ m.bits \in [Objects -> Colours] /\ m.work \in Seq(Items) /\ m.overflow \in BOOLEAN
        /\ m.protected \in SUBSET Large /\ m.sentinel \in [Roots -> 0..MarkCap]
        /\ Len(m.work) \in Nat /\ Len(m.work) <= MarkCap /\ MarkCap \in Nat
    BY MarkerParts, HolderFacts DEF Good
  <1>2. q \in Markers  BY <1>1 DEF Markers, Colours
  <1>3. /\ q.bits = [m.bits EXCEPT ![p] = "queued"] /\ q.work = m.work /\ q.overflow = m.overflow
        /\ q.sentinel = m.sentinel /\ q.protected = m.protected
    BY <1>1 DEF Markers
  <1>4. HasRoom(q) <=> HasRoom(m)  BY <1>3 DEF HasRoom
  <1> HIDE DEF q
  <1>5. CASE HasRoom(m)
    <2>1. n = [q EXCEPT !.work = Append(@, Obj(p))]  BY <1>4, <1>5 DEF Push_GCObject
    <2>2. Obj(p) \in Items  BY DEF Items
    <2>3. /\ Append(m.work, Obj(p)) \in Seq(Items) /\ Len(Append(m.work, Obj(p))) = Len(m.work) + 1
          /\ Range(Append(m.work, Obj(p))) = Range(m.work) \cup {Obj(p)}
      BY <1>1, <2>2, AppendFacts
    <2>4. Len(m.work) + 1 <= MarkCap  BY <1>1, <1>5 DEF HasRoom
    <2>5. n \in Markers  BY <1>2, <1>3, <2>1, <2>3, <2>4 DEF Markers
    <2>6. /\ n.bits = [m.bits EXCEPT ![p] = "queued"] /\ n.sentinel = m.sentinel
          /\ n.work = Append(m.work, Obj(p)) /\ n.overflow = m.overflow
      BY <1>2, <1>3, <2>1 DEF Markers
    <2> HIDE DEF n
    <2>7. Good(n, b, s, k)  BY <2>5, <2>6, QueueGood
    <2>8. n.bits[p] = "queued"  BY <1>1, <2>6
    <2> QED  BY <2>3, <2>6, <2>7, <2>8 DEF n, q
  <1>6. CASE ~HasRoom(m)
    <2>1. n = [q EXCEPT !.bits[p] = "white", !.overflow = TRUE]  BY <1>4, <1>6 DEF Push_GCObject
    <2>2. [q.bits EXCEPT ![p] = "white"] \in [Objects -> Colours]  BY <1>1, <1>3 DEF Colours
    <2>3. /\ n.bits = [q.bits EXCEPT ![p] = "white"] /\ n.sentinel = m.sentinel
          /\ n.work = m.work /\ n.overflow /\ n \in Markers
      BY <1>2, <1>3, <2>1, <2>2 DEF Markers
    <2>4. n.bits = [m.bits EXCEPT ![p] = "white"]  BY <1>1, <1>3, <2>3
    <2> HIDE DEF n
    <2>5. Good(n, b, s, k)  BY <2>3, <2>4, ColourGood
    <2>6. n.bits[p] = "white"  BY <1>1, <2>4
    <2> QED  BY <2>3, <2>4, <2>5, <2>6 DEF n, q
  <1> QED  BY <1>5, <1>6

\* A traced pointer leads to an object that is not white, or was dropped.
LEMMA TraceFacts ==
  ASSUME NEW m, NEW b, NEW s, NEW k, Good(m, b, s, k), NEW p, p # NULL => p \in alive, alive \subseteq Objects
  PROVE  LET n == TracePointer(m, p)
         IN  Good(n, b, s, k) /\ Grows(m, n, {}) /\ (Lost(n, p) => n.overflow)
  <1> DEFINE n == TracePointer(m, p)
  <1>1. m \in Markers /\ m.bits \in [Objects -> Colours] /\ m.work \in Seq(Items)  BY MarkerParts DEF Good
  <1>2. CASE p = NULL \/ m.bits[p] # "white"
    <2>1. n = m  BY <1>2 DEF TracePointer
    <2>2. Grows(m, m, {})  BY GrowsRefl
    <2> QED  BY <1>2, <2>1, <2>2 DEF Lost
  <1>3. CASE ~(p = NULL \/ m.bits[p] # "white") /\ p \in Leaf
    <2>1. n = [m EXCEPT !.bits[p] = "marked"] /\ p \in Objects /\ m.bits[p] = "white"  BY <1>3 DEF TracePointer
    <2>2. "marked" \in Colours  BY DEF Colours
    <2>3. /\ n.bits = [m.bits EXCEPT ![p] = "marked"] /\ n.sentinel = m.sentinel
          /\ n.work = m.work /\ n.overflow = m.overflow /\ n \in Markers
      BY <1>1, <2>1, <2>2, ColourFacts
    <2> HIDE DEF n
    <2>4. Good(n, b, s, k)  BY <2>1, <2>3, ColourGood
    <2>5. Grows(m, n, {})  BY <1>1, <1>3, <2>1, <2>3 DEF Grows
    <2>6. n.bits[p] = "marked"  BY <1>1, <2>1, <2>3
    <2> QED  BY <2>4, <2>5, <2>6 DEF Lost, n
  <1>4. CASE ~(p = NULL \/ m.bits[p] # "white") /\ p \notin Leaf
    <2>1. n = Push_GCObject([m EXCEPT !.bits[p] = "queued"], p) /\ p \in Objects /\ p \in alive /\ m.bits[p] = "white"
      BY <1>4 DEF TracePointer
    <2>2. /\ Good(n, b, s, k) /\ Range(m.work) \subseteq Range(n.work) /\ (m.overflow => n.overflow)
          /\ n.bits = [m.bits EXCEPT ![p] = n.bits[p]]
          /\ n.bits[p] \in {"white", "queued"} /\ (n.bits[p] = "white" => n.overflow)
      BY <2>1, PushObjectFacts
    <2> HIDE DEF n
    <2>3. \A o \in Objects : o # p => n.bits[o] = m.bits[o]  BY <1>1, <2>2
    <2>4. Grows(m, n, {})  BY <2>1, <2>2, <2>3 DEF Grows
    <2> QED  BY <2>2, <2>4 DEF Lost, n
  <1> QED  BY <1>2, <1>3, <1>4

\* An object that is traced: its first part at once, its second part, if it has one, later.
LEMMA MarkItemFacts ==
  ASSUME HeapInv, NEW m, NEW b, NEW s, NEW k, NEW o \in Objects,
         Good([m EXCEPT !.bits[o] = "marked"], b, s, k)
  PROVE  LET n == MarkItem_GCObject(m, o)
         IN  /\ Good(n, b, s, k) /\ Grows([m EXCEPT !.bits[o] = "marked"], n, {})
             /\ \A i \in Parts : Lost(n, mem[o][i]) => n.overflow \/ (i = 2 /\ Tail2(o) \in Range(n.work))
  <1> DEFINE m1 == [m EXCEPT !.bits[o] = "marked"]
             h == TracePointer(m1, mem[o][1])
             p == [h EXCEPT !.protected = @ \cup {o}]
             q == Push(p, Protector(o))
             t == Push(q, Tail2(o))
             n == MarkItem_GCObject(m, o)
  <1>1. \A i \in Parts : mem[o][i] # NULL => mem[o][i] \in alive /\ i \in SlotsOf(o)
    BY DEF HeapInv, Holders
  <1>2. alive \subseteq Objects  BY DEF HeapInv
  <1>3. 1 \in Parts /\ \A i \in Parts : i = 1 \/ i = 2  BY HolderFacts
  <1> HIDE DEF m1
  <1>4. Good(h, b, s, k) /\ Grows(m1, h, {}) /\ (Lost(h, mem[o][1]) => h.overflow)
    <2>1. Good(m1, b, s, k)  BY DEF m1
    <2>2. mem[o][1] # NULL => mem[o][1] \in alive  BY <1>1, <1>3
    <2> QED  BY <1>2, <2>1, <2>2, TraceFacts
  <1> HIDE DEF h
  <1>5. CASE o \notin Large
    <2>1. n = h  BY <1>5 DEF MarkItem_GCObject, h, m1
    <2>2. 2 \notin SlotsOf(o)  BY <1>5, HolderFacts DEF Holders
    <2>3. \A i \in Parts : Lost(h, mem[o][i]) => h.overflow
      <3> SUFFICES ASSUME NEW i \in Parts, Lost(h, mem[o][i]) PROVE h.overflow  OBVIOUS
      <3>1. i # 2  BY <1>1, <2>2 DEF Lost
      <3> QED  BY <1>3, <1>4, <3>1
    <2> QED  BY <1>4, <2>1, <2>3 DEF m1
  <1>6. CASE o \in Large
    <2>1. n = t  BY <1>6 DEF MarkItem_GCObject, SplitExactGCObject, h, m1
    <2>2. h \in Markers  BY <1>4 DEF Good
    <2>3. p \in Markers
      <3>1. h.protected \cup {o} \in SUBSET Large  BY <1>6, <2>2, MarkerParts
      <3> QED  BY <2>2, <3>1 DEF Markers
    <2>4. p.bits = h.bits /\ p.work = h.work /\ p.overflow = h.overflow /\ p.sentinel = h.sentinel
      BY <2>2 DEF Markers
    <2> HIDE DEF p
    <2>5. Good(p, b, s, k)
      <3>1. RootItems(p)  BY <1>4, <2>4, RootItemsSame DEF Good
      <3>2. AliveItems(p, k) /\ Queue(p, b) /\ (s => Exact(p, b))
        BY <1>4, <2>4 DEF Good, AliveItems, Queue, Exact
      <3> QED  BY <2>3, <3>1, <3>2 DEF Good
    <2>6. Protector(o) \in Items /\ Tail2(o) \in Items  BY <1>6 DEF Items
    <2>7. Good(q, b, s, k) /\ Grows(p, q, {})  BY <2>5, <2>6, ItemFacts, PushGood
    <2> HIDE DEF q
    <2>8. Good(t, b, s, k) /\ Grows(q, t, {}) /\ (t.overflow \/ Tail2(o) \in Range(t.work))
      BY <2>6, <2>7, ItemFacts, PushGood
    <2> HIDE DEF t
    <2>9. Grows(h, p, {})  BY <2>4, GrowsRefl
    <2>10. Grows(h, t, {}) /\ Grows(m1, t, {})  BY <1>4, <2>7, <2>8, <2>9, GrowsTrans
    <2>11. \A i \in Parts : Lost(t, mem[o][i]) => t.overflow \/ (i = 2 /\ Tail2(o) \in Range(t.work))
      <3>1. Lost(t, mem[o][1]) => t.overflow
        <4>1. mem[o][1] # NULL => mem[o][1] \in Objects  BY <1>1, <1>2, <1>3
        <4> QED  BY <1>4, <2>10, <4>1 DEF Grows, Lost
      <3> QED  BY <1>3, <2>8, <3>1
    <2> QED  BY <2>1, <2>8, <2>10, <2>11 DEF m1
  <1> QED  BY <1>5, <1>6
-----------------------------------------------------------------------------
(***************************************************************************)
(* The items of a root.                                                    *)
(***************************************************************************)
\* SetMarkStackSentinelPointer kills the old protector of the root and the chunk above it.
LEMMA SentinelFacts ==
  ASSUME NEW m \in Markers, NEW r \in Roots, NEW c \in 0..MarkCap,
         m.sentinel[r] # 0 => m.sentinel[r] \in 1..Len(m.work),
         \A j \in 1..Len(m.work) : m.work[j] = Chunk(r) => m.sentinel[r] # 0 /\ m.sentinel[r] < j,
         \A j, k \in 1..Len(m.work) : m.work[j] = Chunk(r) /\ m.work[k] = Chunk(r) => j = k
  PROVE  LET n == SetMarkStackSentinelPointer(m, r, c)
         IN  /\ n \in Markers /\ n.bits = m.bits /\ n.overflow = m.overflow
             /\ n.sentinel = [m.sentinel EXCEPT ![r] = c] /\ Len(n.work) = Len(m.work)
             /\ \A j \in 1..Len(m.work) :
                   n.work[j] = IF j = m.sentinel[r] \/ m.work[j] = Chunk(r) THEN Dead ELSE m.work[j]
  <1> DEFINE q == IF m.sentinel[r] # 0 THEN ClearRootProtectorAndChunkAbove(m, r) ELSE m
             n == SetMarkStackSentinelPointer(m, r, c)
  <1>1. /\ m.bits \in [Objects -> Colours] /\ m.work \in Seq(Items) /\ m.overflow \in BOOLEAN
        /\ m.protected \in SUBSET Large /\ m.sentinel \in [Roots -> 0..MarkCap]
        /\ Len(m.work) \in Nat /\ Len(m.work) <= MarkCap
    BY MarkerParts
  <1>2. DOMAIN m.work = 1..Len(m.work) /\ \A j \in 1..Len(m.work) : m.work[j] \in Items
    BY <1>1, RangeFacts
  <1>3. /\ q \in Markers /\ q.bits = m.bits /\ q.overflow = m.overflow /\ q.sentinel = m.sentinel
        /\ Len(q.work) = Len(m.work)
        /\ \A j \in 1..Len(m.work) :
              q.work[j] = IF j = m.sentinel[r] \/ m.work[j] = Chunk(r) THEN Dead ELSE m.work[j]
    <2>1. CASE m.sentinel[r] = 0
      <3>1. q = m  BY <2>1
      <3>2. \A j \in 1..Len(m.work) : j # 0 /\ m.work[j] # Chunk(r)  BY <2>1, <1>1
      <3> QED  BY <2>1, <3>1, <3>2
    <2>2. CASE m.sentinel[r] # 0
      <3> DEFINE above == {i \in (m.sentinel[r] + 1)..Len(m.work) : m.work[i] = Chunk(r)}
                 cleared == {m.sentinel[r]} \cup {i \in above : \A j \in above : i <= j}
                 w == [i \in 1..Len(m.work) |-> IF i \in cleared THEN Dead ELSE m.work[i]]
      <3>1. q = [m EXCEPT !.work = w]  BY <1>2, <2>2 DEF ClearRootProtectorAndChunkAbove
      <3>2. \A j \in 1..Len(m.work) : j \in above <=> m.work[j] = Chunk(r)  BY <1>1, <2>2
      <3>3. \A j \in above : j \in 1..Len(m.work) /\ m.work[j] = Chunk(r) /\ j <= j  BY <1>1, <2>2
      <3>4. \A j \in above : \A i \in above : i = j  BY <3>3
      <3>5. \A j \in 1..Len(m.work) : j \in cleared <=> j = m.sentinel[r] \/ m.work[j] = Chunk(r)
        <4> HIDE DEF above
        <4> QED  BY <3>2, <3>3, <3>4
      <3> HIDE DEF cleared
      <3>6. Dead \in Items  BY DEF Items
      <3>7. w \in [1..Len(m.work) -> Items]  BY <1>2, <3>6
      <3>8. w \in Seq(Items) /\ Len(w) = Len(m.work)
        <4>1. w \in Seq(Items)  BY <1>1, <3>7, SeqDef
        <4>2. DOMAIN w = 1..Len(m.work)  BY <3>7
        <4> QED  BY <1>1, <4>1, <4>2, LenProperties
      <3>9. \A j \in 1..Len(m.work) :
               w[j] = IF j = m.sentinel[r] \/ m.work[j] = Chunk(r) THEN Dead ELSE m.work[j]
        BY <3>5
      <3> HIDE DEF w
      <3>10. q \in Markers /\ q.bits = m.bits /\ q.overflow = m.overflow /\ q.sentinel = m.sentinel /\ q.work = w
        BY <1>1, <3>1, <3>8 DEF Markers
      <3> QED  BY <3>8, <3>9, <3>10
    <2> QED  BY <2>1, <2>2
  <1>4. n = [q EXCEPT !.sentinel[r] = c]  BY DEF SetMarkStackSentinelPointer
  <1> HIDE DEF q
  <1>5. [q.sentinel EXCEPT ![r] = c] \in [Roots -> 0..MarkCap]  BY <1>1, <1>3
  <1>6. /\ n \in Markers /\ n.bits = m.bits /\ n.overflow = m.overflow /\ n.work = q.work
        /\ n.sentinel = [m.sentinel EXCEPT ![r] = c]
    BY <1>3, <1>4, <1>5 DEF Markers
  <1> QED  BY <1>3, <1>6

\* Without its items a root has no claim on the mark stack.
LEMMA WipeGood ==
  ASSUME NEW m, NEW b, NEW s, NEW k, Good(m, b, s, k), NEW r \in Roots
  PROVE  LET n == SetMarkStackSentinelPointer(m, r, 0)
         IN  /\ Good(n, b, s, k) /\ Grows(m, n, {RootProt(r), Chunk(r)})
             /\ RootProt(r) \notin Range(n.work) /\ Chunk(r) \notin Range(n.work)
             /\ n.bits = m.bits /\ n.overflow = m.overflow /\ n.sentinel = [m.sentinel EXCEPT ![r] = 0]
             /\ Len(n.work) = Len(m.work)
             /\ \A j \in 1..Len(m.work) :
                   n.work[j] = IF m.work[j] \in {RootProt(r), Chunk(r)} THEN Dead ELSE m.work[j]
  <1> DEFINE n == SetMarkStackSentinelPointer(m, r, 0)
  <1>1. /\ m \in Markers /\ m.bits \in [Objects -> Colours] /\ m.work \in Seq(Items)
        /\ Len(m.work) \in Nat /\ m.sentinel \in [Roots -> 0..MarkCap] /\ MarkCap \in Nat
    BY MarkerParts, HolderFacts DEF Good
  <1>2. RootItems(m)  BY DEF Good
  <1>3. /\ n \in Markers /\ n.bits = m.bits /\ n.overflow = m.overflow
        /\ n.sentinel = [m.sentinel EXCEPT ![r] = 0] /\ Len(n.work) = Len(m.work)
        /\ \A j \in 1..Len(m.work) :
              n.work[j] = IF j = m.sentinel[r] \/ m.work[j] = Chunk(r) THEN Dead ELSE m.work[j]
    <2>1. 0 \in 0..MarkCap  BY <1>1
    <2> QED  BY <1>1, <1>2, <2>1, SentinelFacts DEF RootItems
  <1> HIDE DEF n
  <1>4. \A j \in 1..Len(m.work) : m.work[j] = RootProt(r) <=> j = m.sentinel[r]
    <2>1. \A j \in 1..Len(m.work) : j # 0  BY <1>1
    <2> QED  BY <1>2, <2>1 DEF RootItems
  <1>5. \A j \in 1..Len(m.work) :
           n.work[j] = IF m.work[j] \in {RootProt(r), Chunk(r)} THEN Dead ELSE m.work[j]
    BY <1>3, <1>4
  <1>6. n.work \in Seq(Items)  BY <1>3, MarkerParts
  <1>7. \A t \in Range(n.work) : t = Dead \/ (t \in Range(m.work) /\ t \notin {RootProt(r), Chunk(r)})
    <2> SUFFICES ASSUME NEW t \in Range(n.work), t # Dead
                 PROVE  t \in Range(m.work) /\ t \notin {RootProt(r), Chunk(r)}
      OBVIOUS
    <2>1. PICK j \in 1..Len(m.work) : n.work[j] = t  BY <1>3, <1>6, RangeFacts
    <2>2. t = m.work[j] /\ t \notin {RootProt(r), Chunk(r)}  BY <1>5, <2>1
    <2> QED  BY <1>1, <2>2, RangeFacts
  <1>8. \A t \in Range(m.work) : t \in {RootProt(r), Chunk(r)} \/ t \in Range(n.work)
    <2> SUFFICES ASSUME NEW t \in Range(m.work), t \notin {RootProt(r), Chunk(r)}
                 PROVE  t \in Range(n.work)
      OBVIOUS
    <2>1. PICK j \in 1..Len(m.work) : m.work[j] = t  BY <1>1, RangeFacts
    <2>2. t = n.work[j]  BY <1>5, <2>1
    <2> QED  BY <1>3, <1>6, <2>2, RangeFacts
  <1>9. RootProt(r) \notin Range(n.work) /\ Chunk(r) \notin Range(n.work)  BY <1>7, ItemFacts
  <1>10. Grows(m, n, {RootProt(r), Chunk(r)})  BY <1>3, <1>8 DEF Grows
  <1>11. \A j \in 1..Len(m.work) : n.work[j] = m.work[j] \/ n.work[j] = Dead  BY <1>5
  <1>12. RootItems(n)
    <2> SUFFICES ASSUME NEW z \in Roots
                 PROVE  /\ n.sentinel[z] # 0 => /\ n.sentinel[z] \in 1..Len(n.work)
                                                /\ n.work[n.sentinel[z]] = RootProt(z)
                        /\ \A j \in 1..Len(n.work) :
                              /\ n.work[j] = RootProt(z) => n.sentinel[z] = j
                              /\ n.work[j] = Chunk(z) => n.sentinel[z] # 0 /\ n.sentinel[z] < j
                              /\ \A l \in 1..Len(n.work) : n.work[j] = Chunk(z) /\ n.work[l] = Chunk(z) => j = l
      BY DEF RootItems
    <2>1. CASE z = r
      <3>1. n.sentinel[z] = 0  BY <1>1, <1>3, <2>1
      <3>2. \A j \in 1..Len(n.work) : n.work[j] # RootProt(z) /\ n.work[j] # Chunk(z)
        BY <1>6, <1>9, <2>1, RangeFacts
      <3> QED  BY <3>1, <3>2
    <2>2. CASE z # r
      <3>1. n.sentinel[z] = m.sentinel[z]  BY <1>1, <1>3, <2>2
      <3>2. RootProt(z) \notin {RootProt(r), Chunk(r)}  BY <2>2, ItemFacts
      <3>3. RootProt(z) # Dead /\ Chunk(z) # Dead  BY ItemFacts
      <3>4. \A j \in 1..Len(m.work) : /\ n.work[j] = Chunk(z) => m.work[j] = Chunk(z)
                                      /\ n.work[j] = RootProt(z) <=> m.work[j] = RootProt(z)
        BY <1>5, <3>2, <3>3
      <3> QED  BY <1>2, <1>3, <3>1, <3>4 DEF RootItems
    <2> QED  BY <2>1, <2>2
  <1>13. AliveItems(n, k)
    <2>1. \A o : Obj(o) \in Range(n.work) => Obj(o) \in Range(m.work)  BY <1>7, ItemFacts
    <2>2. \A o : Chunk(o) \in Range(n.work) => Chunk(o) \in Range(m.work)  BY <1>7, ItemFacts
    <2>3. \A o : RootProt(o) \in Range(n.work) => RootProt(o) \in Range(m.work)  BY <1>7, ItemFacts
    <2>4. \A o : StackMem(o) \in Range(n.work) => StackMem(o) \in Range(m.work)  BY <1>7, ItemFacts
    <2> QED  BY <2>1, <2>2, <2>3, <2>4 DEF Good, AliveItems
  <1>14. \A o : Obj(o) \in Range(n.work) <=> Obj(o) \in Range(m.work)  BY <1>7, <1>8, ItemFacts
  <1>15. Queue(n, b)  BY <1>3, <1>14 DEF Good, Queue
  <1>16. s => Exact(n, b)
    <2>1. \A o, j : j \in 1..Len(n.work) /\ n.work[j] = Obj(o) => j \in 1..Len(m.work) /\ m.work[j] = Obj(o)
      BY <1>3, <1>11, ItemFacts
    <2> SUFFICES ASSUME s PROVE Exact(n, b)  OBVIOUS
    <2>2. Exact(m, b)  BY DEF Good
    <2>3. \A o \in Objects, i, j \in 1..Len(n.work) : n.work[i] = Obj(o) /\ n.work[j] = Obj(o) => i = j
      BY <2>1, <2>2 DEF Exact
    <2> QED  BY <1>3, <1>14, <2>2, <2>3 DEF Exact
  <1>17. Good(n, b, s, k)  BY <1>3, <1>12, <1>13, <1>15, <1>16 DEF Good
  <1> QED  BY <1>3, <1>5, <1>9, <1>10, <1>17 DEF n
\* The protector of a registered root, or the chunk above it, may be pushed.
LEMMA RootItemGood ==
  ASSUME NEW m, NEW b, NEW s, NEW k, Good(m, b, s, k), NEW n \in Markers, NEW r \in Roots, r \in rootAlive,
         NEW t, Chunk(r) \notin Range(m.work), n.bits = m.bits, n.work = Append(m.work, t),
         \/ /\ t = RootProt(r) /\ RootProt(r) \notin Range(m.work)
            /\ n.sentinel = [m.sentinel EXCEPT ![r] = Len(m.work) + 1]
         \/ t = Chunk(r) /\ n.sentinel = m.sentinel /\ m.sentinel[r] # 0
  PROVE  Good(n, b, s, k)
  <1>1. /\ m \in Markers /\ m.work \in Seq(Items) /\ Len(m.work) \in Nat
        /\ m.sentinel \in [Roots -> 0..MarkCap] /\ MarkCap \in Nat
    BY MarkerParts, HolderFacts DEF Good
  <1>2. t \in Items  BY DEF Items
  <1>3. /\ Len(n.work) = Len(m.work) + 1 /\ Range(n.work) = Range(m.work) \cup {t}
        /\ \A j \in 1..(Len(m.work) + 1) : n.work[j] = IF j = Len(m.work) + 1 THEN t ELSE m.work[j]
    BY <1>1, <1>2, AppendFacts
  <1> DEFINE top == Len(m.work) + 1
  <1>4. /\ \A j \in 1..Len(n.work) : j = top \/ (j \in 1..Len(m.work) /\ n.work[j] = m.work[j] /\ j # top)
        /\ \A j \in 1..Len(m.work) : j \in 1..Len(n.work) /\ n.work[j] = m.work[j] /\ j # top /\ j < top
        /\ n.work[top] = t /\ top \in 1..Len(n.work) /\ top # 0
    BY <1>1, <1>3
  <1>5. \A j \in 1..Len(m.work) : m.work[j] # Chunk(r) /\ (t = RootProt(r) => m.work[j] # RootProt(r))
    BY <1>1, RangeFacts
  <1> HIDE DEF top
  <1>6. RootItems(n)
    <2> SUFFICES ASSUME NEW z \in Roots
                 PROVE  /\ n.sentinel[z] # 0 => /\ n.sentinel[z] \in 1..Len(n.work)
                                                /\ n.work[n.sentinel[z]] = RootProt(z)
                        /\ \A j \in 1..Len(n.work) :
                              /\ n.work[j] = RootProt(z) => n.sentinel[z] = j
                              /\ n.work[j] = Chunk(z) => n.sentinel[z] # 0 /\ n.sentinel[z] < j
                              /\ \A l \in 1..Len(n.work) : n.work[j] = Chunk(z) /\ n.work[l] = Chunk(z) => j = l
      BY DEF RootItems
    <2>1. /\ m.sentinel[z] # 0 => /\ m.sentinel[z] \in 1..Len(m.work)
                                  /\ m.work[m.sentinel[z]] = RootProt(z)
          /\ \A j \in 1..Len(m.work) :
                /\ m.work[j] = RootProt(z) => m.sentinel[z] = j
                /\ m.work[j] = Chunk(z) => m.sentinel[z] # 0 /\ m.sentinel[z] < j
                /\ \A l \in 1..Len(m.work) : m.work[j] = Chunk(z) /\ m.work[l] = Chunk(z) => j = l
      BY DEF Good, RootItems
    <2>2. CASE z # r
      <3>1. n.sentinel[z] = m.sentinel[z]  BY <1>1, <2>2
      <3>2. t # RootProt(z) /\ t # Chunk(z)  BY <2>2, ItemFacts
      <3> QED  BY <1>4, <2>1, <3>1, <3>2
    <2>3. CASE z = r /\ t = RootProt(r)
      <3>1. n.sentinel[z] = top  BY <1>1, <2>3, ItemFacts DEF top
      <3>2. \A j \in 1..Len(n.work) : n.work[j] = RootProt(z) => j = top  BY <1>4, <1>5, <2>3
      <3>3. \A j \in 1..Len(n.work) : n.work[j] # Chunk(z)  BY <1>4, <1>5, <2>3, ItemFacts
      <3> QED  BY <1>4, <2>3, <3>1, <3>2, <3>3
    <2>4. CASE z = r /\ t = Chunk(r)
      <3>1. n.sentinel[z] = m.sentinel[z] /\ m.sentinel[z] # 0  BY <2>4, ItemFacts
      <3>2. m.sentinel[z] \in 1..Len(m.work) /\ m.sentinel[z] < top
            /\ n.work[m.sentinel[z]] = RootProt(z) /\ m.sentinel[z] \in 1..Len(n.work)
        BY <1>4, <2>1, <3>1
      <3>3. \A j \in 1..Len(n.work) : n.work[j] = RootProt(z) => n.sentinel[z] = j
        BY <1>4, <2>1, <2>4, <3>1, ItemFacts
      <3>4. \A j \in 1..Len(n.work) : n.work[j] = Chunk(z) => j = top  BY <1>4, <1>5, <2>4
      <3> QED  BY <3>1, <3>2, <3>3, <3>4
    <2> QED  BY <2>2, <2>3, <2>4
  <1>7. \A x \in Range(n.work) : x \in Range(m.work) \/ x = t  BY <1>3
  <1>8. \A o : t # Obj(o) /\ t # StackMem(o)  BY ItemFacts
  <1>9. \A z : t = RootProt(z) \/ t = Chunk(z) => z \in rootAlive  BY ItemFacts
  <1>10. AliveItems(n, k)
    <2>1. \A o : Obj(o) \in Range(n.work) => Obj(o) \in Range(m.work)  BY <1>7, <1>8
    <2>2. \A o : StackMem(o) \in Range(n.work) => StackMem(o) \in Range(m.work)  BY <1>7, <1>8
    <2>3. \A z : Chunk(z) \in Range(n.work) => Chunk(z) \in Range(m.work) \/ z \in rootAlive
      BY <1>7, <1>9
    <2>4. \A z : RootProt(z) \in Range(n.work) => RootProt(z) \in Range(m.work) \/ z \in rootAlive
      BY <1>7, <1>9
    <2> QED  BY <2>1, <2>2, <2>3, <2>4 DEF Good, AliveItems
  <1>11. \A o : Obj(o) \in Range(n.work) <=> Obj(o) \in Range(m.work)  BY <1>3, <1>8
  <1>12. Queue(n, b)  BY <1>11 DEF Good, Queue
  <1>13. s => Exact(n, b)
    <2> SUFFICES ASSUME s PROVE Exact(n, b)  OBVIOUS
    <2>1. Exact(m, b)  BY DEF Good
    <2>2. \A o, j : j \in 1..Len(n.work) /\ n.work[j] = Obj(o) => j \in 1..Len(m.work) /\ m.work[j] = Obj(o)
      BY <1>4, <1>8
    <2>3. \A o \in Objects, i, j \in 1..Len(n.work) : n.work[i] = Obj(o) /\ n.work[j] = Obj(o) => i = j
      <3>1. \A o \in Objects, i, j \in 1..Len(m.work) : m.work[i] = Obj(o) /\ m.work[j] = Obj(o) => i = j
        BY <2>1 DEF Exact
      <3> QED  BY <2>2, <3>1
    <2> QED  BY <1>11, <2>1, <2>3 DEF Exact
  <1> QED  BY <1>6, <1>10, <1>12, <1>13 DEF Good

\* A registered root that is marked: its first part at once, its second part later.
LEMMA MarkRootFacts ==
  ASSUME HeapInv, NEW m, NEW b, NEW s, NEW k, Good(m, b, s, k), NEW r \in Roots, r \in rootAlive
  PROVE  LET n == MarkRoot(m, r)
         IN  /\ Good(n, b, s, k) /\ Grows(m, n, {RootProt(r), Chunk(r)})
             /\ \A i \in Parts : Lost(n, mem[r][i]) => n.overflow \/ (i = 2 /\ Chunk(r) \in Range(n.work))
  <1> DEFINE d == {RootProt(r), Chunk(r)}
             p == Push(m, RootProt(r))
             g == IF r \notin LargeRoots THEN m
                  ELSE IF HasRoom(m) THEN SetMarkStackSentinelPointer(p, r, Len(m.work) + 1) ELSE p
             t == IF r \in LargeRoots THEN Push(g, Chunk(r)) ELSE g
             n == TracePointer(t, mem[r][1])
  <1>0. n = MarkRoot(m, r)  BY DEF MarkRoot
  <1>1. /\ m \in Markers /\ m.work \in Seq(Items) /\ Len(m.work) \in Nat /\ Len(m.work) <= MarkCap
        /\ m.sentinel \in [Roots -> 0..MarkCap] /\ MarkCap \in Nat
    BY MarkerParts, HolderFacts DEF Good
  <1>2. RootProt(r) \in Items /\ Chunk(r) \in Items  BY DEF Items
  <1>3. \A i \in Parts : mem[r][i] # NULL => mem[r][i] \in alive /\ i \in SlotsOf(r)
    BY DEF HeapInv, Holders
  <1>4. alive \subseteq Objects /\ 1 \in Parts /\ \A i \in Parts : i = 1 \/ i = 2
    BY HolderFacts DEF HeapInv
  <1>5. Good(t, b, s, k) /\ Grows(m, t, d)
        /\ (r \in LargeRoots => t.overflow \/ Chunk(r) \in Range(t.work))
    <2>1. CASE r \notin LargeRoots
      <3>1. t = m  BY <2>1
      <3>2. Grows(m, m, d)  BY DEF Grows
      <3> QED  BY <2>1, <3>1, <3>2
    <2>2. CASE r \in LargeRoots /\ ~HasRoom(m)
      <3>1. /\ p \in Markers /\ Grows(m, p, {}) /\ p.bits = m.bits /\ p.sentinel = m.sentinel
            /\ p.work = m.work /\ p.overflow
        BY <1>1, <1>2, <2>2, PushFacts
      <3>2. g = p  BY <2>2
      <3> HIDE DEF p, g
      <3>3. ~HasRoom(g)  BY <2>2, <3>1, <3>2 DEF HasRoom
      <3>4. LET q == Push(g, Chunk(r))
            IN  /\ q \in Markers /\ Grows(g, q, {}) /\ q.bits = g.bits /\ q.sentinel = g.sentinel
                /\ q.work = g.work /\ q.overflow
        BY <1>2, <3>1, <3>2, <3>3, PushFacts
      <3>5. /\ t \in Markers /\ Grows(g, t, {}) /\ t.bits = m.bits /\ t.sentinel = m.sentinel
            /\ t.work = m.work /\ t.overflow
        BY <2>2, <3>1, <3>2, <3>4
      <3> HIDE DEF t
      <3>6. Good(t, b, s, k)
        <4>1. RootItems(t)  BY <3>5, RootItemsSame DEF Good
        <4>2. AliveItems(t, k) /\ Queue(t, b) /\ (s => Exact(t, b))
          BY <3>5 DEF Good, AliveItems, Queue, Exact
        <4> QED  BY <3>5, <4>1, <4>2 DEF Good
      <3>7. Grows(m, t, d)  BY <3>5 DEF Grows
      <3> QED  BY <3>5, <3>6, <3>7
    <2>3. CASE r \in LargeRoots /\ HasRoom(m)
      <3> DEFINE w == SetMarkStackSentinelPointer(m, r, 0)
                 top == Len(m.work) + 1
      <3>1. /\ Good(w, b, s, k) /\ Grows(m, w, d)
            /\ RootProt(r) \notin Range(w.work) /\ Chunk(r) \notin Range(w.work)
            /\ w.bits = m.bits /\ w.overflow = m.overflow /\ w.sentinel = [m.sentinel EXCEPT ![r] = 0]
            /\ Len(w.work) = Len(m.work)
            /\ \A j \in 1..Len(m.work) :
                  w.work[j] = IF m.work[j] \in {RootProt(r), Chunk(r)} THEN Dead ELSE m.work[j]
        <4>1. Good(w, b, s, k)  BY WipeGood
        <4>2. Grows(m, w, d) /\ RootProt(r) \notin Range(w.work) /\ Chunk(r) \notin Range(w.work)
          BY WipeGood
        <4>3. /\ w.bits = m.bits /\ w.overflow = m.overflow /\ w.sentinel = [m.sentinel EXCEPT ![r] = 0]
              /\ Len(w.work) = Len(m.work)
          BY WipeGood
        <4>4. \A j \in 1..Len(m.work) :
                 w.work[j] = IF m.work[j] \in {RootProt(r), Chunk(r)} THEN Dead ELSE m.work[j]
          BY WipeGood, ZenonT(60)
        <4> QED  BY <4>1, <4>2, <4>3, <4>4
      <3>2. /\ p \in Markers /\ p.bits = m.bits /\ p.sentinel = m.sentinel
            /\ p.work = Append(m.work, RootProt(r)) /\ p.overflow = m.overflow
        BY <1>1, <1>2, <2>3, PushFacts
      <3>3. g = SetMarkStackSentinelPointer(p, r, top)  BY <2>3
      <3> HIDE DEF p, g, w
      <3>4. /\ Len(p.work) = top
            /\ \A j \in 1..top : p.work[j] = IF j = top THEN RootProt(r) ELSE m.work[j]
        BY <1>1, <1>2, <3>2, AppendFacts
      <3>5. top \in 0..MarkCap /\ top \in Nat  BY <1>1, <2>3 DEF HasRoom
      <3>6. \A j \in 1..top : j = top \/ (j \in 1..Len(m.work) /\ j # top)  BY <1>1
      <3>7. \A j \in 1..Len(m.work) : j \in 1..top /\ j # top  BY <1>1
      <3>8. RootProt(r) # Chunk(r)  BY ItemFacts
      <3>9. \A j \in 1..top : p.work[j] = Chunk(r) => j \in 1..Len(m.work) /\ m.work[j] = Chunk(r)
        BY <3>4, <3>6, <3>8
      <3>10. /\ m.sentinel[r] # 0 => m.sentinel[r] \in 1..Len(m.work)
             /\ \A j \in 1..Len(m.work) : m.work[j] = Chunk(r) => m.sentinel[r] # 0 /\ m.sentinel[r] < j
             /\ \A j, l \in 1..Len(m.work) : m.work[j] = Chunk(r) /\ m.work[l] = Chunk(r) => j = l
             /\ \A j \in 1..Len(m.work) : j = m.sentinel[r] <=> m.work[j] = RootProt(r)
        <4>1. \A j \in 1..Len(m.work) : j # 0  BY <1>1
        <4>2. RootItems(m)  BY DEF Good
        <4> QED  BY <4>1, <4>2 DEF RootItems
      <3>11. /\ m.sentinel[r] # 0 => m.sentinel[r] \in 1..Len(p.work)
             /\ \A j \in 1..Len(p.work) : p.work[j] = Chunk(r) => m.sentinel[r] # 0 /\ m.sentinel[r] < j
             /\ \A j, l \in 1..Len(p.work) : p.work[j] = Chunk(r) /\ p.work[l] = Chunk(r) => j = l
        BY <3>4, <3>7, <3>9, <3>10
      <3>12. /\ g \in Markers /\ g.bits = p.bits /\ g.overflow = p.overflow
             /\ g.sentinel = [p.sentinel EXCEPT ![r] = top] /\ Len(g.work) = Len(p.work)
             /\ \A j \in 1..Len(p.work) :
                   g.work[j] = IF j = p.sentinel[r] \/ p.work[j] = Chunk(r) THEN Dead ELSE p.work[j]
        <4> HIDE DEF top
        <4>1. /\ p.sentinel[r] # 0 => p.sentinel[r] \in 1..Len(p.work)
              /\ \A j \in 1..Len(p.work) : p.work[j] = Chunk(r) => p.sentinel[r] # 0 /\ p.sentinel[r] < j
          BY <3>2, <3>11
        <4>2. p \in Markers /\ top \in 0..MarkCap  BY <3>2, <3>5
        <4> QED  BY <3>3, <3>11, <4>1, <4>2, SentinelFacts
      <3>13. w \in Markers /\ w.work \in Seq(Items) /\ g.work \in Seq(Items) /\ w.sentinel \in [Roots -> 0..MarkCap]
        BY <3>1, <3>12, MarkerParts DEF Good
      <3>14. g.work = Append(w.work, RootProt(r))
        <4> DEFINE a == Append(w.work, RootProt(r))
        <4>1. /\ a \in Seq(Items) /\ Len(a) = top
              /\ \A j \in 1..top : a[j] = IF j = top THEN RootProt(r) ELSE w.work[j]
          BY <1>2, <3>1, <3>13, AppendFacts
        <4> HIDE DEF a
        <4>2. \A j \in 1..top : g.work[j] = a[j]
          <5> SUFFICES ASSUME NEW j \in 1..top PROVE g.work[j] = a[j]  OBVIOUS
          <5>1. CASE j = top
            <6>1. j # m.sentinel[r]  BY <1>1, <3>7, <3>10, <5>1
            <6> QED  BY <3>2, <3>4, <3>8, <3>12, <4>1, <5>1, <6>1
          <5>2. CASE j \in 1..Len(m.work) /\ j # top
            <6>1. p.work[j] = m.work[j]  BY <3>4, <5>2
            <6>2. g.work[j] = IF j = m.sentinel[r] \/ m.work[j] = Chunk(r) THEN Dead ELSE m.work[j]
              BY <3>2, <3>4, <3>12, <6>1
            <6>3. a[j] = IF m.work[j] \in {RootProt(r), Chunk(r)} THEN Dead ELSE m.work[j]
              BY <3>1, <4>1, <5>2
            <6> QED  BY <3>10, <5>2, <6>2, <6>3
          <5> QED  BY <3>6, <5>1, <5>2
        <4>3. a = g.work  BY <3>4, <3>12, <3>13, <4>1, <4>2, SeqEqual
        <4> QED  BY <4>3 DEF a
      <3>15. g.bits = w.bits /\ g.overflow = w.overflow /\ g.sentinel = [w.sentinel EXCEPT ![r] = Len(w.work) + 1]
        BY <1>1, <3>1, <3>2, <3>12
      <3>16. Good(g, b, s, k)
        BY <3>1, <3>12, <3>14, <3>15, RootItemGood
      <3>17. Range(g.work) = Range(w.work) \cup {RootProt(r)}  BY <1>2, <3>13, <3>14, AppendFacts
      <3>18. Grows(w, g, {})  BY <3>15, <3>17 DEF Grows
      <3>19. Chunk(r) \notin Range(g.work)  BY <3>1, <3>8, <3>17
      <3>20. g.sentinel[r] # 0  BY <1>1, <3>1, <3>13, <3>15
      <3>21. t = Push(g, Chunk(r))  BY <2>3
      <3> HIDE DEF t
      <3>22. /\ t \in Markers /\ Grows(g, t, {}) /\ t.bits = g.bits /\ t.sentinel = g.sentinel
             /\ HasRoom(g) => /\ t.work = Append(g.work, Chunk(r)) /\ t.overflow = g.overflow
                              /\ Range(t.work) = Range(g.work) \cup {Chunk(r)}
             /\ ~HasRoom(g) => t.work = g.work /\ t.overflow
        BY <1>2, <3>12, <3>21, PushFacts
      <3>23. Good(t, b, s, k)
        <4>1. CASE HasRoom(g)  BY <3>16, <3>19, <3>20, <3>22, <4>1, RootItemGood
        <4>2. CASE ~HasRoom(g)
          <5>1. RootItems(t)  BY <3>16, <3>22, <4>2, RootItemsSame DEF Good
          <5>2. AliveItems(t, k) /\ Queue(t, b) /\ (s => Exact(t, b))
            BY <3>16, <3>22, <4>2 DEF Good, AliveItems, Queue, Exact
          <5> QED  BY <3>22, <5>1, <5>2 DEF Good
        <4> QED  BY <4>1, <4>2
      <3>24. Grows(m, g, d)  BY <3>1, <3>18, GrowsTrans
      <3>25. Grows(m, t, d)  BY <3>22, <3>24, GrowsTrans
      <3> QED  BY <3>22, <3>23, <3>25
    <2> QED  BY <2>1, <2>2, <2>3
  <1> HIDE DEF t
  <1>6. Good(n, b, s, k) /\ Grows(t, n, {}) /\ (Lost(n, mem[r][1]) => n.overflow)
    BY <1>3, <1>4, <1>5, TraceFacts
  <1> HIDE DEF n
  <1>7. Grows(m, n, d)  BY <1>5, <1>6, GrowsTrans
  <1>8. \A i \in Parts : Lost(n, mem[r][i]) => n.overflow \/ (i = 2 /\ Chunk(r) \in Range(n.work))
    <2> SUFFICES ASSUME NEW i \in Parts, Lost(n, mem[r][i])
                 PROVE  n.overflow \/ (i = 2 /\ Chunk(r) \in Range(n.work))
      OBVIOUS
    <2>1. i \in SlotsOf(r)  BY <1>3 DEF Lost
    <2>2. CASE i = 1  BY <1>6, <2>2
    <2>3. CASE i = 2
      <3>1. r \in LargeRoots  BY <2>1, <2>3, HolderFacts DEF Holders
      <3> QED  BY <1>5, <1>6, <2>3, <3>1, ItemFacts DEF Grows
    <2> QED  BY <1>4, <2>2, <2>3
  <1> QED  BY <1>0, <1>6, <1>7, <1>8
-----------------------------------------------------------------------------
(***************************************************************************)
(* The item on top of the mark stack.                                      *)
(***************************************************************************)
LEMMA TriMono ==
  ASSUME NEW m, NEW e, NEW f, Tri(m, e), e \cap (Holders \X Parts) \subseteq f
  PROVE  Tri(m, f)
  <1> SUFFICES ASSUME NEW x \in Holders, NEW i \in Parts, Black(m, x), Lost(m, mem[x][i])
               PROVE  m.overflow \/ (i = 2 /\ Later(x) \in Range(m.work)) \/ <<x, i>> \in f
    BY DEF Tri
  <1>1. m.overflow \/ (i = 2 /\ Later(x) \in Range(m.work)) \/ <<x, i>> \in e  BY DEF Tri
  <1> QED  BY <1>1

\* What was traced needs no excuse.
LEMMA TracedTri ==
  ASSUME NEW m, NEW e, NEW f, Tri(m, e \cup f),
         \A x \in Holders, i \in Parts : <<x, i>> \in f /\ Lost(m, mem[x][i]) =>
            m.overflow \/ (i = 2 /\ Later(x) \in Range(m.work))
  PROVE  Tri(m, e)
  BY DEF Tri

\* What an item on top of the mark stack makes the marker do.
LEMMA TopFacts ==
  ASSUME NEW m
  PROVE  LET rest == [m EXCEPT !.work = Front(@)]
             t == Last(m.work)
         IN  /\ \A o : t = Obj(o) => MarkTopItem(m) = {MarkItem_GCObject(rest, o)}
             /\ \A o : t = Tail2(o) => MarkTopItem(m) = {MarkItem_ExactObjectTail(rest, o)}
             /\ \A o : t = Protector(o) => MarkTopItem(m) = {[rest EXCEPT !.protected = @ \ {o}]}
             /\ \A r : t = Chunk(r) => MarkTopItem(m) = {TracePointer(rest, mem[r][2])}
             /\ \A r : t = RootProt(r) => MarkTopItem(m) = {[rest EXCEPT !.sentinel[r] = 0]}
             /\ t = Dead => MarkTopItem(m) = {rest}
  <1> DEFINE t == Last(m.work)
  <1>1. \A o : t = Obj(o) => t[1] = "object" /\ t[2] = o  BY DEF Obj
  <1>2. \A o : t = Tail2(o) => t[1] = "tail" /\ t[2] = o  BY DEF Tail2
  <1>3. \A o : t = Protector(o) => t[1] = "protector" /\ t[2] = o  BY DEF Protector
  <1>4. \A o : t = Chunk(o) => t[1] = "chunk" /\ t[2] = o  BY DEF Chunk
  <1>5. \A o : t = RootProt(o) => t[1] = "rootProtector" /\ t[2] = o  BY DEF RootProt
  <1>6. t = Dead => t[1] = "dead"  BY DEF Dead
  <1> QED  BY <1>1, <1>2, <1>3, <1>4, <1>5, <1>6 DEF MarkTopItem

LEMMA StackTopFacts ==
  ASSUME NEW m, NEW S, Last(m.work) = StackMem(S), NEW n \in MarkTopItem(m)
  PROVE  LET rest == [m EXCEPT !.work = Front(@)]
         IN  \E o \in S : n = TracePointer(IF S = {o} THEN rest ELSE Push(rest, StackMem(S \ {o})), o)
  <1>1. Last(m.work)[1] = "stack" /\ Last(m.work)[2] = S  BY DEF StackMem
  <1> QED  BY <1>1 DEF MarkTopItem

\* The state after the item on top, kind by kind.
LEMMA TopIs ==
  ASSUME NEW m, NEW n \in MarkTopItem(m)
  PROVE  LET rest == [m EXCEPT !.work = Front(@)]
             t == Last(m.work)
         IN  /\ \A o : t = Obj(o) => n = MarkItem_GCObject(rest, o)
             /\ \A o : t = Tail2(o) => n = MarkItem_ExactObjectTail(rest, o)
             /\ \A o : t = Protector(o) => n = [rest EXCEPT !.protected = @ \ {o}]
             /\ \A r : t = Chunk(r) => n = TracePointer(rest, mem[r][2])
             /\ \A r : t = RootProt(r) => n = [rest EXCEPT !.sentinel[r] = 0]
             /\ \A S : t = StackMem(S) => \E o \in S :
                   n = TracePointer(IF S = {o} THEN rest ELSE Push(rest, StackMem(S \ {o})), o)
             /\ t = Dead => n = rest
  <1> DEFINE rest == [m EXCEPT !.work = Front(@)]
             t == Last(m.work)
  <1>1. ASSUME NEW o, t = Obj(o) PROVE n = MarkItem_GCObject(rest, o)
    <2>1. MarkTopItem(m) = {MarkItem_GCObject(rest, o)}  BY <1>1, TopFacts
    <2> QED  BY <2>1
  <1>2. ASSUME NEW o, t = Tail2(o) PROVE n = MarkItem_ExactObjectTail(rest, o)
    <2>1. MarkTopItem(m) = {MarkItem_ExactObjectTail(rest, o)}  BY <1>2, TopFacts
    <2> QED  BY <2>1
  <1>3. ASSUME NEW o, t = Protector(o) PROVE n = [rest EXCEPT !.protected = @ \ {o}]
    <2>1. MarkTopItem(m) = {[rest EXCEPT !.protected = @ \ {o}]}  BY <1>3, TopFacts
    <2> QED  BY <2>1
  <1>4. ASSUME NEW r, t = Chunk(r) PROVE n = TracePointer(rest, mem[r][2])
    <2>1. MarkTopItem(m) = {TracePointer(rest, mem[r][2])}  BY <1>4, TopFacts
    <2> QED  BY <2>1
  <1>5. ASSUME NEW r, t = RootProt(r) PROVE n = [rest EXCEPT !.sentinel[r] = 0]
    <2>1. MarkTopItem(m) = {[rest EXCEPT !.sentinel[r] = 0]}  BY <1>5, TopFacts
    <2> QED  BY <2>1
  <1>6. ASSUME NEW S, t = StackMem(S)
        PROVE  \E o \in S :
                  n = TracePointer(IF S = {o} THEN rest ELSE Push(rest, StackMem(S \ {o})), o)
    BY <1>6, StackTopFacts
  <1>7. ASSUME t = Dead PROVE n = rest
    <2>1. MarkTopItem(m) = {rest}  BY <1>7, TopFacts
    <2> QED  BY <2>1
  <1> HIDE DEF rest, t
  <1>8. /\ \A o : t = Obj(o) => n = MarkItem_GCObject(rest, o)
        /\ \A o : t = Tail2(o) => n = MarkItem_ExactObjectTail(rest, o)
        /\ \A o : t = Protector(o) => n = [rest EXCEPT !.protected = @ \ {o}]
        /\ \A r : t = Chunk(r) => n = TracePointer(rest, mem[r][2])
        /\ \A r : t = RootProt(r) => n = [rest EXCEPT !.sentinel[r] = 0]
        /\ \A S : t = StackMem(S) => \E o \in S :
              n = TracePointer(IF S = {o} THEN rest ELSE Push(rest, StackMem(S \ {o})), o)
        /\ t = Dead => n = rest
    BY <1>1, <1>2, <1>3, <1>4, <1>5, <1>6, <1>7
  <1> USE DEF rest, t
  <1> QED  BY ONLY <1>8

\* The mark stack without its top.
LEMMA PopFacts ==
  ASSUME NEW m \in Markers, m.work # <<>>
  PROVE  LET rest == [m EXCEPT !.work = Front(@)]
         IN  /\ rest \in Markers /\ rest.work = Front(m.work)
             /\ rest.bits = m.bits /\ rest.overflow = m.overflow /\ rest.sentinel = m.sentinel
             /\ Range(m.work) = Range(rest.work) \cup {Last(m.work)} /\ Last(m.work) \in Items
             /\ Grows(m, rest, {Last(m.work)})
  <1> DEFINE rest == [m EXCEPT !.work = Front(@)]
  <1>1. m.work \in Seq(Items) /\ Len(m.work) \in Nat /\ Len(m.work) <= MarkCap /\ MarkCap \in Nat
    BY MarkerParts, HolderFacts
  <1>2. /\ Front(m.work) \in Seq(Items) /\ Len(Front(m.work)) = Len(m.work) - 1
        /\ Last(m.work) \in Items /\ Range(m.work) = Range(Front(m.work)) \cup {Last(m.work)}
    BY <1>1, FrontFacts
  <1>3. Len(m.work) - 1 <= MarkCap  BY <1>1
  <1>4. /\ rest \in Markers /\ rest.work = Front(m.work) /\ rest.bits = m.bits
        /\ rest.overflow = m.overflow /\ rest.sentinel = m.sentinel
    BY <1>2, <1>3 DEF Markers
  <1>5. Grows(m, rest, {Last(m.work)})  BY <1>2, <1>4 DEF Grows
  <1> QED  BY <1>2, <1>4, <1>5

\* An object on top is marked, a protector of a root on top lets go of the root.
LEMMA PopGood ==
  ASSUME NEW m, NEW b, NEW s, NEW k, Good(m, b, s, k), m.work # <<>>, NEW n \in Markers,
         n.work = Front(m.work),
         \A r \in Roots : n.sentinel[r] = IF Last(m.work) = RootProt(r) THEN 0 ELSE m.sentinel[r],
         \A o \in Objects : n.bits[o] = IF Last(m.work) = Obj(o) THEN "marked" ELSE m.bits[o]
  PROVE  Good(n, b, s, k)
  <1>1. m \in Markers /\ m.work \in Seq(Items)  BY MarkerParts DEF Good
  <1>2. /\ Len(n.work) = Len(m.work) - 1 /\ Len(m.work) \in Nat \ {0}
        /\ \A j \in 1..(Len(m.work) - 1) : n.work[j] = m.work[j]
        /\ Last(m.work) = m.work[Len(m.work)]
        /\ Range(m.work) = Range(n.work) \cup {Last(m.work)}
    BY <1>1, FrontFacts
  <1>3. \A j \in 1..Len(n.work) : j \in 1..Len(m.work) /\ j < Len(m.work) /\ n.work[j] = m.work[j]
    BY <1>2
  <1>4. \A j \in 1..Len(m.work) : j # Len(m.work) => j \in 1..Len(n.work)  BY <1>2
  <1>5. Len(m.work) \in 1..Len(m.work) /\ Len(m.work) \in Nat  BY <1>2
  <1>6. RootItems(n)
    <2> SUFFICES ASSUME NEW z \in Roots
                 PROVE  /\ n.sentinel[z] # 0 => /\ n.sentinel[z] \in 1..Len(n.work)
                                                /\ n.work[n.sentinel[z]] = RootProt(z)
                        /\ \A j \in 1..Len(n.work) :
                              /\ n.work[j] = RootProt(z) => n.sentinel[z] = j
                              /\ n.work[j] = Chunk(z) => n.sentinel[z] # 0 /\ n.sentinel[z] < j
                              /\ \A l \in 1..Len(n.work) : n.work[j] = Chunk(z) /\ n.work[l] = Chunk(z) => j = l
      BY DEF RootItems
    <2>1. /\ m.sentinel[z] # 0 => /\ m.sentinel[z] \in 1..Len(m.work)
                                  /\ m.work[m.sentinel[z]] = RootProt(z)
          /\ \A j \in 1..Len(m.work) :
                /\ m.work[j] = RootProt(z) => m.sentinel[z] = j
                /\ m.work[j] = Chunk(z) => m.sentinel[z] # 0 /\ m.sentinel[z] < j
                /\ \A l \in 1..Len(m.work) : m.work[j] = Chunk(z) /\ m.work[l] = Chunk(z) => j = l
      BY DEF Good, RootItems
    <2>2. CASE Last(m.work) = RootProt(z)
      <3>1. n.sentinel[z] = 0 /\ m.sentinel[z] = Len(m.work)  BY <1>2, <1>5, <2>1, <2>2
      <3>2. \A j \in 1..Len(n.work) : n.work[j] # RootProt(z)  BY <1>3, <2>1, <3>1
      <3>3. \A j \in 1..Len(n.work) : n.work[j] # Chunk(z)  BY <1>3, <1>5, <2>1, <3>1
      <3> QED  BY <3>1, <3>2, <3>3
    <2>3. CASE Last(m.work) # RootProt(z)
      <3>1. n.sentinel[z] = m.sentinel[z]  BY <2>3
      <3>2. n.sentinel[z] # 0 => n.sentinel[z] \in 1..Len(n.work)  BY <1>2, <1>4, <2>1, <2>3, <3>1
      <3>3. n.sentinel[z] # 0 => n.work[n.sentinel[z]] = RootProt(z)  BY <1>3, <2>1, <3>1, <3>2
      <3>4. \A j \in 1..Len(n.work) : j \in 1..Len(m.work) /\ n.work[j] = m.work[j]  BY <1>3
      <3>5. \A j \in 1..Len(n.work) :
               /\ n.work[j] = RootProt(z) => n.sentinel[z] = j
               /\ n.work[j] = Chunk(z) => n.sentinel[z] # 0 /\ n.sentinel[z] < j
               /\ \A l \in 1..Len(n.work) : n.work[j] = Chunk(z) /\ n.work[l] = Chunk(z) => j = l
        BY <2>1, <3>1, <3>4
      <3> QED  BY <3>2, <3>3, <3>5
    <2> QED  BY <2>2, <2>3
  <1>7. AliveItems(n, k)  BY <1>2 DEF Good, AliveItems
  <1>8. Queue(n, b)  BY <1>2 DEF Good, Queue
  <1>9. s => Exact(n, b)
    <2> SUFFICES ASSUME s PROVE Exact(n, b)  OBVIOUS
    <2>1. Exact(m, b)  BY DEF Good
    <2>2. \A o \in Objects, i, j \in 1..Len(n.work) : n.work[i] = Obj(o) /\ n.work[j] = Obj(o) => i = j
      BY <1>3, <2>1 DEF Exact
    <2>3. \A o \in Objects : Obj(o) \in Range(n.work) => Last(m.work) # Obj(o)
      <3> SUFFICES ASSUME NEW o \in Objects, Obj(o) \in Range(n.work), Last(m.work) = Obj(o) PROVE FALSE
        OBVIOUS
      <3>1. n.work \in Seq(Items)  BY MarkerParts
      <3>2. PICK j \in 1..Len(n.work) : n.work[j] = Obj(o)  BY <3>1, RangeFacts
      <3>3. j \in 1..Len(m.work) /\ j < Len(m.work) /\ m.work[j] = Obj(o)  BY <1>3, <3>2
      <3>4. m.work[Len(m.work)] = Obj(o)  BY <1>2
      <3>5. j = Len(m.work)  BY <1>5, <2>1, <3>3, <3>4 DEF Exact
      <3> QED  BY <1>5, <3>3, <3>5
    <2>4. \A o \in Objects : o \in Range(b) => Last(m.work) # Obj(o)  BY <1>2, <2>1 DEF Exact
    <2> QED  BY <1>2, <2>1, <2>2, <2>3, <2>4 DEF Exact
  <1> QED  BY <1>6, <1>7, <1>8, <1>9 DEF Good

\* One item of the mark stack.
LEMMA TopGood ==
  ASSUME HeapInv, NEW m, NEW b, NEW s, NEW k, Good(m, b, s, k), NEW e, Tri(m, e), m.work # <<>>,
         NEW n \in MarkTopItem(m)
  PROVE  /\ Good(n, b, s, k) /\ Tri(n, e) /\ (StackTri(m) => StackTri(n)) /\ (m.overflow => n.overflow)
         /\ \A o \in Objects : m.bits[o] = "marked" => n.bits[o] = "marked"
  <1> DEFINE rest == [m EXCEPT !.work = Front(@)]
             t == Last(m.work)
  <1>1. m \in Markers /\ m.bits \in [Objects -> Colours] /\ m.sentinel \in [Roots -> 0..MarkCap] /\ MarkCap \in Nat
    BY MarkerParts, HolderFacts DEF Good
  <1>2. /\ rest \in Markers /\ rest.work = Front(m.work)
        /\ rest.bits = m.bits /\ rest.overflow = m.overflow /\ rest.sentinel = m.sentinel
        /\ Range(m.work) = Range(rest.work) \cup {t} /\ t \in Items
        /\ Grows(m, rest, {t})
    BY <1>1, PopFacts
  <1>3. /\ \A o : t = Obj(o) => n = MarkItem_GCObject(rest, o)
        /\ \A o : t = Tail2(o) => n = MarkItem_ExactObjectTail(rest, o)
        /\ \A o : t = Protector(o) => n = [rest EXCEPT !.protected = @ \ {o}]
        /\ \A r : t = Chunk(r) => n = TracePointer(rest, mem[r][2])
        /\ \A r : t = RootProt(r) => n = [rest EXCEPT !.sentinel[r] = 0]
        /\ \A S : t = StackMem(S) => \E o \in S :
              n = TracePointer(IF S = {o} THEN rest ELSE Push(rest, StackMem(S \ {o})), o)
        /\ t = Dead => n = rest
    BY TopIs DEF rest, t
  <1> HIDE DEF rest, t
  <1>4. stack \subseteq Objects /\ alive \subseteq Objects /\ stack \subseteq alive  BY DEF HeapInv
  <1>5. \A x \in Holders, i \in Parts : mem[x][i] # NULL => mem[x][i] \in alive  BY DEF HeapInv
  <1>6. Parts = {1, 2} /\ Objects \cap Roots = {} /\ Large \subseteq Objects  BY HolderFacts
  <1>7. ASSUME \A o \in Objects : t # Obj(o), \A r \in Roots : t # RootProt(r)
        PROVE  Good(rest, b, s, k)
    BY <1>2, <1>7, PopGood DEF t
  <1>8. ASSUME NEW q, NEW d, Grows(m, q, d)
        PROVE  (m.overflow => q.overflow) /\ \A o \in Objects : m.bits[o] = "marked" => q.bits[o] = "marked"
    BY <1>8 DEF Grows
  <1>9. CASE \E o \in Objects : t = Obj(o)
    <2>1. PICK o \in Objects : t = Obj(o)  BY <1>9
    <2> DEFINE q == [rest EXCEPT !.bits[o] = "marked"]
               f == {<<o, i>> : i \in Parts}
    <2>2. /\ q \in Markers /\ q.bits = [m.bits EXCEPT ![o] = "marked"] /\ q.work = Front(m.work)
          /\ q.overflow = m.overflow /\ q.sentinel = m.sentinel
      <3>1. "marked" \in Colours  BY DEF Colours
      <3>2. /\ q \in Markers /\ q.bits = [rest.bits EXCEPT ![o] = "marked"] /\ q.work = rest.work
            /\ q.overflow = rest.overflow /\ q.sentinel = rest.sentinel
        BY <1>2, <3>1, ColourFacts
      <3> QED  BY <1>2, <3>2
    <2>3. Good(q, b, s, k)
      <3>1. \A r \in Roots : q.sentinel[r] = IF Last(m.work) = RootProt(r) THEN 0 ELSE m.sentinel[r]
        BY <2>1, <2>2, ItemFacts DEF t
      <3>2. \A x \in Objects : q.bits[x] = IF Last(m.work) = Obj(x) THEN "marked" ELSE m.bits[x]
        BY <1>1, <2>1, <2>2, ItemFacts DEF t
      <3> HIDE DEF q
      <3> QED  BY <2>2, <3>1, <3>2, PopGood
    <2>4. /\ Good(n, b, s, k) /\ Grows(q, n, {})
          /\ \A i \in Parts : Lost(n, mem[o][i]) => n.overflow \/ (i = 2 /\ Tail2(o) \in Range(n.work))
      BY <1>3, <2>1, <2>3, MarkItemFacts
    <2> HIDE DEF q
    <2>5. Range(q.work) = Range(rest.work)  BY <1>2, <2>2
    <2>6. Tri(q, e \cup f)
      <3> SUFFICES ASSUME NEW x \in Holders, NEW i \in Parts, Black(q, x), Lost(q, mem[x][i])
                   PROVE  q.overflow \/ (i = 2 /\ Later(x) \in Range(q.work)) \/ <<x, i>> \in e \cup f
        BY DEF Tri
      <3>1. CASE x = o  BY <3>1
      <3>2. CASE x # o
        <4>1. Black(m, x)  BY <1>1, <2>2, <3>2 DEF Black
        <4>2. Lost(m, mem[x][i])
          <5>1. mem[x][i] \in Objects  BY <1>4, <1>5 DEF Lost
          <5>2. q.bits[mem[x][i]] = "white" => m.bits[mem[x][i]] = "white"  BY <1>1, <2>2, <5>1
          <5> QED  BY <5>2 DEF Lost
        <4>3. Later(x) \in Range(m.work) => Later(x) \in Range(q.work)
          BY <1>2, <2>1, <2>5, ItemFacts DEF Later
        <4> QED  BY <2>2, <4>1, <4>2, <4>3 DEF Tri
      <3> QED  BY <3>1, <3>2
    <2>7. Tri(n, e \cup f)  BY <2>4, <2>6, GrowsTri
    <2>8. Tri(n, e)
      <3>1. \A x \in Holders, i \in Parts : <<x, i>> \in f => x = o  OBVIOUS
      <3>2. Later(o) = Tail2(o)  BY <1>6 DEF Later
      <3> HIDE DEF f
      <3> QED  BY <2>4, <2>7, <3>1, <3>2, TracedTri
    <2>9. ASSUME StackTri(m) PROVE StackTri(n)
      <3>1. StackTri(q)
        <4>1. \A S : StackMem(S) \in Range(m.work) => StackMem(S) \in Range(q.work)
          BY <1>2, <2>1, <2>5, ItemFacts
        <4>2. \A x \in stack : q.bits[x] = "white" => m.bits[x] = "white"  BY <1>1, <1>4, <2>2
        <4> QED  BY <2>2, <2>9, <4>1, <4>2 DEF StackTri
      <3> QED  BY <1>4, <2>4, <3>1, GrowsStack
    <2>10. \A x \in Objects : m.bits[x] = "marked" => n.bits[x] = "marked"
      <3>1. \A x \in Objects : m.bits[x] = "marked" => q.bits[x] = "marked"  BY <1>1, <2>2
      <3> QED  BY <2>4, <3>1 DEF Grows
    <2>11. m.overflow => n.overflow  BY <2>2, <2>4 DEF Grows
    <2> QED  BY <2>4, <2>8, <2>9, <2>10, <2>11
  <1>10. ASSUME NEW x \in Holders, t = Later(x), NEW q, Good(q, b, s, k), Grows(m, q, {t}),
                n = TracePointer(q, mem[x][2])
         PROVE  /\ Good(n, b, s, k) /\ Tri(n, e) /\ (StackTri(m) => StackTri(n)) /\ (m.overflow => n.overflow)
                /\ \A o \in Objects : m.bits[o] = "marked" => n.bits[o] = "marked"
    <2> DEFINE f == {<<x, 2>>}
    <2>1. mem[x][2] # NULL => mem[x][2] \in alive  BY <1>5, <1>6
    <2>2. Good(n, b, s, k) /\ Grows(q, n, {}) /\ (Lost(n, mem[x][2]) => n.overflow)
      BY <1>4, <1>10, <2>1, TraceFacts
    <2>3. Grows(m, n, {t})  BY <1>10, <2>2, GrowsTrans
    <2>4. \A y \in Holders : Later(y) \in {t} => y = x  BY <1>6, <1>10, ItemFacts DEF Later
    <2>5. Tri(m, e \cup f)  BY TriMono
    <2>6. Tri(n, e \cup f)  BY <2>3, <2>4, <2>5, GrowsTri
    <2>7. Tri(n, e)
      <3>1. \A y \in Holders, i \in Parts : <<y, i>> \in f => y = x /\ i = 2  OBVIOUS
      <3> HIDE DEF f
      <3> QED  BY <2>2, <2>6, <3>1, TracedTri
    <2>8. \A S : StackMem(S) # t  BY <1>10, ItemFacts DEF Later
    <2>9. StackTri(m) => StackTri(n)  BY <1>4, <2>3, <2>8, GrowsStack
    <2> QED  BY <1>8, <2>2, <2>3, <2>7, <2>9
  <1>11. CASE \E o \in Objects : t = Tail2(o)
    <2>1. PICK o \in Objects : t = Tail2(o)  BY <1>11
    <2> DEFINE q == Push(rest, Dead)
    <2>2. Good(rest, b, s, k)  BY <1>7, <2>1, ItemFacts
    <2>3. Dead \in Items  BY DEF Items
    <2>4. Good(q, b, s, k) /\ Grows(rest, q, {})  BY <2>2, <2>3, ItemFacts, PushGood
    <2>5. n = TracePointer(q, mem[o][2])  BY <1>3, <2>1 DEF MarkItem_ExactObjectTail
    <2> HIDE DEF q
    <2>6. Grows(m, q, {t})  BY <1>2, <2>4, GrowsTrans
    <2>7. o \in Holders /\ t = Later(o)  BY <1>6, <2>1 DEF Holders, Later
    <2> QED  BY <1>10, <2>4, <2>5, <2>6, <2>7
  <1>12. CASE \E r \in Roots : t = Chunk(r)
    <2>1. PICK r \in Roots : t = Chunk(r)  BY <1>12
    <2>2. Good(rest, b, s, k)  BY <1>7, <2>1, ItemFacts
    <2>3. n = TracePointer(rest, mem[r][2])  BY <1>3, <2>1
    <2>4. r \in Holders /\ t = Later(r)  BY <1>6, <2>1 DEF Holders, Later
    <2> QED  BY <1>2, <1>10, <2>2, <2>3, <2>4
  <1>13. ASSUME Good(n, b, s, k), Grows(m, n, {t}), \A x : t # Tail2(x) /\ t # Chunk(x) /\ t # StackMem(x)
         PROVE  /\ Good(n, b, s, k) /\ Tri(n, e) /\ (StackTri(m) => StackTri(n)) /\ (m.overflow => n.overflow)
                /\ \A o \in Objects : m.bits[o] = "marked" => n.bits[o] = "marked"
    <2>1. \A x \in Holders : Later(x) \notin {t}  BY <1>13 DEF Later
    <2>2. Tri(n, e)  BY <1>13, <2>1, GrowsTri
    <2>3. StackTri(m) => StackTri(n)  BY <1>4, <1>13, GrowsStack
    <2> QED  BY <1>8, <1>13, <2>2, <2>3
  <1>14. CASE \E o \in Large : t = Protector(o)
    <2>1. PICK o \in Large : t = Protector(o)  BY <1>14
    <2>2. n = [rest EXCEPT !.protected = @ \ {o}]  BY <1>3, <2>1
    <2>3. rest.protected \ {o} \in SUBSET Large  BY <1>2, MarkerParts
    <2>4. /\ n \in Markers /\ n.bits = m.bits /\ n.work = rest.work
          /\ n.overflow = m.overflow /\ n.sentinel = m.sentinel
      BY <1>2, <2>2, <2>3 DEF Markers
    <2>5. Good(n, b, s, k)  BY <1>2, <2>1, <2>4, ItemFacts, PopGood DEF t
    <2>6. Grows(m, n, {t})  BY <1>2, <2>4 DEF Grows
    <2> QED  BY <1>13, <2>1, <2>5, <2>6, ItemFacts
  <1>15. CASE \E r \in Roots : t = RootProt(r)
    <2>1. PICK r \in Roots : t = RootProt(r)  BY <1>15
    <2>2. n = [rest EXCEPT !.sentinel[r] = 0]  BY <1>3, <2>1
    <2>3. [rest.sentinel EXCEPT ![r] = 0] \in [Roots -> 0..MarkCap]  BY <1>1, <1>2
    <2>4. /\ n \in Markers /\ n.bits = m.bits /\ n.work = rest.work
          /\ n.overflow = m.overflow /\ n.sentinel = [m.sentinel EXCEPT ![r] = 0]
      BY <1>2, <2>2, <2>3 DEF Markers
    <2> HIDE DEF rest
    <2>5. \A z \in Roots : n.sentinel[z] = IF t = RootProt(z) THEN 0 ELSE m.sentinel[z]
      BY <1>1, <2>1, <2>4, ItemFacts
    <2>6. Good(n, b, s, k)
      <3>1. n \in Markers /\ n.work = Front(m.work)  BY <1>2, <2>4
      <3>2. \A o \in Objects : n.bits[o] = IF t = Obj(o) THEN "marked" ELSE m.bits[o]
        BY <2>1, <2>4, ItemFacts
      <3> QED  BY <2>5, <3>1, <3>2, PopGood DEF t
    <2>7. Grows(m, n, {t})  BY <1>2, <2>4 DEF Grows
    <2> QED  BY <1>13, <2>1, <2>6, <2>7, ItemFacts
  <1>16. CASE t = Dead
    <2>1. n = rest  BY <1>3, <1>16
    <2>2. Good(n, b, s, k)  BY <1>7, <1>16, <2>1, ItemFacts
    <2> QED  BY <1>2, <1>13, <1>16, <2>1, <2>2, ItemFacts
  <1>17. CASE \E S \in SUBSET Objects : t = StackMem(S)
    <2>1. PICK S \in SUBSET Objects : t = StackMem(S)  BY <1>17
    <2>2. PICK o \in S : n = TracePointer(IF S = {o} THEN rest ELSE Push(rest, StackMem(S \ {o})), o)
      BY <1>3, <2>1
    <2> DEFINE q == IF S = {o} THEN rest ELSE Push(rest, StackMem(S \ {o}))
    <2>3. Good(rest, b, s, k)  BY <1>7, <2>1, ItemFacts
    <2>4. k /\ S \subseteq stack  BY <1>2, <2>1 DEF Good, AliveItems
    <2>5. S \ {o} \in SUBSET Objects /\ StackMem(S \ {o}) \in Items  BY DEF Items
    <2>6. LET p == Push(rest, StackMem(S \ {o}))
          IN  Good(p, b, s, k) /\ Grows(rest, p, {}) /\ (p.overflow \/ StackMem(S \ {o}) \in Range(p.work))
      <3>1. \A Z : StackMem(S \ {o}) = StackMem(Z) => Z \subseteq stack  BY <2>4, ItemFacts
      <3>2. \A x : StackMem(S \ {o}) # Obj(x) /\ StackMem(S \ {o}) # Chunk(x) /\ StackMem(S \ {o}) # RootProt(x)
        BY ItemFacts
      <3> QED  BY <2>3, <2>4, <2>5, <3>1, <3>2, PushGood
    <2>7. Good(q, b, s, k) /\ Grows(rest, q, {})
          /\ (S = {o} \/ q.overflow \/ StackMem(S \ {o}) \in Range(q.work))
      <3>1. Grows(rest, rest, {})  BY GrowsRefl
      <3> QED  BY <2>3, <2>6, <3>1
    <2>8. n = TracePointer(q, o)  BY <2>2
    <2> HIDE DEF q
    <2>9. o \in alive  BY <1>4, <2>4
    <2>10. Good(n, b, s, k) /\ Grows(q, n, {}) /\ (Lost(n, o) => n.overflow)
      BY <1>4, <2>7, <2>8, <2>9, TraceFacts
    <2>11. Grows(rest, n, {}) /\ Grows(m, n, {t})  BY <1>2, <2>7, <2>10, GrowsTrans
    <2>12. \A x \in Holders : Later(x) \notin {t}  BY <2>1, ItemFacts DEF Later
    <2>13. Tri(n, e)  BY <2>11, <2>12, GrowsTri
    <2>14. ASSUME StackTri(m) PROVE StackTri(n)
      <3> SUFFICES ASSUME NEW x \in stack, n.bits[x] = "white", ~n.overflow
                   PROVE  \E Z \in SUBSET Objects : StackMem(Z) \in Range(n.work) /\ x \in Z
        BY DEF StackTri
      <3>1. x \in Objects  BY <1>4
      <3>2. m.bits[x] = "white" /\ ~m.overflow /\ ~q.overflow  BY <2>10, <2>11, <3>1 DEF Grows
      <3>3. PICK Z \in SUBSET Objects : StackMem(Z) \in Range(m.work) /\ x \in Z  BY <2>14, <3>2 DEF StackTri
      <3>4. CASE StackMem(Z) # t
        <4>1. StackMem(Z) \in Range(n.work)  BY <2>11, <3>3, <3>4 DEF Grows
        <4> QED  BY <3>3, <4>1
      <3>5. CASE StackMem(Z) = t
        <4>1. Z = S  BY <2>1, <3>5, ItemFacts
        <4>2. x # o
          <5>1. x = o => Lost(n, o)  BY <3>1, HolderFacts DEF Lost
          <5> QED  BY <2>10, <5>1
        <4>3. x \in S \ {o} /\ S # {o}  BY <3>3, <4>1, <4>2
        <4>4. StackMem(S \ {o}) \in Range(n.work)  BY <2>7, <2>10, <3>2, <4>3 DEF Grows
        <4> QED  BY <2>5, <4>3, <4>4
      <3> QED  BY <3>4, <3>5
    <2> QED  BY <1>8, <2>10, <2>11, <2>13, <2>14
  <1>18. \/ \E o \in Objects : t = Obj(o)
         \/ \E o \in Objects : t = Tail2(o)
         \/ \E o \in Large : t = Protector(o)
         \/ \E r \in Roots : t = Chunk(r)
         \/ \E r \in Roots : t = RootProt(r)
         \/ \E S \in SUBSET Objects : t = StackMem(S)
         \/ t = Dead
    BY <1>2 DEF Items
  <1> QED  BY <1>9, <1>11, <1>12, <1>14, <1>15, <1>16, <1>17, <1>18
-----------------------------------------------------------------------------
(***************************************************************************)
(* The steps of the collector.                                             *)
(***************************************************************************)
\* A step of the collector that leaves the program's state alone.
LEMMA CollectorStep ==
  ASSUME HeapInv, UNCHANGED progVars, NEW n, Becomes(n), ScanInv',
         Good(n, barrier', ~collecting', phase' = "drain2"), Tri(n, Excused'),
         phase' # "idle",
         phase' \in {"roots", "drain2"} => barrier' = <<>> \/ n.overflow,
         phase' = "drain2" => StackTri(n),
         collecting' => barrier' = <<>> /\ \A o \in stack : n.bits[o] = "marked"
  PROVE  IndInv'
  <1>1. Marker' = n  BY BecomesIs DEF Good
  <1>2. overflow' = n.overflow /\ bits' = n.bits  BY DEF Becomes
  <1>3. HeapInv'  BY DEF HeapInv, progVars
  <1>4. AliveItems(Marker, phase = "drain2")'
    <2>1. AliveItems(n, phase' = "drain2")  BY DEF Good
    <2> QED  BY <1>1, <2>1 DEF AliveItems, progVars
  <1>5. Good(Marker, barrier, ~collecting, phase = "drain2")'  BY <1>1, <1>4 DEF Good
  <1>6. Tri(Marker, Excused)'
    <2>1. \A x : Black(Marker, x)' <=> Black(n, x)  BY <1>1 DEF Black, progVars
    <2>2. \A p : Lost(Marker, p)' <=> Lost(n, p)  BY <1>1 DEF Lost
    <2>3. mem' = mem  BY DEF progVars
    <2> QED  BY <1>1, <2>1, <2>2, <2>3 DEF Tri
  <1>7. StackTri(n) => StackTri(Marker)'  BY <1>1 DEF StackTri, progVars
  <1>8. PhaseInv'  BY <1>2, <1>7 DEF PhaseInv, progVars
  <1> QED  BY <1>3, <1>5, <1>6, <1>8 DEF IndInv

\* The parts of the invariant that name the marker.
LEMMA MarkerNow ==
  ASSUME IndInv
  PROVE  /\ HeapInv /\ ScanInv /\ PhaseInv /\ Marker \in Markers
         /\ Good(Marker, barrier, ~collecting, phase = "drain2") /\ Tri(Marker, Excused)
         /\ Marker.bits = bits /\ Marker.work = work /\ Marker.overflow = overflow
         /\ Marker.protected = protected /\ Marker.sentinel = sentinel /\ overflow \in BOOLEAN
         /\ NRoots \in Nat /\ NObjects \in Nat /\ scan \in Nat
  <1>1. Marker \in Markers  BY DEF IndInv, Good
  <1>2. Marker.overflow \in BOOLEAN  BY <1>1, MarkerParts
  <1>3. scan \in Nat
    <2>1. scan \in 0..(NRoots + NObjects + 1)  BY DEF IndInv, ScanInv
    <2> QED  BY <2>1, HolderFacts
  <1> QED  BY <1>1, <1>2, <1>3, HolderFacts DEF IndInv, Marker

LEMMA MarkersUnchanged ==
  ASSUME UNCHANGED markVars
  PROVE  Becomes(Marker)
  BY DEF Becomes, Marker, markVars

\* Every place of the scan of HandleMarkStackOverflow is a holder, each at its index.
LEMMA PlaceFacts ==
  /\ \A x \in Roots : Index(x) \in 1..NRoots /\ NObjects + Index(x) = x
  /\ \A x \in Objects : Index(x) \in (NRoots + 1)..(NRoots + NObjects) /\ Index(x) - NRoots = x
  /\ \A x \in Holders : Index(x) \in 1..(NRoots + NObjects) /\ Place(Index(x)) = x /\ (Index(x) <= NRoots <=> x \in Roots)
  /\ \A j \in 1..(NRoots + NObjects) : Place(j) \in Holders /\ Index(Place(j)) = j /\ (j <= NRoots <=> Place(j) \in Roots)
  /\ \A j \in 1..NRoots : NObjects + j \in Roots /\ Index(NObjects + j) = j
  <1>1. NObjects \in Nat /\ NRoots \in Nat  BY HolderFacts
  <1>2. \A x \in Roots : Index(x) \in 1..NRoots /\ NObjects + Index(x) = x
    BY <1>1 DEF Index, Roots
  <1>3. \A x \in Objects : x \notin Roots  BY HolderFacts
  <1>4. \A x \in Objects : Index(x) \in (NRoots + 1)..(NRoots + NObjects) /\ Index(x) - NRoots = x
    <2>1. \A x \in Objects : Index(x) = NRoots + x  BY <1>3 DEF Index
    <2> QED  BY <1>1, <2>1 DEF Objects
  <1>5. \A x \in Holders : Index(x) \in 1..(NRoots + NObjects) /\ Place(Index(x)) = x /\ (Index(x) <= NRoots <=> x \in Roots)
    <2>1. ASSUME NEW x \in Roots
          PROVE  Index(x) \in 1..(NRoots + NObjects) /\ Place(Index(x)) = x /\ Index(x) <= NRoots
      <3>1. Index(x) \in 1..NRoots /\ NObjects + Index(x) = x  BY <1>2
      <3> QED  BY <1>1, <3>1 DEF Place
    <2>2. ASSUME NEW x \in Objects
          PROVE  Index(x) \in 1..(NRoots + NObjects) /\ Place(Index(x)) = x /\ ~(Index(x) <= NRoots)
      <3>1. Index(x) \in (NRoots + 1)..(NRoots + NObjects) /\ Index(x) - NRoots = x  BY <1>4
      <3> QED  BY <1>1, <3>1 DEF Place
    <2> QED  BY <1>3, <2>1, <2>2 DEF Holders
  <1>6. \A j \in 1..NRoots : NObjects + j \in Roots /\ Index(NObjects + j) = j
    <2> SUFFICES ASSUME NEW j \in 1..NRoots PROVE NObjects + j \in Roots /\ Index(NObjects + j) = j
      OBVIOUS
    <2>1. NObjects + j \in Roots  BY <1>1 DEF Roots
    <2>2. Index(NObjects + j) = (NObjects + j) - NObjects  BY <2>1 DEF Index
    <2>3. (NObjects + j) - NObjects = j  BY <1>1
    <2> QED  BY <2>1, <2>2, <2>3
  <1>7. \A j \in 1..(NRoots + NObjects) : Place(j) \in Holders /\ Index(Place(j)) = j /\ (j <= NRoots <=> Place(j) \in Roots)
    <2> SUFFICES ASSUME NEW j \in 1..(NRoots + NObjects)
                 PROVE  Place(j) \in Holders /\ Index(Place(j)) = j /\ (j <= NRoots <=> Place(j) \in Roots)
      OBVIOUS
    <2>1. CASE j <= NRoots
      <3>1. j \in 1..NRoots /\ Place(j) = NObjects + j  BY <1>1, <2>1 DEF Place
      <3> QED  BY <1>6, <2>1, <3>1 DEF Holders
    <2>2. CASE ~(j <= NRoots)
      <3>1. j - NRoots \in Objects /\ Place(j) = j - NRoots /\ NRoots + (j - NRoots) = j
        BY <1>1, <2>2 DEF Place, Objects
      <3>2. j - NRoots \notin Roots  BY <1>3, <3>1
      <3>3. Index(j - NRoots) = NRoots + (j - NRoots)  BY <3>2 DEF Index
      <3> QED  BY <2>2, <3>1, <3>2, <3>3 DEF Holders
    <2> QED  BY <2>1, <2>2
  <1> QED  BY <1>2, <1>4, <1>5, <1>6, <1>7

\* Changes of the phase that ask nothing new of the marker.
LEMMA PhaseOnlyStep ==
  ASSUME IndInv, StartIncrementalMark \/ RootsMarked \/ FinishIncrementalMark
  PROVE  IndInv'
  <1>1. /\ <<phase, phase'>> \in {<<"idle", "start">>, <<"start", "mark">>, <<"mark", "drain">>}
        /\ scan' \in {0, 1, scan} /\ barrier' = barrier /\ UNCHANGED progVars /\ UNCHANGED markVars
    BY DEF StartIncrementalMark, RootsMarked, FinishIncrementalMark, At
  <1>2. Becomes(Marker)  BY <1>1, MarkersUnchanged
  <1>3. ~collecting /\ ~collecting' /\ phase # "drain2" /\ phase' \in {"start", "mark", "drain"}
    BY <1>1 DEF collecting
  <1>4. ScanInv'
    <2>1. scan' \in 0..(NRoots + NObjects + 1)
      <3>1. scan \in 0..(NRoots + NObjects + 1)  BY MarkerNow DEF ScanInv
      <3> QED  BY <1>1, <3>1, MarkerNow
    <2> QED  BY <1>1, <1>3, <2>1, MarkerNow DEF ScanInv, Recovering, Phases, progVars
  <1>5. Excused \subseteq Excused'  BY <1>1 DEF Excused, Pending, Recovering
  <1>6. Tri(Marker, Excused')  BY <1>5, MarkerNow, TriMono
  <1>7. Good(Marker, barrier', ~collecting', phase' = "drain2")
    BY <1>1, <1>3, MarkerNow DEF Good, AliveItems
  <1> QED  BY <1>1, <1>2, <1>3, <1>4, <1>6, <1>7, CollectorStep, MarkerNow

\* A recovery that starts will see every holder again.
LEMMA StartRecoveryStep ==
  ASSUME IndInv, OverflowBeforeRoots \/ OverflowAfterRoots \/ OverflowInSweep
  PROVE  IndInv'
  <1> DEFINE n == [Marker EXCEPT !.overflow = FALSE]
  <1>1. /\ <<phase, phase'>> \in {<<"drain", "recover">>, <<"drain2", "recover2">>, <<"drain3", "recover3">>}
        /\ work = <<>> /\ overflow' = FALSE /\ scan' = 1
        /\ UNCHANGED <<progVars, bits, work, protected, sentinel, barrier>>
    BY DEF OverflowBeforeRoots, OverflowAfterRoots, OverflowInSweep, StartRecovery, At
  <1>2. /\ n \in Markers /\ n.bits = bits /\ n.work = work /\ n.overflow = FALSE
        /\ n.protected = protected /\ n.sentinel = sentinel
    BY MarkerNow DEF Markers
  <1> HIDE DEF n
  <1>3. Becomes(n)  BY <1>1, <1>2 DEF Becomes
  <1>4. collecting' = collecting /\ phase' \in {"recover", "recover2", "recover3"}
    BY <1>1 DEF collecting
  <1>5. ScanInv'
    <2>1. scan' \in 0..(NRoots + NObjects + 1)  BY <1>1, MarkerNow
    <2> QED  BY <1>1, <1>4, <2>1, MarkerNow DEF ScanInv, Phases, progVars
  <1>6. Good(n, barrier', ~collecting', phase' = "drain2")
    <2>1. Good(Marker, barrier, ~collecting, phase = "drain2")  BY MarkerNow
    <2>2. RootItems(n)  BY <1>2, <2>1, MarkerNow, RootItemsSame DEF Good
    <2>3. Range(n.work) = {}
      <3>1. n.work \in Seq(Items)  BY <1>2, MarkerParts
      <3> QED  BY <1>1, <1>2, <3>1, RangeFacts
    <2>4. AliveItems(n, phase' = "drain2")  BY <2>3 DEF AliveItems
    <2>5. Queue(n, barrier') /\ (~collecting' => Exact(n, barrier'))
      BY <1>1, <1>2, <1>4, <2>1, MarkerNow DEF Good, Queue, Exact
    <2> QED  BY <1>2, <2>2, <2>4, <2>5 DEF Good
  <1>7. Tri(n, Excused')
    <2>1. \A x \in Holders : Pending(x)'
      BY <1>1, <1>4, PlaceFacts DEF Pending, Recovering
    <2> QED  BY <2>1 DEF Tri, Excused
  <1>8. collecting' => barrier' = <<>> /\ \A o \in stack : n.bits[o] = "marked"
    BY <1>1, <1>2, <1>4, MarkerNow DEF PhaseInv
  <1> QED  BY <1>1, <1>3, <1>4, <1>5, <1>6, <1>7, <1>8, CollectorStep, MarkerNow

\* A scan that has seen every holder excuses none of them any more.
LEMMA ScannedAll ==
  ASSUME IndInv, scan > NRoots + NObjects \/ (phase = "roots" /\ scan > NRoots),
         phase \in {"roots", "recover2", "recover3"}
  PROVE  Tri(Marker, {})
  <1>1. \A x \in Holders : ~Pending(x)
    <2> SUFFICES ASSUME NEW x \in Holders PROVE ~Pending(x)  OBVIOUS
    <2>1. Index(x) \in 1..(NRoots + NObjects) /\ (x \in Roots => Index(x) \in 1..NRoots)  BY PlaceFacts
    <2>2. CASE phase = "roots" /\ scan > NRoots
      <3>1. x \in Roots => ~(scan <= Index(x))  BY <2>1, <2>2, MarkerNow
      <3> QED  BY <2>2, <3>1 DEF Pending, Recovering
    <2>3. CASE scan > NRoots + NObjects
      <3>1. ~(scan <= Index(x))  BY <2>1, <2>3, MarkerNow
      <3> QED  BY <3>1 DEF Pending, Recovering
    <2> QED  BY <2>2, <2>3
  <1>2. Excused = {}  BY <1>1 DEF Excused
  <1> QED  BY <1>2, MarkerNow

LEMMA RecoveredInSweepStep ==
  ASSUME IndInv, RecoveredInSweep
  PROVE  IndInv'
  <1>1. /\ phase = "recover3" /\ phase' = "drain3" /\ scan > NRoots + NObjects /\ scan' = 0
        /\ UNCHANGED <<progVars, markVars, barrier>>
    BY DEF RecoveredInSweep, Recovered, At
  <1>2. Becomes(Marker)  BY <1>1, MarkersUnchanged
  <1>3. collecting /\ collecting'  BY <1>1 DEF collecting
  <1>4. ScanInv'  BY <1>1, MarkerNow DEF ScanInv, Recovering, Phases, progVars
  <1>5. Tri(Marker, Excused')
    <2>1. Tri(Marker, {})  BY <1>1, ScannedAll
    <2> QED  BY <2>1, TriMono
  <1>6. Good(Marker, barrier', ~collecting', phase' = "drain2")
    BY <1>1, <1>3, MarkerNow DEF Good, AliveItems
  <1>7. barrier' = <<>> /\ \A o \in stack : Marker.bits[o] = "marked"
    BY <1>1, <1>3, MarkerNow DEF PhaseInv
  <1> QED  BY <1>1, <1>2, <1>4, <1>5, <1>6, <1>7, CollectorStep, MarkerNow

\* Outside the places of a scan nothing is excused.
LEMMA NoneExcused ==
  ASSUME phase \in {"drain2", "presweep", "drain3"}
  PROVE  Excused = {}
  BY DEF Excused, Pending, Recovering

\* When the sweep starts, all that the stack holds is marked.
LEMMA StartSweepStep ==
  ASSUME IndInv, StartSweep
  PROVE  IndInv'
  <1>1. /\ phase = "drain2" /\ phase' = "presweep" /\ work = <<>> /\ ~overflow /\ barrier' = <<>>
        /\ UNCHANGED <<progVars, markVars, scan>>
    BY DEF StartSweep, At
  <1>2. Becomes(Marker)  BY <1>1, MarkersUnchanged
  <1>3. collecting' /\ ~collecting  BY <1>1 DEF collecting
  <1>4. barrier = <<>>  BY <1>1, MarkerNow DEF PhaseInv
  <1>5. ScanInv'  BY <1>1, <1>4, MarkerNow DEF ScanInv, Recovering, Phases, progVars
  <1>6. Tri(Marker, Excused')
    <2>1. Tri(Marker, {})  BY <1>1, MarkerNow, NoneExcused
    <2> QED  BY <2>1, TriMono
  <1>7. Range(work) = {} /\ Range(barrier) = {}
    <2>1. Marker.work \in Seq(Items)  BY MarkerNow, MarkerParts
    <2>2. barrier \in Seq(Objects)  BY MarkerNow DEF ScanInv
    <2> QED  BY <1>1, <1>4, <2>1, <2>2, MarkerNow, RangeFacts
  <1>8. Good(Marker, barrier', ~collecting', phase' = "drain2")
    BY <1>1, <1>3, <1>4, <1>7, MarkerNow DEF Good, AliveItems
  <1>9. \A o \in stack : Marker.bits[o] = "marked"
    <2> SUFFICES ASSUME NEW o \in stack PROVE bits[o] = "marked"  BY MarkerNow
    <2>1. o \in Objects /\ bits[o] \in Colours  BY MarkerNow, MarkerParts DEF HeapInv
    <2>2. bits[o] # "white"  BY <1>1, <1>7, MarkerNow DEF PhaseInv, StackTri
    <2>3. bits[o] # "queued"  BY <1>7, <2>1, MarkerNow DEF Good, Queue
    <2> QED  BY <2>1, <2>2, <2>3 DEF Colours
  <1> QED  BY <1>1, <1>2, <1>5, <1>6, <1>8, <1>9, CollectorStep, MarkerNow

LEMMA EndPresweepStep ==
  ASSUME IndInv, EndPresweep
  PROVE  IndInv'
  <1> DEFINE n == [Marker EXCEPT !.overflow = FALSE]
  <1>1. /\ phase = "presweep" /\ phase' = (IF overflow THEN "recover3" ELSE "drain3")
        /\ overflow' = FALSE /\ scan' = (IF overflow THEN 1 ELSE 0)
        /\ UNCHANGED <<progVars, bits, work, protected, sentinel, barrier>>
    BY DEF EndPresweep, At
  <1>2. /\ n \in Markers /\ n.bits = bits /\ n.work = work /\ n.overflow = FALSE
        /\ n.protected = protected /\ n.sentinel = sentinel
    BY MarkerNow DEF Markers
  <1> HIDE DEF n
  <1>3. Becomes(n)  BY <1>1, <1>2 DEF Becomes
  <1>4. collecting /\ collecting' /\ phase' \in {"recover3", "drain3"}  BY <1>1 DEF collecting
  <1>5. ScanInv'
    <2>1. scan' \in 0..(NRoots + NObjects + 1)  BY <1>1, MarkerNow
    <2> QED  BY <1>1, <1>4, <2>1, MarkerNow DEF ScanInv, Phases, Recovering, progVars
  <1>6. Good(n, barrier', ~collecting', phase' = "drain2")
    <2>1. Good(Marker, barrier, ~collecting, phase = "drain2")  BY MarkerNow
    <2>2. RootItems(n)  BY <1>2, <2>1, MarkerNow, RootItemsSame DEF Good
    <2>3. AliveItems(n, phase' = "drain2")  BY <1>1, <1>2, <1>4, <2>1, MarkerNow DEF Good, AliveItems
    <2>4. Queue(n, barrier')  BY <1>1, <1>2, <2>1, MarkerNow DEF Good, Queue
    <2> QED  BY <1>2, <1>4, <2>2, <2>3, <2>4 DEF Good
  <1>7. Tri(n, Excused')
    <2>1. CASE overflow
      <3>1. \A x \in Holders : Pending(x)'  BY <1>1, <2>1, PlaceFacts DEF Pending, Recovering
      <3> QED  BY <3>1 DEF Tri, Excused
    <2>2. CASE ~overflow
      <3>1. Grows(Marker, n, {})  BY <1>2, <2>2, MarkerNow, GrowsRefl
      <3>2. Tri(Marker, {})  BY <1>1, MarkerNow, NoneExcused
      <3>3. Tri(n, {})  BY <3>1, <3>2, MarkerNow, GrowsTri
      <3> QED  BY <3>3, TriMono
    <2> QED  BY <2>1, <2>2
  <1>8. barrier' = <<>> /\ \A o \in stack : n.bits[o] = "marked"
    BY <1>1, <1>2, <1>4, MarkerNow DEF PhaseInv
  <1> QED  BY <1>1, <1>3, <1>4, <1>5, <1>6, <1>7, <1>8, CollectorStep, MarkerNow
-----------------------------------------------------------------------------
\* Of the barrier stack b the objects w became the mark stack s, and c is left.
Moves(b, s, w, c) ==
    /\ w \in Seq(Objects) /\ c \in Seq(Objects)
    /\ Len(s) = Len(w) /\ \A j \in 1..Len(w) : s[j] = Obj(w[j])
    /\ \A i, j \in 1..Len(w) : w[i] = w[j] => i = j
    /\ \A i, j \in 1..Len(c) : c[i] = c[j] => i = j
    /\ Range(w) \cup Range(c) = Range(b) /\ Range(w) \cap Range(c) = {}

\* Objects that move to an empty mark stack: nothing is lost, nothing is there twice.
LEMMA MoveGood ==
  ASSUME NEW m, NEW b, NEW k, Good(m, b, TRUE, k), m.work = <<>>, NEW n \in Markers,
         n.bits = m.bits, n.sentinel = m.sentinel, Range(b) \subseteq alive,
         NEW w, NEW c, Moves(b, n.work, w, c)
  PROVE  Good(n, c, TRUE, k)
  <1>0. /\ w \in Seq(Objects) /\ c \in Seq(Objects)
        /\ Len(n.work) = Len(w) /\ \A j \in 1..Len(w) : n.work[j] = Obj(w[j])
        /\ \A i, j \in 1..Len(w) : w[i] = w[j] => i = j
        /\ \A i, j \in 1..Len(c) : c[i] = c[j] => i = j
        /\ Range(w) \cup Range(c) = Range(b) /\ Range(w) \cap Range(c) = {}
    BY DEF Moves
  <1>1. /\ m \in Markers /\ m.work \in Seq(Items) /\ n.work \in Seq(Items)
        /\ m.sentinel \in [Roots -> 0..MarkCap]
    BY MarkerParts DEF Good
  <1>2. Len(m.work) = 0 /\ Range(m.work) = {}  BY <1>1, RangeFacts
  <1>3. \A o : Obj(o) \in Range(n.work) <=> o \in Range(w)
    <2>1. ASSUME NEW o, Obj(o) \in Range(n.work) PROVE o \in Range(w)
      <3>1. PICK j \in 1..Len(n.work) : n.work[j] = Obj(o)  BY <1>1, <2>1, RangeFacts
      <3>2. j \in 1..Len(w) /\ w[j] = o  BY <1>0, <3>1, ItemFacts
      <3> QED  BY <1>0, <3>2, RangeFacts
    <2>2. ASSUME NEW o, o \in Range(w) PROVE Obj(o) \in Range(n.work)
      <3>1. PICK j \in 1..Len(w) : w[j] = o  BY <1>0, <2>2, RangeFacts
      <3>2. j \in 1..Len(n.work) /\ n.work[j] = Obj(o)  BY <1>0, <3>1
      <3> QED  BY <1>1, <3>2, RangeFacts
    <2> QED  BY <2>1, <2>2
  <1>4. \A t \in Range(n.work) : \E o : t = Obj(o)
    <2> SUFFICES ASSUME NEW t \in Range(n.work) PROVE \E o : t = Obj(o)  OBVIOUS
    <2>1. PICK j \in 1..Len(n.work) : n.work[j] = t  BY <1>1, RangeFacts
    <2>2. t = Obj(w[j])  BY <1>0, <2>1
    <2> QED  BY <2>2
  <1>5. \A r \in Roots : m.sentinel[r] = 0
    <2> SUFFICES ASSUME NEW r \in Roots, m.sentinel[r] # 0 PROVE FALSE  OBVIOUS
    <2>1. m.sentinel[r] \in 1..Len(m.work)  BY DEF Good, RootItems
    <2> QED  BY <1>2, <2>1
  <1>6. RootItems(n)
    <2>1. \A j \in 1..Len(n.work), r \in Roots : n.work[j] # RootProt(r) /\ n.work[j] # Chunk(r)
      <3>1. \A j \in 1..Len(n.work) : n.work[j] = Obj(w[j])  BY <1>0
      <3> QED  BY <3>1, ItemFacts
    <2> QED  BY <1>5, <2>1 DEF RootItems
  <1>7. AliveItems(n, k)
    <2>1. \A o \in Objects : Obj(o) \in Range(n.work) => o \in alive  BY <1>0, <1>3
    <2>2. \A x : StackMem(x) \notin Range(n.work) /\ Chunk(x) \notin Range(n.work) /\ RootProt(x) \notin Range(n.work)
      BY <1>4, ItemFacts
    <2> QED  BY <2>1, <2>2 DEF AliveItems
  <1>8. \A o \in Objects : Obj(o) \notin Range(m.work)  BY <1>2
  <1>9. Queue(n, c)  BY <1>0, <1>3, <1>8 DEF Good, Queue
  <1>10. Exact(n, c)
    <2>1. Exact(m, b)  BY DEF Good
    <2>2. \A o \in Objects, i, j \in 1..Len(n.work) : n.work[i] = Obj(o) /\ n.work[j] = Obj(o) => i = j
      <3> SUFFICES ASSUME NEW o \in Objects, NEW i \in 1..Len(n.work), NEW j \in 1..Len(n.work),
                          n.work[i] = Obj(o), n.work[j] = Obj(o)
                   PROVE  i = j
        OBVIOUS
      <3>1. i \in 1..Len(w) /\ j \in 1..Len(w) /\ Obj(w[i]) = Obj(o) /\ Obj(w[j]) = Obj(o)  BY <1>0
      <3>2. \A y : Obj(y) = Obj(o) => y = o  BY ItemFacts
      <3> QED  BY <1>0, <3>1, <3>2
    <2> QED  BY <1>0, <1>3, <2>1, <2>2 DEF Exact
  <1> QED  BY <1>6, <1>7, <1>9, <1>10 DEF Good

\* The barrier stack moves to the mark stack as far as there is room.
LEMMA FlushFacts ==
  ASSUME IndInv, ~collecting, work = <<>>, NEW k, Good(Marker, barrier, TRUE, k)
  PROVE  LET n == FlushBarrierWork(Marker)
             c == BarrierLeft(Marker)
         IN  /\ Good(n, c, TRUE, k) /\ Grows(Marker, n, {}) /\ (c = <<>> \/ n.overflow)
             /\ c \in Seq(Objects) /\ Len(c) <= BarrierCap /\ Range(c) \subseteq Range(barrier)
  <1> DEFINE n == FlushBarrierWork(Marker)
             c == BarrierLeft(Marker)
             moved == [i \in DOMAIN barrier |-> Obj(barrier[i])]
  <1>1. /\ Marker \in Markers /\ Marker.work = <<>> /\ Marker.work \in Seq(Items) /\ Len(Marker.work) = 0
        /\ MarkCap \in Nat \ {0}
    BY MarkerNow, MarkerParts, HolderFacts, EmptySeq
  <1>2. barrier \in Seq(Objects) /\ Len(barrier) <= BarrierCap /\ Range(barrier) \subseteq alive /\ BarrierCap \in Nat
    BY MarkerNow, HolderFacts DEF ScanInv
  <1>3. Len(barrier) \in Nat /\ DOMAIN barrier = 1..Len(barrier) /\ \A j \in 1..Len(barrier) : barrier[j] \in Objects
    BY <1>2, RangeFacts
  <1>4. \A i, j \in 1..Len(barrier) : barrier[i] = barrier[j] => i = j  BY DEF Good, Exact
  <1>5. moved \in Seq(Items) /\ Len(moved) = Len(barrier)
        /\ \A j \in 1..Len(barrier) : moved[j] = Obj(barrier[j])
    <2>1. moved \in [1..Len(barrier) -> Items]  BY <1>3 DEF Items
    <2>2. moved \in Seq(Items)  BY <1>3, <2>1, SeqDef
    <2>3. DOMAIN moved = 1..Len(barrier)  BY <1>3
    <2> QED  BY <1>3, <2>2, <2>3, LenProperties
  <1>6. <<>> \in Seq(Objects) /\ Len(<<>>) = 0 /\ Range(<<>>) = {}
    <2>1. <<>> \in Seq(Objects) /\ Len(<<>>) = 0  BY EmptySeq
    <2> QED  BY <2>1, RangeFacts
  <1> HIDE DEF moved
  <1>7. CASE Fits(Marker)
    <2>1. n = [Marker EXCEPT !.work = moved \o @] /\ c = <<>>
      BY <1>7 DEF FlushBarrierWork, BarrierLeft, moved
    <2>2. moved \o Marker.work = moved  BY <1>1, <1>5, ConcatEmptySeq
    <2>3. Len(moved) <= MarkCap  BY <1>1, <1>3, <1>5, <1>7 DEF Fits
    <2>4. /\ n \in Markers /\ n.bits = Marker.bits /\ n.sentinel = Marker.sentinel /\ n.work = moved
          /\ n.overflow = Marker.overflow
      BY <1>1, <1>5, <2>1, <2>2, <2>3 DEF Markers
    <2> HIDE DEF n, c
    <2>5. Range(Marker.work) = {}  BY <1>1, <1>6
    <2>6. Grows(Marker, n, {})  BY <2>4, <2>5 DEF Grows
    <2>7. Range(barrier) \cup Range(<<>>) = Range(barrier) /\ Range(barrier) \cap Range(<<>>) = {}
      BY <1>6
    <2>8. Good(n, c, TRUE, k)
      <3>1. \A i, j \in 1..Len(<<>>) : <<>>[i] = <<>>[j] => i = j  BY <1>6
      <3>2. Len(n.work) = Len(barrier) /\ \A j \in 1..Len(barrier) : n.work[j] = Obj(barrier[j])
        BY <1>5, <2>4
      <3>3. Moves(barrier, n.work, barrier, <<>>)  BY <1>2, <1>4, <1>6, <2>7, <3>1, <3>2 DEF Moves
      <3>4. Good(n, <<>>, TRUE, k)  BY <1>1, <1>2, <2>4, <3>3, MoveGood
      <3> QED  BY <2>1, <3>4
    <2>9. c \in Seq(Objects) /\ Range(c) \subseteq Range(barrier)  BY <1>6, <2>1
    <2>10. Len(c) <= BarrierCap
      <3>1. Len(c) = 0  BY <1>6, <2>1
      <3> QED  BY <1>2, <3>1
    <2> QED  BY <2>1, <2>6, <2>8, <2>9, <2>10 DEF n, c
  <1>8. CASE ~Fits(Marker) /\ OneFits(Marker)
    <2>1. n = [Marker EXCEPT !.work = Append(@, Last(moved)), !.overflow = TRUE] /\ c = Front(barrier)
          /\ barrier # <<>>
      BY <1>8 DEF FlushBarrierWork, BarrierLeft, moved, OneFits
    <2>2. /\ c \in Seq(Objects) /\ Len(c) = Len(barrier) - 1 /\ Len(barrier) \in Nat \ {0}
          /\ \A j \in 1..(Len(barrier) - 1) : c[j] = barrier[j]
          /\ Last(barrier) = barrier[Len(barrier)] /\ Last(barrier) \in Objects
          /\ Range(barrier) = Range(c) \cup {Last(barrier)}
      BY <1>2, <2>1, FrontFacts
    <2>3. Len(barrier) \in 1..Len(barrier)  BY <2>2
    <2>4. Last(moved) = Obj(Last(barrier)) /\ Last(moved) \in Items
      BY <1>5, <2>2, <2>3 DEF Last, Items
    <2>5. /\ Append(Marker.work, Last(moved)) \in Seq(Items) /\ Len(Append(Marker.work, Last(moved))) = 1
          /\ Append(Marker.work, Last(moved))[1] = Last(moved)
      <3>1. /\ Append(Marker.work, Last(moved)) \in Seq(Items)
            /\ Len(Append(Marker.work, Last(moved))) = Len(Marker.work) + 1
            /\ \A j \in 1..(Len(Marker.work) + 1) : Append(Marker.work, Last(moved))[j] =
                  IF j = Len(Marker.work) + 1 THEN Last(moved) ELSE Marker.work[j]
        BY <1>1, <2>4, AppendFacts
      <3> QED  BY <1>1, <3>1
    <2>6. 1 <= MarkCap  BY <1>1
    <2>7. /\ n \in Markers /\ n.bits = Marker.bits /\ n.sentinel = Marker.sentinel
          /\ n.work = Append(Marker.work, Last(moved)) /\ n.overflow
      BY <1>1, <2>1, <2>5, <2>6 DEF Markers
    <2> DEFINE w == <<Last(barrier)>>
    <2> HIDE DEF n, c
    <2>8. w \in Seq(Objects) /\ Len(w) = 1 /\ w[1] = Last(barrier) /\ Range(w) = {Last(barrier)}
      <3>1. w \in Seq(Objects) /\ Len(w) = 1 /\ w[1] = Last(barrier)  BY <2>2
      <3>2. \A j \in 1..Len(w) : j = 1  BY <3>1
      <3>3. 1 \in 1..Len(w)  BY <3>1
      <3> HIDE DEF w
      <3> QED  BY <3>1, <3>2, <3>3, RangeFacts
    <2> HIDE DEF w
    <2>9. \A j \in 1..Len(c) : c[j] # Last(barrier)
      <3>1. \A j \in 1..Len(c) : j \in 1..Len(barrier) /\ j # Len(barrier) /\ c[j] = barrier[j]  BY <2>2
      <3> QED  BY <1>4, <2>2, <2>3, <3>1
    <2>10. Last(barrier) \notin Range(c)  BY <2>2, <2>9, RangeFacts
    <2>11. \A i, j \in 1..Len(c) : c[i] = c[j] => i = j
      <3>1. \A j \in 1..Len(c) : j \in 1..Len(barrier) /\ c[j] = barrier[j]  BY <2>2
      <3> QED  BY <1>4, <3>1
    <2>12. Good(n, c, TRUE, k)
      <3>1. \A i, j \in 1..Len(w) : w[i] = w[j] => i = j  BY <2>8
      <3>2. Len(n.work) = Len(w) /\ \A j \in 1..Len(w) : n.work[j] = Obj(w[j])
        BY <2>4, <2>5, <2>7, <2>8
      <3>3. Range(w) \cup Range(c) = Range(barrier) /\ Range(w) \cap Range(c) = {}
        BY <2>2, <2>8, <2>10
      <3>4. Moves(barrier, n.work, w, c)  BY <2>2, <2>8, <2>11, <3>1, <3>2, <3>3 DEF Moves
      <3> QED  BY <1>1, <1>2, <2>7, <3>4, MoveGood
    <2>13. Grows(Marker, n, {})
      <3>1. Range(Marker.work) = {}  BY <1>1, <1>6
      <3> QED  BY <2>7, <3>1 DEF Grows
    <2>14. Len(c) <= BarrierCap  BY <1>2, <2>2
    <2> QED  BY <2>2, <2>7, <2>12, <2>13, <2>14 DEF n, c
  <1>9. CASE ~Fits(Marker) /\ ~OneFits(Marker)
    <2>1. n = [Marker EXCEPT !.overflow = TRUE] /\ c = barrier
      BY <1>9 DEF FlushBarrierWork, BarrierLeft
    <2>2. n \in Markers /\ n.bits = Marker.bits /\ n.sentinel = Marker.sentinel /\ n.work = Marker.work /\ n.overflow
      BY <1>1, <2>1 DEF Markers
    <2> HIDE DEF n, c
    <2>3. Good(n, c, TRUE, k)
      <3>1. RootItems(n)  BY <2>2, RootItemsSame DEF Good
      <3> QED  BY <2>1, <2>2, <3>1 DEF Good, AliveItems, Queue, Exact
    <2>4. Grows(Marker, n, {})  BY <2>2, GrowsRefl
    <2> QED  BY <1>2, <2>1, <2>2, <2>3, <2>4 DEF n, c
  <1> QED  BY <1>7, <1>8, <1>9

\* The native stack goes on the mark stack as one item.
LEMMA PushStackFacts ==
  ASSUME NEW m, NEW b, NEW s, Good(m, b, s, TRUE), stack \subseteq Objects
  PROVE  LET n == PushStackMemory(m)
         IN  Good(n, b, s, TRUE) /\ Grows(m, n, {}) /\ StackTri(n)
  <1> DEFINE n == PushStackMemory(m)
  <1>1. CASE stack = {}
    <2>1. n = m  BY <1>1 DEF PushStackMemory
    <2>2. Grows(m, m, {})  BY GrowsRefl
    <2>3. StackTri(m)  BY <1>1 DEF StackTri
    <2> QED  BY <2>1, <2>2, <2>3
  <1>2. CASE stack # {}
    <2>1. n = Push(m, StackMem(stack))  BY <1>2 DEF PushStackMemory
    <2>2. StackMem(stack) \in Items  BY DEF Items
    <2>3. Good(n, b, s, TRUE) /\ Grows(m, n, {}) /\ (n.overflow \/ StackMem(stack) \in Range(n.work))
      <3>1. \A S \in SUBSET Objects : StackMem(stack) = StackMem(S) => TRUE /\ S \subseteq stack
        BY ItemFacts
      <3>2. \A x : StackMem(stack) # Obj(x) /\ StackMem(stack) # Chunk(x) /\ StackMem(stack) # RootProt(x)
        BY ItemFacts
      <3> QED  BY <2>1, <2>2, <3>1, <3>2, PushGood
    <2> HIDE DEF n
    <2>4. StackTri(n)  BY <2>3 DEF StackTri
    <2> QED  BY <2>3, <2>4 DEF n
  <1> QED  BY <1>1, <1>2

\* An empty mark stack holds no stack memory, whatever it may hold next.
LEMMA EmptyWorkGood ==
  ASSUME NEW m, NEW b, NEW s, NEW k, NEW l, Good(m, b, s, k), m.work = <<>>
  PROVE  Good(m, b, s, l)
  <1>1. m.work \in Seq(Items)  BY MarkerParts DEF Good
  <1>2. Range(m.work) = {}  BY <1>1, RangeFacts
  <1> QED  BY <1>2 DEF Good, AliveItems

\* The three places of FinishIncrementalMark that flush the barrier stack.
LEMMA RecoveredBeforeRootsStep ==
  ASSUME IndInv, RecoveredBeforeRoots \/ FlushAndMarkRoots
  PROVE  IndInv'
  <1> DEFINE n == FlushBarrierWork(Marker)
             c == BarrierLeft(Marker)
  <1>1. /\ \/ phase = "recover" /\ phase' = "drain" /\ scan' = 0
           \/ phase = "drain" /\ phase' = "roots" /\ scan' = 1
        /\ work = <<>> /\ Becomes(n) /\ barrier' = c /\ UNCHANGED progVars
    BY DEF RecoveredBeforeRoots, FlushAndMarkRoots, Recovered, At
  <1>2. ~collecting /\ ~collecting' /\ phase # "drain2" /\ phase' \in {"drain", "roots"}
    BY <1>1 DEF collecting
  <1>3. Good(Marker, barrier, TRUE, phase' = "drain2")
    <2>1. Good(Marker, barrier, TRUE, phase = "drain2")  BY <1>2, MarkerNow DEF Good
    <2> QED  BY <1>1, <2>1, EmptyWorkGood, MarkerNow
  <1>4. /\ Good(n, c, TRUE, phase' = "drain2") /\ Grows(Marker, n, {}) /\ (c = <<>> \/ n.overflow)
        /\ c \in Seq(Objects) /\ Len(c) <= BarrierCap /\ Range(c) \subseteq Range(barrier)
    BY <1>1, <1>2, <1>3, FlushFacts
  <1> HIDE DEF n, c
  <1>5. Good(n, barrier', ~collecting', phase' = "drain2")  BY <1>1, <1>2, <1>4 DEF Good
  <1>6. ScanInv'
    <2>1. barrier' \in Seq(Objects) /\ Len(barrier') <= BarrierCap /\ Range(barrier') \subseteq alive'
      BY <1>1, <1>4, MarkerNow DEF ScanInv, progVars
    <2>2. scan' \in 0..(NRoots + NObjects + 1)  BY <1>1, MarkerNow
    <2> QED  BY <1>2, <2>1, <2>2 DEF ScanInv, Recovering, Phases
  <1>7. Tri(n, Excused')
    <2>1. Tri(n, Excused)  BY <1>4, MarkerNow, GrowsTri
    <2>2. \A x \in Holders : Pending(x) => x \in Roots
      <3> SUFFICES ASSUME NEW x \in Holders, Pending(x), x \notin Roots PROVE FALSE  OBVIOUS
      <3>1. phase = "recover" /\ scan <= Index(x)  BY <1>1 DEF Pending, Recovering
      <3>2. scan > NRoots + NObjects  BY <1>1, <3>1 DEF RecoveredBeforeRoots, FlushAndMarkRoots, Recovered, At
      <3>3. Index(x) \in 1..(NRoots + NObjects)  BY PlaceFacts
      <3> QED  BY <3>1, <3>2, <3>3, MarkerNow
    <2>3. \A x \in Roots : Pending(x)'
      <3>1. \A x \in Roots : 1 <= Index(x)  BY PlaceFacts
      <3> QED  BY <1>1, <3>1 DEF Pending
    <2>4. Excused \subseteq Excused'  BY <2>2, <2>3 DEF Excused
    <2> QED  BY <2>1, <2>4, TriMono
  <1> QED  BY <1>1, <1>2, <1>4, <1>5, <1>6, <1>7, CollectorStep, MarkerNow

LEMMA MarkQueueAndStackStep ==
  ASSUME IndInv, MarkQueueAndStack
  PROVE  IndInv'
  <1> DEFINE n == PushStackMemory(Marker)
  <1>1. /\ phase = "roots" /\ phase' = "drain2" /\ scan > NRoots /\ scan' = 0
        /\ Becomes(n) /\ barrier' = barrier /\ UNCHANGED progVars
    BY DEF MarkQueueAndStack, At
  <1>2. ~collecting /\ ~collecting'  BY <1>1 DEF collecting
  <1>3. Good(Marker, barrier, TRUE, TRUE)  BY <1>2, MarkerNow DEF Good, AliveItems
  <1>4. Good(n, barrier, TRUE, TRUE) /\ Grows(Marker, n, {}) /\ StackTri(n)
    BY <1>3, MarkerNow, PushStackFacts DEF HeapInv
  <1> HIDE DEF n
  <1>5. Good(n, barrier', ~collecting', phase' = "drain2")  BY <1>1, <1>2, <1>4 DEF Good, AliveItems
  <1>6. ScanInv'  BY <1>1, MarkerNow DEF ScanInv, Recovering, Phases, progVars
  <1>7. Tri(n, Excused')
    <2>1. Tri(Marker, {})  BY <1>1, ScannedAll
    <2>2. Tri(n, {})  BY <1>4, <2>1, MarkerNow, GrowsTri
    <2> QED  BY <2>2, TriMono
  <1>8. barrier' = <<>> \/ n.overflow  BY <1>1, <1>4, MarkerNow DEF PhaseInv, Grows
  <1> QED  BY <1>1, <1>2, <1>4, <1>5, <1>6, <1>7, <1>8, CollectorStep, MarkerNow

LEMMA RecoveredAfterRootsStep ==
  ASSUME IndInv, RecoveredAfterRoots
  PROVE  IndInv'
  <1> DEFINE q == FlushBarrierWork(Marker)
             c == BarrierLeft(Marker)
             n == PushStackMemory(q)
  <1>1. /\ phase = "recover2" /\ phase' = "drain2" /\ scan > NRoots + NObjects /\ scan' = 0
        /\ work = <<>> /\ Becomes(n) /\ barrier' = c /\ UNCHANGED progVars
    BY DEF RecoveredAfterRoots, Recovered, At
  <1>2. ~collecting /\ ~collecting'  BY <1>1 DEF collecting
  <1>3. Good(Marker, barrier, TRUE, TRUE)  BY <1>2, MarkerNow DEF Good, AliveItems
  <1>4. /\ Good(q, c, TRUE, TRUE) /\ Grows(Marker, q, {}) /\ (c = <<>> \/ q.overflow)
        /\ c \in Seq(Objects) /\ Len(c) <= BarrierCap /\ Range(c) \subseteq Range(barrier)
    BY <1>1, <1>2, <1>3, FlushFacts
  <1> HIDE DEF q, c
  <1>5. Good(n, c, TRUE, TRUE) /\ Grows(q, n, {}) /\ StackTri(n)
    BY <1>4, MarkerNow, PushStackFacts DEF HeapInv
  <1> HIDE DEF n
  <1>6. Good(n, barrier', ~collecting', phase' = "drain2")  BY <1>1, <1>2, <1>5 DEF Good, AliveItems
  <1>7. ScanInv'
    <2>1. barrier' \in Seq(Objects) /\ Len(barrier') <= BarrierCap /\ Range(barrier') \subseteq alive'
      BY <1>1, <1>4, MarkerNow DEF ScanInv, progVars
    <2>2. scan' \in 0..(NRoots + NObjects + 1)  BY <1>1, MarkerNow
    <2> QED  BY <1>1, <2>1, <2>2 DEF ScanInv, Recovering, Phases
  <1>8. Tri(n, Excused')
    <2>1. Tri(Marker, {})  BY <1>1, ScannedAll
    <2>2. Grows(Marker, n, {})  BY <1>4, <1>5, GrowsTrans
    <2>3. Tri(n, {})  BY <2>1, <2>2, MarkerNow, GrowsTri
    <2> QED  BY <2>3, TriMono
  <1>9. barrier' = <<>> \/ n.overflow  BY <1>1, <1>4, <1>5 DEF Grows
  <1> QED  BY <1>1, <1>2, <1>5, <1>6, <1>7, <1>8, <1>9, CollectorStep, MarkerNow

\* The first elements of a sequence.
LEMMA PrefixFacts ==
  ASSUME NEW S, NEW s \in Seq(S), NEW k \in Nat, k <= Len(s)
  PROVE  /\ SubSeq(s, 1, k) \in Seq(S) /\ Len(SubSeq(s, 1, k)) = k
         /\ \A i \in 1..k : SubSeq(s, 1, k)[i] = s[i]
  <1>1. \A i \in 1..k : s[i] \in S
    <2>1. \A i \in 1..k : i \in 1..Len(s)  BY RangeFacts
    <2> QED  BY <2>1, ElementOfSeq
  <1>2. /\ SubSeq(s, 1, k) \in Seq(S)
        /\ Len(SubSeq(s, 1, k)) = IF 1 <= k THEN k - 1 + 1 ELSE 0
        /\ \A i \in 1..(k - 1 + 1) : SubSeq(s, 1, k)[i] = s[1 + i - 1]
    BY <1>1, SubSeqProperties
  <1>3. k - 1 + 1 = k /\ (IF 1 <= k THEN k - 1 + 1 ELSE 0) = k /\ \A i \in 1..k : 1 + i - 1 = i
    OBVIOUS
  <1> QED  BY <1>2, <1>3

\* The segment below the top of the barrier stack becomes the mark stack.
LEMMA CheckBarrierWorkStep ==
  ASSUME IndInv, CheckBarrierWork
  PROVE  IndInv'
  <1> DEFINE L == Len(barrier)
             x == barrier[L - 1]
             w == <<x>>
             h == SubSeq(barrier, 1, L - 2)
             c == Append(h, Last(barrier))
             n == [Marker EXCEPT !.work = <<Obj(x)>>]
  <1>1. /\ phase = "mark" /\ phase' = "mark" /\ work = <<>> /\ L > 1 /\ scan' = scan
        /\ work' = <<Obj(x)>> /\ barrier' = c
        /\ UNCHANGED <<progVars, bits, overflow, protected, sentinel>>
    BY DEF CheckBarrierWork
  <1>2. ~collecting /\ ~collecting'  BY <1>1 DEF collecting
  <1>3. /\ barrier \in Seq(Objects) /\ L <= BarrierCap /\ Range(barrier) \subseteq alive /\ L \in Nat
        /\ BarrierCap \in Nat /\ \A j \in 1..L : barrier[j] \in Objects /\ barrier[j] \in Range(barrier)
    <2>1. barrier \in Seq(Objects) /\ L <= BarrierCap /\ Range(barrier) \subseteq alive
      BY MarkerNow DEF ScanInv
    <2> QED  BY <2>1, HolderFacts, RangeFacts
  <1>4. \A i, j \in 1..L : barrier[i] = barrier[j] => i = j
    <2>1. Exact(Marker, barrier)  BY <1>2, MarkerNow DEF Good
    <2> QED  BY <2>1 DEF Exact
  <1>5. L - 1 \in 1..L /\ L \in 1..L /\ L - 1 # L /\ L - 2 \in Nat  BY <1>1, <1>3
  <1>6. h \in Seq(Objects) /\ Len(h) = L - 2 /\ \A j \in 1..(L - 2) : h[j] = barrier[j]
    <2>1. L - 2 <= L  BY <1>3
    <2> HIDE DEF L
    <2> QED  BY <1>3, <1>5, <2>1, PrefixFacts DEF L
  <1>7. Last(barrier) = barrier[L] /\ Last(barrier) \in Objects  BY <1>3, <1>5 DEF Last
  <1> HIDE DEF h
  <1>8. /\ c \in Seq(Objects) /\ Len(c) = L - 1
        /\ \A j \in 1..(L - 1) : c[j] = barrier[IF j = L - 1 THEN L ELSE j]
    <2>1. /\ c \in Seq(Objects) /\ Len(c) = Len(h) + 1
          /\ \A j \in 1..(Len(h) + 1) : c[j] = IF j = Len(h) + 1 THEN Last(barrier) ELSE h[j]
      BY <1>6, <1>7, AppendFacts
    <2>2. Len(h) + 1 = L - 1  BY <1>5, <1>6
    <2>3. \A j \in 1..(L - 1) : j = L - 1 \/ j \in 1..(L - 2)  BY <1>5
    <2> HIDE DEF c
    <2> QED  BY <1>6, <1>7, <2>1, <2>2, <2>3
  <1> HIDE DEF c
  <1>9. \A j \in 1..(L - 1) : (IF j = L - 1 THEN L ELSE j) \in 1..L /\ (IF j = L - 1 THEN L ELSE j) # L - 1
    BY <1>3
  <1>10. \A i, j \in 1..Len(c) : c[i] = c[j] => i = j
    <2>1. \A i, j \in 1..(L - 1) : (IF i = L - 1 THEN L ELSE i) = (IF j = L - 1 THEN L ELSE j) => i = j
      BY <1>3
    <2> QED  BY <1>4, <1>8, <1>9, <2>1
  <1>11. x \in Objects /\ x \in Range(barrier)  BY <1>3, <1>5
  <1>12. w \in Seq(Objects) /\ Len(w) = 1 /\ w[1] = x  BY <1>11
  <1> HIDE DEF w, x, L
  <1>13. Range(w) = {x}
    <2>1. 1 \in 1..Len(w) /\ \A j \in 1..Len(w) : j = 1  BY <1>12
    <2> QED  BY <1>12, <2>1, RangeFacts
  <1>14. Range(c) \subseteq Range(barrier) /\ x \notin Range(c)
    <2> SUFFICES ASSUME NEW y \in Range(c) PROVE y \in Range(barrier) /\ y # x  OBVIOUS
    <2>1. PICK j \in 1..(L - 1) : c[j] = y  BY <1>8, RangeFacts
    <2>2. y = barrier[IF j = L - 1 THEN L ELSE j]  BY <1>8, <2>1
    <2> QED  BY <1>3, <1>4, <1>5, <1>9, <2>2 DEF x
  <1>15. Range(barrier) \subseteq Range(c) \cup {x}
    <2> SUFFICES ASSUME NEW y \in Range(barrier), y # x PROVE y \in Range(c)  OBVIOUS
    <2>1. PICK j \in 1..L : barrier[j] = y  BY <1>3, RangeFacts DEF L
    <2>2. j # L - 1  BY <2>1 DEF x
    <2>3. CASE j = L
      <3>1. L - 1 \in 1..(L - 1) /\ c[L - 1] = barrier[L]  BY <1>5, <1>8
      <3> QED  BY <1>8, <2>1, <2>3, <3>1, RangeFacts
    <2>4. CASE j # L
      <3>1. j \in 1..(L - 1)  BY <1>3, <2>4
      <3>2. c[j] = barrier[j]  BY <1>8, <2>2, <3>1
      <3> QED  BY <1>8, <2>1, <3>1, <3>2, RangeFacts
    <2> QED  BY <2>3, <2>4
  <1>16. /\ n \in Markers /\ n.bits = bits /\ n.sentinel = sentinel /\ n.work = <<Obj(x)>>
         /\ n.overflow = overflow /\ n.protected = protected
    <2>1. Obj(x) \in Items  BY <1>11 DEF Items
    <2>2. <<Obj(x)>> \in Seq(Items) /\ Len(<<Obj(x)>>) = 1  BY <2>1
    <2>3. 1 <= MarkCap  BY HolderFacts
    <2> QED  BY <2>2, <2>3, MarkerNow DEF Markers
  <1> HIDE DEF n
  <1>17. Becomes(n)  BY <1>1, <1>16 DEF Becomes
  <1>18. Moves(barrier, n.work, w, c)
    <2>1. Len(n.work) = Len(w) /\ \A j \in 1..Len(w) : n.work[j] = Obj(w[j])  BY <1>12, <1>16
    <2>2. \A i, j \in 1..Len(w) : w[i] = w[j] => i = j  BY <1>12
    <2>3. Range(w) \cup Range(c) = Range(barrier) /\ Range(w) \cap Range(c) = {}
      BY <1>11, <1>13, <1>14, <1>15
    <2> QED  BY <1>8, <1>10, <1>12, <2>1, <2>2, <2>3 DEF Moves
  <1>19. Good(n, c, TRUE, FALSE)
    <2>1. Good(Marker, barrier, TRUE, FALSE)  BY <1>1, <1>2, MarkerNow DEF Good, AliveItems
    <2> QED  BY <1>1, <1>3, <1>16, <1>18, <2>1, MarkerNow, MoveGood
  <1>20. Good(n, barrier', ~collecting', phase' = "drain2")  BY <1>1, <1>2, <1>19 DEF Good, AliveItems
  <1>21. ScanInv'
    <2>1. Len(c) <= BarrierCap  BY <1>3, <1>8
    <2>2. Range(c) \subseteq alive  BY <1>3, <1>14
    <2> QED  BY <1>1, <1>8, <2>1, <2>2, MarkerNow DEF ScanInv, Recovering, progVars
  <1>22. Tri(n, Excused')
    <2>1. Excused' = Excused  BY <1>1 DEF Excused, Pending, Recovering
    <2>2. Marker.work \in Seq(Items)  BY MarkerNow, MarkerParts
    <2>3. Range(Marker.work) = {}  BY <1>1, <2>2, MarkerNow, RangeFacts
    <2>4. Grows(Marker, n, {})  BY <1>16, <2>3, MarkerNow DEF Grows
    <2> QED  BY <2>1, <2>4, MarkerNow, GrowsTri
  <1> QED  BY <1>1, <1>2, <1>17, <1>20, <1>21, <1>22, CollectorStep, MarkerNow

\* A holder the marker has seen again needs no excuse.
LEMMA SeenTri ==
  ASSUME HeapInv, NEW m, NEW n, NEW d, NEW e, NEW f, NEW x \in Holders, Tri(m, e), Grows(m, n, d),
         \A y \in Holders : Later(y) \in d => y = x,
         \A i \in Parts : Lost(n, mem[x][i]) => n.overflow \/ (i = 2 /\ Later(x) \in Range(n.work)),
         \A y \in Holders, i \in Parts : <<y, i>> \in e => y = x \/ <<y, i>> \in f
  PROVE  Tri(n, f)
  <1> DEFINE s == {<<x, i>> : i \in Parts}
  <1>1. \A y \in Holders, i \in Parts : <<y, i>> \in s <=> y = x  OBVIOUS
  <1> HIDE DEF s
  <1>2. Tri(m, f \cup s)
    <2>1. \A h \in Holders \X Parts : h \in e => h \in f \cup s
      <3> SUFFICES ASSUME NEW y \in Holders, NEW i \in Parts, <<y, i>> \in e PROVE <<y, i>> \in f \cup s
        OBVIOUS
      <3> QED  BY <1>1
    <2> QED  BY <2>1, TriMono
  <1>3. \A y \in Holders : Later(y) \in d => <<y, 2>> \in f \cup s  BY <1>1, HolderFacts
  <1>4. Tri(n, f \cup s)  BY <1>2, <1>3, GrowsTri
  <1>5. \A y \in Holders, i \in Parts : <<y, i>> \in s /\ Lost(n, mem[y][i]) =>
           n.overflow \/ (i = 2 /\ Later(y) \in Range(n.work))
    BY <1>1
  <1> QED  BY <1>4, <1>5, TracedTri

LEMMA MarkRootsStep ==
  ASSUME IndInv, MarkRoots
  PROVE  IndInv'
  <1> DEFINE r == NObjects + scan
             n == IF r \in rootAlive THEN MarkRoot(Marker, r) ELSE Marker
  <1>1. /\ phase \in {"start", "roots"} /\ phase' = phase /\ scan <= NRoots /\ scan' = scan + 1
        /\ Becomes(n) /\ barrier' = barrier /\ UNCHANGED progVars
    BY DEF MarkRoots
  <1>2. ~collecting /\ ~collecting' /\ phase # "drain2"  BY <1>1 DEF collecting
  <1>3. r \in rootAlive => r \in Roots /\ r \in Holders  BY MarkerNow DEF HeapInv, Holders
  <1>4. /\ Good(n, barrier, TRUE, FALSE) /\ Grows(Marker, n, {RootProt(r), Chunk(r)})
        /\ r \in rootAlive => \A i \in Parts :
              Lost(n, mem[r][i]) => n.overflow \/ (i = 2 /\ Chunk(r) \in Range(n.work))
    <2>1. Good(Marker, barrier, TRUE, FALSE)  BY <1>2, MarkerNow DEF Good
    <2>2. CASE r \in rootAlive  BY <1>3, <2>1, <2>2, MarkRootFacts, MarkerNow
    <2>3. CASE r \notin rootAlive  BY <2>1, <2>3 DEF Grows
    <2> QED  BY <2>2, <2>3
  <1>5. n.overflow \/ ~overflow  BY <1>4, MarkerNow DEF Grows
  <1> HIDE DEF n
  <1>6. Good(n, barrier', ~collecting', phase' = "drain2")  BY <1>1, <1>2, <1>4 DEF Good, AliveItems
  <1>7. ScanInv'
    <2>1. scan' \in 0..(NRoots + NObjects + 1)  BY <1>1, MarkerNow
    <2> QED  BY <1>1, <2>1, MarkerNow DEF ScanInv, Recovering, progVars
  <1>8. \A y \in Holders : Later(y) \in {RootProt(r), Chunk(r)} => y = r
    BY ItemFacts DEF Later
  <1>9. Tri(n, Excused')
    <2>1. CASE phase = "start"
      <3>1. \A y \in Holders : Later(y) \in {RootProt(r), Chunk(r)} => <<y, 2>> \in Excused
        BY <1>8, <2>1, ItemFacts, HolderFacts DEF Later, Excused, Pending
      <3>2. Tri(n, Excused)  BY <1>4, <3>1, MarkerNow, GrowsTri
      <3>3. Excused \subseteq Excused'  BY <1>1, <2>1 DEF Excused, Pending, Recovering
      <3> QED  BY <3>2, <3>3, TriMono
    <2>2. CASE phase = "roots"
      <3>1. \A y \in Holders : Pending(y) <=> y \in Roots /\ scan <= Index(y)
        BY <2>2 DEF Pending, Recovering
      <3>2. \A y \in Holders : Pending(y)' <=> y \in Roots /\ scan + 1 <= Index(y)
        BY <1>1, <2>2 DEF Pending, Recovering
      <3>3. \A y \in Holders : Pending(y) => y = r \/ Pending(y)'
        <4> SUFFICES ASSUME NEW y \in Holders, Pending(y), ~Pending(y)' PROVE y = r  OBVIOUS
        <4>1. y \in Roots /\ Index(y) \in 1..NRoots /\ NObjects + Index(y) = y  BY <3>1, PlaceFacts
        <4>2. Index(y) = scan  BY <3>1, <3>2, <4>1, MarkerNow
        <4> QED  BY <4>1, <4>2
      <3>4. \A y \in Holders, i \in Parts : <<y, i>> \in Excused => y = r \/ <<y, i>> \in Excused'
        BY <3>3 DEF Excused
      <3>5. CASE r \in rootAlive
        <4>1. Later(r) = Chunk(r)  BY <1>3, <3>5 DEF Later
        <4> HIDE DEF r
        <4> QED  BY <1>3, <1>4, <1>8, <3>4, <3>5, <4>1, MarkerNow, SeenTri
      <3>6. CASE r \notin rootAlive
        <4>1. n = Marker  BY <3>6 DEF n
        <4>2. \A y \in Holders : Black(Marker, y) /\ y = r => ~Pending(y)
          BY <3>1, <3>6, HolderFacts DEF Black
        <4> HIDE DEF r
        <4> QED  BY <3>4, <4>1, <4>2, MarkerNow DEF Tri, Excused
      <3> QED  BY <3>5, <3>6
    <2> QED  BY <1>1, <2>1, <2>2
  <1>10. phase' = "roots" => barrier' = <<>> \/ n.overflow  BY <1>1, <1>5, MarkerNow DEF PhaseInv
  <1> QED  BY <1>1, <1>2, <1>6, <1>7, <1>9, <1>10, CollectorStep, MarkerNow

LEMMA HandleMarkStackOverflowStep ==
  ASSUME IndInv, HandleMarkStackOverflow
  PROVE  IndInv'
  <1> DEFINE x == Place(scan)
             d == {RootProt(x), Chunk(x)}
             n == IF ~Scanned(scan) THEN Marker
                  ELSE IF scan <= NRoots THEN MarkRoot(Marker, x) ELSE MarkItem_GCObject(Marker, x)
  <1>1. /\ phase \in {"recover", "recover2", "recover3"} /\ phase' = phase
        /\ scan <= NRoots + NObjects /\ scan' = scan + 1
        /\ Becomes(n) /\ barrier' = barrier /\ UNCHANGED progVars
    BY DEF HandleMarkStackOverflow
  <1>2. collecting' = collecting /\ phase # "drain2" /\ phase # "roots"  BY <1>1 DEF collecting
  <1>3. Recovering /\ Recovering'  BY <1>1 DEF Recovering
  <1>4. scan \in 1..(NRoots + NObjects)
    <2>1. scan # 0  BY <1>3, MarkerNow DEF ScanInv
    <2> QED  BY <1>1, <2>1, MarkerNow
  <1>5. x \in Holders /\ (scan <= NRoots <=> x \in Roots)  BY <1>4, PlaceFacts
  <1>6. Scanned(scan) <=> x \in rootAlive \/ (x \in Objects \ Leaf /\ bits[x] = "marked")  BY DEF Scanned
  <1>7. HeapInv /\ Good(Marker, barrier, ~collecting, FALSE)
    BY <1>2, MarkerNow DEF Good, AliveItems
  <1>8. rootAlive \subseteq Roots /\ Objects \cap Roots = {}  BY <1>7, HolderFacts DEF HeapInv
  <1> HIDE DEF x
  <1>9. /\ Good(n, barrier, ~collecting, FALSE) /\ Grows(Marker, n, d)
        /\ Scanned(scan) => \A i \in Parts :
              Lost(n, mem[x][i]) => n.overflow \/ (i = 2 /\ Later(x) \in Range(n.work))
    <2>1. CASE ~Scanned(scan)
      <3>1. n = Marker  BY <2>1
      <3> QED  BY <1>7, <2>1, <3>1 DEF Grows
    <2>2. CASE Scanned(scan) /\ scan <= NRoots
      <3>1. n = MarkRoot(Marker, x)  BY <2>2
      <3>2. x \in Roots /\ x \in rootAlive  BY <1>5, <1>6, <1>8, <2>2
      <3>3. Later(x) = Chunk(x)  BY <3>2 DEF Later
      <3> HIDE DEF n
      <3> QED  BY <1>7, <3>1, <3>2, <3>3, MarkRootFacts
    <2>3. CASE Scanned(scan) /\ ~(scan <= NRoots)
      <3>1. n = MarkItem_GCObject(Marker, x)  BY <2>3
      <3>2. x \in Objects /\ bits[x] = "marked" /\ x \notin Roots  BY <1>5, <1>6, <1>8, <2>3 DEF Holders
      <3>3. Later(x) = Tail2(x)  BY <3>2 DEF Later
      <3>4. [Marker EXCEPT !.bits[x] = "marked"] = Marker
        <4>1. Marker.bits \in [Objects -> Colours] /\ Marker.bits[x] = "marked"
          BY <3>2, MarkerNow, MarkerParts
        <4>2. [Marker.bits EXCEPT ![x] = "marked"] = Marker.bits  BY <3>2, <4>1
        <4> QED  BY <4>2 DEF Marker
      <3> HIDE DEF n
      <3>5. /\ Good(n, barrier, ~collecting, FALSE) /\ Grows(Marker, n, {})
            /\ \A i \in Parts : Lost(n, mem[x][i]) => n.overflow \/ (i = 2 /\ Tail2(x) \in Range(n.work))
        <4>1. Good([Marker EXCEPT !.bits[x] = "marked"], barrier, ~collecting, FALSE)  BY <1>7, <3>4
        <4>2. /\ Good(n, barrier, ~collecting, FALSE) /\ Grows([Marker EXCEPT !.bits[x] = "marked"], n, {})
              /\ \A i \in Parts : Lost(n, mem[x][i]) => n.overflow \/ (i = 2 /\ Tail2(x) \in Range(n.work))
          BY <1>7, <3>1, <3>2, <4>1, MarkItemFacts
        <4> QED  BY <3>4, <4>2
      <3> QED  BY <3>3, <3>5 DEF Grows
    <2> QED  BY <2>1, <2>2, <2>3
  <1>10. ~Scanned(scan) => n = Marker  OBVIOUS
  <1> HIDE DEF n
  <1>11. Good(n, barrier', ~collecting', phase' = "drain2")  BY <1>1, <1>2, <1>9 DEF Good, AliveItems
  <1>12. ScanInv'
    <2>1. scan' \in 0..(NRoots + NObjects + 1) /\ scan' # 0  BY <1>1, MarkerNow
    <2> QED  BY <1>1, <2>1, MarkerNow DEF ScanInv, progVars
  <1>13. \A y \in Holders : Pending(y) => y = x \/ Pending(y)'
    <2> SUFFICES ASSUME NEW y \in Holders, Pending(y), ~Pending(y)' PROVE y = x  OBVIOUS
    <2>1. scan <= Index(y) /\ ~(scan + 1 <= Index(y))  BY <1>1, <1>2, <1>3 DEF Pending
    <2>2. Index(y) \in 1..(NRoots + NObjects) /\ Place(Index(y)) = y  BY PlaceFacts
    <2>3. Index(y) = scan  BY <2>1, <2>2, MarkerNow
    <2> QED  BY <2>2, <2>3 DEF x
  <1>14. \A y \in Holders, i \in Parts : <<y, i>> \in Excused => y = x \/ <<y, i>> \in Excused'
    BY <1>13 DEF Excused
  <1>15. Tri(n, Excused')
    <2>1. CASE Scanned(scan)
      <3>1. \A y \in Holders : Later(y) \in d => y = x  BY ItemFacts DEF Later
      <3> HIDE DEF d
      <3> QED  BY <1>5, <1>7, <1>9, <1>14, <2>1, <3>1, MarkerNow, SeenTri
    <2>2. CASE ~Scanned(scan)
      <3>1. \A i \in Parts : ~(Black(Marker, x) /\ Lost(Marker, mem[x][i]))
        <4> SUFFICES ASSUME NEW i \in Parts, Black(Marker, x), Lost(Marker, mem[x][i]) PROVE FALSE
          OBVIOUS
        <4>1. x \in Leaf  BY <1>6, <2>2, MarkerNow DEF Black
        <4>2. i \in SlotsOf(x)  BY <1>5, <1>7 DEF HeapInv, Lost
        <4> QED  BY <1>5, <4>1, <4>2, HolderFacts
      <3> QED  BY <1>10, <1>14, <2>2, <3>1, MarkerNow DEF Tri
    <2> QED  BY <2>1, <2>2
  <1>16. collecting' => barrier' = <<>> /\ \A o \in stack : n.bits[o] = "marked"
    <2>1. \A o \in stack : o \in Objects  BY <1>7 DEF HeapInv
    <2> QED  BY <1>1, <1>2, <1>9, <2>1, MarkerNow DEF PhaseInv, Grows
  <1> QED  BY <1>1, <1>2, <1>7, <1>11, <1>12, <1>15, <1>16, CollectorStep

LEMMA MarkStep ==
  ASSUME IndInv, Mark
  PROVE  IndInv'
  <1>1. /\ phase \in {"mark", "drain", "recover", "drain2", "recover2", "drain3", "recover3"}
        /\ phase' = phase /\ scan' = scan /\ work # <<>> /\ barrier' = barrier /\ UNCHANGED progVars
    BY DEF Mark
  <1>2. PICK n \in MarkTopItem(Marker) : Becomes(n)  BY DEF Mark
  <1>3. collecting' = collecting  BY <1>1 DEF collecting
  <1>4. Excused' = Excused  BY <1>1 DEF Excused, Pending, Recovering
  <1>5. /\ Good(n, barrier, ~collecting, phase = "drain2") /\ Tri(n, Excused)
        /\ (StackTri(Marker) => StackTri(n)) /\ (Marker.overflow => n.overflow)
        /\ \A o \in Objects : Marker.bits[o] = "marked" => n.bits[o] = "marked"
    BY <1>1, TopGood, MarkerNow
  <1>6. Good(n, barrier', ~collecting', phase' = "drain2")  BY <1>1, <1>3, <1>5
  <1>7. Tri(n, Excused')  BY <1>4, <1>5
  <1>8. ScanInv'  BY <1>1, MarkerNow DEF ScanInv, Recovering, progVars
  <1>9. phase' = "drain2" => (barrier' = <<>> \/ n.overflow) /\ StackTri(n)
    BY <1>1, <1>5, MarkerNow DEF PhaseInv
  <1>10. collecting' => barrier' = <<>> /\ \A o \in stack : n.bits[o] = "marked"
    <2>1. \A o \in stack : o \in Objects  BY MarkerNow DEF HeapInv
    <2> QED  BY <1>1, <1>3, <1>5, <2>1, MarkerNow DEF PhaseInv
  <1> QED  BY <1>1, <1>2, <1>6, <1>7, <1>8, <1>9, <1>10, CollectorStep, MarkerNow
-----------------------------------------------------------------------------
(***************************************************************************)
(* The steps of the program.                                               *)
(***************************************************************************)
\* What the program reaches is allocated.
LEMMA LiveAlive ==
  ASSUME HeapInv
  PROVE  Reachable \subseteq alive
  <1>1. C!Closed(mem, stack, rootAlive, alive)
    <2>1. stack \subseteq alive /\ rootAlive \subseteq Holders /\ alive \subseteq Holders
      BY DEF HeapInv, Holders
    <2>2. \A x \in Holders : C!Targets(mem, x) \subseteq alive  BY DEF HeapInv, C!Targets, Parts
    <2> QED  BY <2>1, <2>2 DEF C!Closed
  <1>2. alive \in SUBSET Objects  BY DEF HeapInv
  <1> QED  BY <1>1, <1>2 DEF Reachable, C!Live, C!Reachable

\* While the program runs only the roots are excused.
ObjTri(m) ==
    \A x \in Objects, i \in Parts :
        m.bits[x] = "marked" /\ Lost(m, mem[x][i]) => m.overflow \/ (i = 2 /\ Tail2(x) \in Range(m.work))

LEMMA ProgramNow ==
  ASSUME IndInv, ProgramRuns
  PROVE  /\ HeapInv /\ Good(Marker, barrier, TRUE, FALSE) /\ ObjTri(Marker)
         /\ barrier \in Seq(Objects) /\ Len(barrier) <= BarrierCap /\ Range(barrier) \subseteq alive
         /\ phase \in {"idle", "mark"} /\ ~collecting /\ bits \in [Objects -> Colours]
         /\ phase = "idle" => /\ \A o \in Objects : bits[o] = "white"
                              /\ work = <<>> /\ barrier = <<>> /\ ~overflow
  <1>1. phase \in {"idle", "mark"} /\ ~collecting  BY DEF ProgramRuns, collecting
  <1>2. Good(Marker, barrier, TRUE, FALSE)  BY <1>1, MarkerNow DEF Good
  <1>3. ObjTri(Marker)
    <2> SUFFICES ASSUME NEW x \in Objects, NEW i \in Parts, Marker.bits[x] = "marked", Lost(Marker, mem[x][i])
                 PROVE  Marker.overflow \/ (i = 2 /\ Tail2(x) \in Range(Marker.work))
      BY DEF ObjTri
    <2>1. x \in Holders /\ x \notin Roots  BY HolderFacts DEF Holders
    <2>2. <<x, i>> \notin Excused  BY <1>1, <2>1 DEF Excused, Pending, Recovering
    <2> QED  BY <2>1, <2>2, MarkerNow DEF Tri, Black, Later
  <1>4. bits \in [Objects -> Colours]  BY MarkerNow, MarkerParts
  <1> QED  BY <1>1, <1>2, <1>3, <1>4, MarkerNow DEF ScanInv, PhaseInv

LEMMA ProgramStep ==
  ASSUME IndInv, ProgramRuns, phase' = phase, scan' = scan, HeapInv',
         Good(Marker, barrier, TRUE, FALSE)', ObjTri(Marker)',
         barrier' \in Seq(Objects), Len(barrier') <= BarrierCap, Range(barrier') \subseteq alive',
         phase = "idle" => /\ \A o \in Objects : bits'[o] = "white"
                           /\ work' = <<>> /\ barrier' = <<>> /\ ~overflow'
  PROVE  IndInv'
  <1>1. phase' \in {"idle", "mark"} /\ ~collecting'  BY ProgramNow DEF collecting
  <1>2. Good(Marker, barrier, ~collecting, phase = "drain2")'  BY <1>1 DEF Good
  <1>3. ScanInv'  BY <1>1, MarkerNow DEF ScanInv, Recovering
  <1>4. PhaseInv'  BY <1>1 DEF PhaseInv, collecting
  <1>5. Tri(Marker, Excused)'
    <2> SUFFICES ASSUME NEW x \in Holders, NEW i \in Parts, Black(Marker, x)', Lost(Marker', mem'[x][i])
                 PROVE  \/ Marker'.overflow \/ (i = 2 /\ Later(x) \in Range(Marker'.work))
                        \/ <<x, i>> \in Excused'
      BY DEF Tri, Lost
    <2>1. CASE x \in Roots
      <3>1. Pending(x)'  BY <1>1, <2>1 DEF Pending
      <3> QED  BY <3>1 DEF Excused
    <2>2. CASE x \in Objects /\ x \notin Roots
      <3>1. Marker'.bits[x] = "marked"  BY <2>2 DEF Black, HeapInv
      <3> QED  BY <2>2, <3>1 DEF ObjTri, Later, Lost
    <2> QED  BY <2>1, <2>2 DEF Holders
  <1> QED  BY <1>2, <1>3, <1>4, <1>5 DEF IndInv

\* Steps that the marker does not see.
LEMMA QuietStep ==
  ASSUME IndInv, ProgramRuns, UNCHANGED <<markVars, barrier, phase, scan>>, HeapInv',
         alive \subseteq alive', rootAlive \subseteq rootAlive', \A x \in Objects : mem'[x] = mem[x]
  PROVE  IndInv'
  <1>1. Marker' = Marker  BY DEF Marker, markVars
  <1>2. Good(Marker, barrier, TRUE, FALSE)'  BY <1>1, ProgramNow DEF Good, AliveItems
  <1>3. ObjTri(Marker)'  BY <1>1, ProgramNow DEF ObjTri, Lost
  <1> QED  BY <1>2, <1>3, ProgramNow, ProgramStep DEF markVars

LEMMA QuietSteps ==
  ASSUME IndInv,
         \/ \E o \in Objects : Load(o) \/ Drop(o) \/ GetWeakRef(o) \/ WeakRefGet(o)
         \/ \E r \in Roots, i \in Parts, p \in Objects \cup {NULL} : WriteRoot(r, i, p)
         \/ \E r \in Roots : CreateRoot(r)
  PROVE  IndInv'
  <1>1. HeapInv /\ Reachable \subseteq alive  BY MarkerNow, LiveAlive
  <1>2. CASE \E o \in Objects : Load(o) \/ Drop(o) \/ GetWeakRef(o) \/ WeakRefGet(o)
    <2>1. /\ ProgramRuns /\ UNCHANGED <<alive, mem, rootAlive, markVars, barrier, phase, scan>>
          /\ stack' \subseteq alive /\ weak' \subseteq alive
      BY <1>1, <1>2 DEF Load, Drop, GetWeakRef, WeakRefGet, Hold, HeapInv
    <2>2. HeapInv'  BY <1>1, <2>1 DEF HeapInv
    <2> QED  BY <2>1, <2>2, QuietStep
  <1>3. CASE \E r \in Roots, i \in Parts, p \in Objects \cup {NULL} : WriteRoot(r, i, p)
    <2>1. PICK r \in Roots, i \in Parts, p \in Objects \cup {NULL} : WriteRoot(r, i, p)  BY <1>3
    <2>2. /\ ProgramRuns /\ UNCHANGED <<alive, stack, weak, rootAlive, markVars, barrier, phase, scan>>
          /\ r \in rootAlive /\ i \in SlotsOf(r) /\ (p = NULL \/ p \in alive)
          /\ mem' = [mem EXCEPT ![r][i] = p]
      BY <1>1, <2>1 DEF WriteRoot
    <2>3. mem \in [Holders -> [Parts -> Objects \cup {NULL}]] /\ r \in Holders  BY <1>1 DEF HeapInv, Holders
    <2>4. mem' \in [Holders -> [Parts -> Objects \cup {NULL}]]  BY <2>2, <2>3
    <2>5. \A x \in Holders, j \in Parts : mem'[x][j] = IF x = r /\ j = i THEN p ELSE mem[x][j]
      BY <2>2, <2>3
    <2>6. HeapInv'  BY <1>1, <2>2, <2>4, <2>5 DEF HeapInv
    <2>7. \A x \in Objects : mem'[x] = mem[x]  BY <2>2, <2>3, HolderFacts DEF Holders
    <2> QED  BY <2>2, <2>6, <2>7, QuietStep
  <1>4. CASE \E r \in Roots : CreateRoot(r)
    <2>1. /\ ProgramRuns /\ UNCHANGED <<alive, mem, stack, weak, markVars, barrier, phase, scan>>
          /\ rootAlive \subseteq rootAlive' /\ rootAlive' \subseteq Roots
      BY <1>1, <1>4 DEF CreateRoot, HeapInv
    <2>2. HeapInv'  BY <1>1, <2>1 DEF HeapInv
    <2> QED  BY <2>1, <2>2, QuietStep
  <1> QED  BY <1>2, <1>3, <1>4

\* A change of the heap under a marker n that is good for the old one.
LEMMA GoodLater ==
  ASSUME NEW n, Good(n, barrier', TRUE, FALSE), Becomes(n),
         \A o \in Objects : Obj(o) \in Range(n.work) => o \in alive',
         \A r \in Roots : Chunk(r) \in Range(n.work) \/ RootProt(r) \in Range(n.work) => r \in rootAlive'
  PROVE  Good(Marker, barrier, TRUE, FALSE)' /\ Marker' = n
  <1>1. Marker' = n  BY BecomesIs DEF Good
  <1>2. AliveItems(Marker, FALSE)'  BY <1>1 DEF Good, AliveItems
  <1> QED  BY <1>1, <1>2 DEF Good

\* What is queued is on a stack, hence allocated.
LEMMA QueuedAlive ==
  ASSUME IndInv, NEW o \in Objects, bits[o] = "queued"
  PROVE  o \in alive
  BY MarkerNow DEF Good, Queue, AliveItems, ScanInv

LEMMA AllocStep ==
  ASSUME IndInv, NEW o \in Objects, Alloc(o)
  PROVE  IndInv'
  <1> DEFINE n == [Marker EXCEPT !.bits = [@ EXCEPT ![o] = "white"], !.protected = @ \ {o}]
  <1>1. /\ ProgramRuns /\ o \notin alive /\ stack' = stack \cup {o} /\ alive' = alive \cup {o}
        /\ mem' = [mem EXCEPT ![o] = Empty]
        /\ bits' = [bits EXCEPT ![o] = "white"] /\ protected' = protected \ {o}
        /\ UNCHANGED <<rootAlive, weak, work, barrier, overflow, sentinel, phase, scan>>
    BY DEF Alloc, Hold
  <1>2. HeapInv /\ mem \in [Holders -> [Parts -> Objects \cup {NULL}]] /\ o \in Holders /\ bits \in [Objects -> Colours]
    BY <1>1, ProgramNow DEF HeapInv, Holders
  <1>3. Empty \in [Parts -> Objects \cup {NULL}] /\ \A i \in Parts : Empty[i] = NULL  BY DEF Empty
  <1>4. mem' \in [Holders -> [Parts -> Objects \cup {NULL}]]  BY <1>1, <1>2, <1>3
  <1>5. \A x \in Holders, i \in Parts : mem'[x][i] = IF x = o THEN NULL ELSE mem[x][i]
    BY <1>1, <1>2, <1>3
  <1>6. HeapInv'  BY <1>1, <1>2, <1>4, <1>5 DEF HeapInv
  <1>7. /\ n \in Markers /\ n.bits = [bits EXCEPT ![o] = "white"] /\ n.work = work
        /\ n.overflow = overflow /\ n.protected = protected \ {o} /\ n.sentinel = sentinel
    <2>1. [bits EXCEPT ![o] = "white"] \in [Objects -> Colours]  BY <1>2 DEF Colours
    <2>2. protected \ {o} \in SUBSET Large
      <3>1. Marker.protected \in SUBSET Large  BY MarkerNow, MarkerParts
      <3> QED  BY <3>1, MarkerNow
    <2> QED  BY <2>1, <2>2, MarkerNow DEF Markers
  <1> HIDE DEF n
  <1>8. Becomes(n)  BY <1>1, <1>7 DEF Becomes
  <1>9. bits[o] # "queued"  BY <1>1, QueuedAlive
  <1>10. Good(n, barrier, TRUE, FALSE)
    <2>1. n.bits = [Marker.bits EXCEPT ![o] = "white"] /\ n.sentinel = Marker.sentinel /\ n.work = Marker.work
          /\ Marker.bits[o] # "queued"
      BY <1>7, <1>9, MarkerNow
    <2> QED  BY <1>1, <1>7, <2>1, ProgramNow, ColourGood
  <1>11. Good(Marker, barrier, TRUE, FALSE)' /\ Marker' = n
    BY <1>1, <1>8, <1>10, GoodLater DEF Good, AliveItems
  <1>12. ObjTri(Marker)'
    <2> SUFFICES ASSUME NEW x \in Objects, NEW i \in Parts, n.bits[x] = "marked", Lost(n, mem'[x][i])
                 PROVE  n.overflow \/ (i = 2 /\ Tail2(x) \in Range(n.work))
      BY <1>11 DEF ObjTri, Lost
    <2>1. x # o /\ x \in Holders  BY <1>2, <1>7 DEF Holders
    <2>2. mem'[x][i] = mem[x][i] /\ mem[x][i] # NULL  BY <1>5, <2>1 DEF Lost
    <2>3. mem[x][i] \in alive /\ mem[x][i] \in Objects /\ mem[x][i] # o  BY <1>1, <1>2, <2>1, <2>2 DEF HeapInv
    <2>4. bits[x] = "marked" /\ bits[mem[x][i]] = "white"  BY <1>2, <1>7, <2>1, <2>2, <2>3 DEF Lost
    <2> QED  BY <1>1, <1>7, <2>2, <2>4, ProgramNow, MarkerNow DEF ObjTri, Lost
  <1>13. barrier' \in Seq(Objects) /\ Len(barrier') <= BarrierCap /\ Range(barrier') \subseteq alive'
    BY <1>1, ProgramNow
  <1>14. phase = "idle" => /\ \A x \in Objects : bits'[x] = "white"
                           /\ work' = <<>> /\ barrier' = <<>> /\ ~overflow'
    BY <1>1, <1>2, ProgramNow
  <1> QED  BY <1>1, <1>6, <1>11, <1>12, <1>13, <1>14, ProgramStep

\* A deleted object that is still on a stack keeps its place there.
LEMMA FreeStep ==
  ASSUME IndInv, NEW o \in Objects, Free(o)
  PROVE  IndInv'
  <1> DEFINE n == IF marking /\ (bits[o] = "queued" \/ o \in protected) THEN Marker
                  ELSE [Marker EXCEPT !.bits[o] = "white"]
  <1>1. /\ ProgramRuns /\ o \in stack
        /\ \A x \in (alive \cup rootAlive) \ {o} : o \notin C!Targets(mem, x)
        /\ stack' = stack \ {o} /\ mem' = [mem EXCEPT ![o] = Empty] /\ weak' = weak \ {o}
        /\ alive' \subseteq alive /\ alive \subseteq alive' \cup {o}
        /\ UNCHANGED <<rootAlive, work, barrier, overflow, protected, sentinel, phase, scan>>
    BY DEF Free
  <1>2. HeapInv /\ mem \in [Holders -> [Parts -> Objects \cup {NULL}]] /\ o \in Holders /\ bits \in [Objects -> Colours]
    BY <1>1, ProgramNow DEF HeapInv, Holders
  <1>3. Empty \in [Parts -> Objects \cup {NULL}] /\ \A i \in Parts : Empty[i] = NULL  BY DEF Empty
  <1>4. mem' \in [Holders -> [Parts -> Objects \cup {NULL}]]  BY <1>1, <1>2, <1>3
  <1>5. \A x \in Holders, i \in Parts : mem'[x][i] = IF x = o THEN NULL ELSE mem[x][i]
    BY <1>1, <1>2, <1>3
  <1>6. \A x \in Holders, i \in Parts : x # o => mem[x][i] # o
    <2> SUFFICES ASSUME NEW x \in Holders, NEW i \in Parts, x # o, mem[x][i] = o PROVE FALSE  OBVIOUS
    <2>1. mem[x][i] # NULL  BY HolderFacts
    <2>2. x \in alive \cup rootAlive  BY <1>2, <2>1 DEF HeapInv
    <2>3. o \in C!Targets(mem, x)  BY <2>1 DEF C!Targets, Parts
    <2> QED  BY <1>1, <2>2, <2>3
  <1>7. o \notin rootAlive  BY <1>2, HolderFacts DEF HeapInv
  <1>8. HeapInv'
    <2>1. alive' \subseteq Objects /\ stack' \subseteq alive' /\ weak' \subseteq alive' /\ rootAlive' \subseteq Roots
      BY <1>1, <1>2 DEF HeapInv
    <2>2. ASSUME NEW x \in Holders, NEW i \in Parts, mem'[x][i] # NULL
          PROVE  mem'[x][i] \in alive' /\ i \in SlotsOf(x) /\ x \in alive' \cup rootAlive'
      <3>1. x # o /\ mem'[x][i] = mem[x][i]  BY <1>5, <2>2
      <3>2. mem[x][i] \in alive /\ i \in SlotsOf(x) /\ x \in alive \cup rootAlive
        BY <1>2, <2>2, <3>1 DEF HeapInv
      <3>3. mem[x][i] # o  BY <1>6, <3>1
      <3> QED  BY <1>1, <3>1, <3>2, <3>3
    <2> QED  BY <1>4, <2>1, <2>2 DEF HeapInv
  <1>9. /\ n \in Markers /\ n.work = work /\ n.overflow = overflow /\ n.sentinel = sentinel
        /\ n.protected = protected /\ bits' = n.bits
        /\ \/ n = Marker /\ alive' = alive
           \/ n.bits = [bits EXCEPT ![o] = "white"] /\ bits[o] # "queued"
    <2>1. CASE marking /\ (bits[o] = "queued" \/ o \in protected)
      <3>1. n = Marker /\ bits' = bits /\ alive' = alive  BY <2>1 DEF Free
      <3> QED  BY <3>1, MarkerNow
    <2>2. CASE ~(marking /\ (bits[o] = "queued" \/ o \in protected))
      <3>1. n = [Marker EXCEPT !.bits[o] = "white"] /\ bits' = [bits EXCEPT ![o] = "white"]
        BY <2>2 DEF Free
      <3>2. "white" \in Colours  BY DEF Colours
      <3>3. /\ n \in Markers /\ n.work = work /\ n.overflow = overflow /\ n.sentinel = sentinel
            /\ n.protected = protected /\ n.bits = [bits EXCEPT ![o] = "white"]
        <4>1. LET q == [Marker EXCEPT !.bits[o] = "white"]
              IN  /\ q \in Markers /\ q.bits = [Marker.bits EXCEPT ![o] = "white"] /\ q.work = Marker.work
                  /\ q.overflow = Marker.overflow /\ q.sentinel = Marker.sentinel
                  /\ q.protected = Marker.protected
          BY <3>2, MarkerNow, ColourFacts
        <4> HIDE DEF n
        <4> QED  BY <3>1, <4>1, MarkerNow
      <3>4. bits[o] # "queued"  BY <1>1, <2>2, ProgramNow DEF marking
      <3> QED  BY <3>1, <3>3, <3>4
    <2> QED  BY <2>1, <2>2
  <1> HIDE DEF n
  <1>10. Becomes(n)  BY <1>1, <1>9 DEF Becomes
  <1>11. Good(n, barrier, TRUE, FALSE)
    <2>1. CASE n = Marker  BY <1>1, <2>1, ProgramNow
    <2>2. CASE n.bits = [bits EXCEPT ![o] = "white"] /\ bits[o] # "queued"
      <3>1. n.bits = [Marker.bits EXCEPT ![o] = "white"] /\ n.sentinel = Marker.sentinel /\ n.work = Marker.work
            /\ Marker.bits[o] # "queued"
        BY <1>9, <2>2, MarkerNow
      <3> QED  BY <1>1, <1>9, <3>1, ProgramNow, ColourGood
    <2> QED  BY <1>9, <2>1, <2>2
  <1>12. Exact(Marker, barrier)  BY <1>1, ProgramNow DEF Good
  <1>13. \A x \in Objects : Obj(x) \in Range(work) \/ x \in Range(barrier) => x \in alive'
    <2> SUFFICES ASSUME NEW x \in Objects, Obj(x) \in Range(work) \/ x \in Range(barrier) PROVE x \in alive'
      OBVIOUS
    <2>1. bits[x] = "queued"  BY <1>12, MarkerNow DEF Exact
    <2>2. x \in alive  BY <2>1, QueuedAlive
    <2> QED  BY <1>1, <1>9, <2>1, <2>2
  <1>14. Good(Marker, barrier, TRUE, FALSE)' /\ Marker' = n
    <2>1. \A r \in Roots : Chunk(r) \in Range(n.work) \/ RootProt(r) \in Range(n.work) => r \in rootAlive'
      BY <1>1, <1>11 DEF Good, AliveItems
    <2> QED  BY <1>1, <1>9, <1>10, <1>11, <1>13, <2>1, GoodLater
  <1>15. ObjTri(Marker)'
    <2> SUFFICES ASSUME NEW x \in Objects, NEW i \in Parts, n.bits[x] = "marked", Lost(n, mem'[x][i])
                 PROVE  n.overflow \/ (i = 2 /\ Tail2(x) \in Range(n.work))
      BY <1>14 DEF ObjTri, Lost
    <2>1. x \in Holders  BY DEF Holders
    <2>2. x # o /\ mem'[x][i] = mem[x][i] /\ mem[x][i] # NULL  BY <1>5, <2>1 DEF Lost
    <2>3. mem[x][i] \in Objects /\ mem[x][i] # o  BY <1>2, <1>6, <2>1, <2>2 DEF HeapInv
    <2>4. bits[x] = "marked" /\ bits[mem[x][i]] = "white"  BY <1>2, <1>9, <2>2, <2>3, MarkerNow DEF Lost
    <2> QED  BY <1>1, <1>9, <2>2, <2>4, ProgramNow, MarkerNow DEF ObjTri, Lost
  <1>16. Range(barrier') \subseteq alive'
    <2>1. Range(barrier) \subseteq Objects  BY <1>1, ProgramNow, RangeFacts
    <2> QED  BY <1>1, <1>13, <2>1
  <1>17. phase = "idle" => /\ \A x \in Objects : bits'[x] = "white"
                           /\ work' = <<>> /\ barrier' = <<>> /\ ~overflow'
    BY <1>1, <1>2, <1>9, ProgramNow, MarkerNow
  <1> QED  BY <1>1, <1>8, <1>14, <1>15, <1>16, <1>17, ProgramNow, ProgramStep

\* A store through the write barrier leaves its container unmarked, and queued once.
LEMMA BarrierFacts ==
  ASSUME IndInv, ProgramRuns, NEW x \in Objects, x \in alive, WriteBarrierTrap(x)
  PROVE  /\ Good(Marker', barrier', TRUE, FALSE) /\ Becomes(Marker')
         /\ barrier' \in Seq(Objects) /\ Len(barrier') <= BarrierCap /\ Range(barrier') \subseteq alive
         /\ bits'[x] # "marked" /\ (bits'[x] = "white" => bits[x] = "white" \/ overflow')
         /\ \A o \in Objects : o # x => bits'[o] = bits[o]
         /\ (overflow => overflow') /\ Range(work) \subseteq Range(work')
         /\ phase = "idle" => UNCHANGED <<markVars, barrier>>
  <1> DEFINE m == [Marker EXCEPT !.bits[x] = "queued"]
  <1>1. /\ Good(Marker, barrier, TRUE, FALSE) /\ Marker \in Markers /\ bits \in [Objects -> Colours]
        /\ barrier \in Seq(Objects) /\ Len(barrier) <= BarrierCap /\ Range(barrier) \subseteq alive
        /\ (phase = "idle" => bits[x] = "white") /\ Len(barrier) \in Nat /\ BarrierCap \in Nat
    BY ProgramNow, MarkerNow, RangeFacts, HolderFacts
  <1>2. Marker' = [bits |-> bits', work |-> work', overflow |-> overflow',
                   protected |-> protected', sentinel |-> sentinel']
    BY DEF Marker
  <1>3. Becomes(Marker')  BY <1>2 DEF Becomes
  <1>4. CASE ~(marking /\ bits[x] = "marked")
    <2>1. UNCHANGED <<markVars, barrier>>  BY <1>4 DEF WriteBarrierTrap
    <2>2. Marker' = Marker  BY <2>1 DEF Marker, markVars
    <2>3. bits[x] # "marked"  BY <1>1, <1>4 DEF marking
    <2>4. Good(Marker', barrier', TRUE, FALSE)  BY <1>1, <2>1, <2>2
    <2> QED  BY <1>1, <1>3, <2>1, <2>3, <2>4 DEF markVars
  <1>5. CASE marking /\ bits[x] = "marked" /\ Len(barrier) < BarrierCap
    <2>1. Becomes(m) /\ barrier' = Append(barrier, x)  BY <1>5 DEF WriteBarrierTrap
    <2>2. "queued" \in Colours  BY DEF Colours
    <2>3. /\ m \in Markers /\ m.bits = [bits EXCEPT ![x] = "queued"] /\ m.work = work
          /\ m.overflow = overflow /\ m.sentinel = sentinel /\ m.protected = protected
      BY <2>2, MarkerNow, ColourFacts
    <2> HIDE DEF m
    <2>4. Marker' = m  BY <2>1, <2>3, BecomesIs
    <2>5. /\ barrier' \in Seq(Objects) /\ Len(barrier') = Len(barrier) + 1
          /\ Range(barrier') = Range(barrier) \cup {x}
          /\ \A j \in 1..(Len(barrier) + 1) : barrier'[j] = IF j = Len(barrier) + 1 THEN x ELSE barrier[j]
      BY <1>1, <2>1, AppendFacts
    <2>6. Exact(Marker, barrier)  BY <1>1 DEF Good
    <2>7. Obj(x) \notin Range(work) /\ x \notin Range(barrier)  BY <1>5, <2>6, MarkerNow DEF Exact
    <2>8. RootItems(m)  BY <1>1, <2>3, RootItemsSame, MarkerNow DEF Good
    <2>9. AliveItems(m, FALSE)  BY <1>1, <2>3, MarkerNow DEF Good, AliveItems
    <2>10. Queue(m, barrier')  BY <1>1, <2>3, <2>5, MarkerNow DEF Good, Queue
    <2>11. Exact(m, barrier')
      <3>1. \A o \in Objects : Obj(o) \in Range(m.work) \/ o \in Range(barrier') => m.bits[o] = "queued"
        BY <1>1, <2>3, <2>5, <2>6, MarkerNow DEF Exact
      <3>2. \A o \in Objects : ~(Obj(o) \in Range(m.work) /\ o \in Range(barrier'))
        BY <2>3, <2>5, <2>6, <2>7, MarkerNow DEF Exact
      <3>3. \A o \in Objects, i, j \in 1..Len(m.work) : m.work[i] = Obj(o) /\ m.work[j] = Obj(o) => i = j
        BY <2>3, <2>6, MarkerNow DEF Exact
      <3>4. \A i, j \in 1..Len(barrier') : barrier'[i] = barrier'[j] => i = j
        <4>1. \A j \in 1..Len(barrier') : j = Len(barrier) + 1 \/ (j \in 1..Len(barrier) /\ barrier'[j] = barrier[j])
          BY <1>1, <2>5
        <4>2. \A j \in 1..Len(barrier) : barrier[j] # x  BY <1>1, <2>7, RangeFacts
        <4>3. \A i, j \in 1..Len(barrier) : barrier[i] = barrier[j] => i = j  BY <2>6 DEF Exact
        <4>4. barrier'[Len(barrier) + 1] = x  BY <1>1, <2>5
        <4> QED  BY <4>1, <4>2, <4>3, <4>4
      <3> QED  BY <3>1, <3>2, <3>3, <3>4 DEF Exact
    <2>12. Good(m, barrier', TRUE, FALSE)  BY <2>3, <2>8, <2>9, <2>10, <2>11 DEF Good
    <2>13. bits' = [bits EXCEPT ![x] = "queued"] /\ work' = work /\ overflow' = overflow
      BY <2>1, <2>3 DEF Becomes
    <2>14. phase # "idle"  BY <1>5 DEF marking
    <2>15. Len(barrier') <= BarrierCap  BY <1>1, <1>5, <2>5
    <2> QED  BY <1>1, <1>3, <2>4, <2>5, <2>12, <2>13, <2>14, <2>15
  <1>6. CASE marking /\ bits[x] = "marked" /\ ~(Len(barrier) < BarrierCap)
    <2> DEFINE n == Push_GCObject(m, x)
    <2>1. Becomes(n) /\ barrier' = barrier  BY <1>6 DEF WriteBarrierTrap
    <2>2. Marker.bits[x] # "queued"  BY <1>6, MarkerNow
    <2>3. /\ Good(n, barrier, TRUE, FALSE) /\ Range(Marker.work) \subseteq Range(n.work)
          /\ (Marker.overflow => n.overflow) /\ n.bits = [Marker.bits EXCEPT ![x] = n.bits[x]]
          /\ n.bits[x] \in {"white", "queued"} /\ (n.bits[x] = "white" => n.overflow)
      BY <1>1, <2>2, PushObjectFacts
    <2> HIDE DEF n, m
    <2>4. Marker' = n  BY <2>1, <2>3, BecomesIs DEF Good
    <2>5. bits' = n.bits /\ work' = n.work /\ overflow' = n.overflow  BY <2>1 DEF Becomes
    <2>6. phase # "idle"  BY <1>6 DEF marking
    <2>7. \A o \in Objects : o # x => bits'[o] = bits[o]  BY <1>1, <2>3, <2>5, MarkerNow
    <2> QED  BY <1>1, <1>3, <2>1, <2>3, <2>4, <2>5, <2>6, <2>7, MarkerNow
  <1> QED  BY <1>4, <1>5, <1>6

\* A store into an object, or a move of its pointers.
LEMMA WriteStep ==
  ASSUME IndInv,
         \/ \E x \in Objects, i \in Parts, p \in Objects \cup {NULL} : Write(x, i, p)
         \/ \E x \in Objects : MoveWithinBlock(x)
  PROVE  IndInv'
  <1>1. HeapInv /\ Reachable \subseteq alive /\ mem \in [Holders -> [Parts -> Objects \cup {NULL}]]
    BY MarkerNow, LiveAlive DEF HeapInv
  <1>2. alive \subseteq Objects /\ Parts = {1, 2}  BY <1>1, HolderFacts DEF HeapInv
  <1>3. PICK x \in Objects, c \in [Parts -> Objects \cup {NULL}] :
           /\ ProgramRuns /\ x \in alive /\ WriteBarrierTrap(x) /\ mem' = [mem EXCEPT ![x] = c]
           /\ \A i \in Parts : c[i] # NULL => c[i] \in alive /\ i \in SlotsOf(x)
           /\ UNCHANGED <<alive, stack, rootAlive, weak, phase, scan>>
    <2>1. CASE \E x \in Objects, i \in Parts, p \in Objects \cup {NULL} : Write(x, i, p)
      <3>1. PICK x \in Objects, i \in Parts, p \in Objects \cup {NULL} : Write(x, i, p)  BY <2>1
      <3> DEFINE c == [mem[x] EXCEPT ![i] = p]
      <3>2. /\ ProgramRuns /\ x \in alive /\ i \in SlotsOf(x) /\ (p = NULL \/ p \in alive) /\ WriteBarrierTrap(x)
            /\ mem' = [mem EXCEPT ![x][i] = p] /\ UNCHANGED <<alive, stack, rootAlive, weak, phase, scan>>
        BY <1>1, <3>1 DEF Write
      <3>3. x \in Holders /\ mem[x] \in [Parts -> Objects \cup {NULL}]  BY <1>1 DEF Holders
      <3>4. c \in [Parts -> Objects \cup {NULL}]  BY <3>3
      <3>5. mem' = [mem EXCEPT ![x] = c]  BY <3>2
      <3>6. \A j \in Parts : c[j] # NULL => c[j] \in alive /\ j \in SlotsOf(x)
        BY <1>1, <3>2, <3>3 DEF HeapInv
      <3> HIDE DEF c
      <3> QED  BY <3>2, <3>4, <3>5, <3>6
    <2>2. CASE \E x \in Objects : MoveWithinBlock(x)
      <3>1. PICK x \in Objects : MoveWithinBlock(x)  BY <2>2
      <3> DEFINE c == [i \in Parts |-> mem[x][3 - i]]
      <3>2. /\ ProgramRuns /\ x \in alive /\ x \in Large /\ WriteBarrierTrap(x)
            /\ mem' = [mem EXCEPT ![x] = c] /\ UNCHANGED <<alive, stack, rootAlive, weak, phase, scan>>
        BY <1>1, <3>1 DEF MoveWithinBlock
      <3>3. x \in Holders /\ mem[x] \in [Parts -> Objects \cup {NULL}]  BY <1>1 DEF Holders
      <3>4. \A i \in Parts : 3 - i \in Parts  BY <1>2
      <3>5. c \in [Parts -> Objects \cup {NULL}]  BY <3>3, <3>4
      <3>6. SlotsOf(x) = Parts
        <4>1. x \notin Leaf  BY <3>2, GCMarkAssumption
        <4> QED  BY <3>2, <4>1 DEF SlotsOf
      <3>7. \A j \in Parts : c[j] # NULL => c[j] \in alive /\ j \in SlotsOf(x)
        BY <1>1, <3>3, <3>4, <3>6 DEF HeapInv
      <3> HIDE DEF c
      <3> QED  BY <3>2, <3>5, <3>7
    <2> QED  BY <2>1, <2>2
  <1>4. x \in Holders  BY DEF Holders
  <1>5. \A y \in Holders : mem'[y] = IF y = x THEN c ELSE mem[y]  BY <1>1, <1>3, <1>4
  <1>6. HeapInv'
    <2>1. mem' \in [Holders -> [Parts -> Objects \cup {NULL}]]  BY <1>1, <1>3
    <2> QED  BY <1>1, <1>3, <1>5, <2>1 DEF HeapInv
  <1>7. /\ Good(Marker', barrier', TRUE, FALSE) /\ Becomes(Marker')
        /\ barrier' \in Seq(Objects) /\ Len(barrier') <= BarrierCap /\ Range(barrier') \subseteq alive
        /\ bits'[x] # "marked" /\ (bits'[x] = "white" => bits[x] = "white" \/ overflow')
        /\ \A o \in Objects : o # x => bits'[o] = bits[o]
        /\ (overflow => overflow') /\ Range(work) \subseteq Range(work')
        /\ phase = "idle" => UNCHANGED <<markVars, barrier>>
    BY <1>3, BarrierFacts
  <1>8. /\ Marker'.bits = bits' /\ Marker'.work = work' /\ Marker'.overflow = overflow'
    BY DEF Marker
  <1>9. Good(Marker, barrier, TRUE, FALSE)'
    <2>1. AliveItems(Marker, FALSE)'  BY <1>3, <1>7 DEF Good, AliveItems
    <2> QED  BY <1>7, <2>1 DEF Good
  <1>10. ObjTri(Marker)'
    <2> SUFFICES ASSUME NEW y \in Objects, NEW i \in Parts, bits'[y] = "marked", Lost(Marker', mem'[y][i])
                 PROVE  overflow' \/ (i = 2 /\ Tail2(y) \in Range(work'))
      BY <1>8 DEF ObjTri, Lost
    <2>1. y # x /\ bits[y] = "marked" /\ y \in Holders  BY <1>7 DEF Holders
    <2>2. mem'[y][i] = mem[y][i] /\ mem[y][i] # NULL /\ bits'[mem[y][i]] = "white"
      BY <1>5, <1>8, <2>1 DEF Lost
    <2>3. mem[y][i] \in Objects  BY <1>1, <1>2, <2>1, <2>2 DEF HeapInv
    <2>4. bits[mem[y][i]] = "white" \/ overflow'  BY <1>7, <2>2, <2>3
    <2> QED  BY <1>3, <1>7, <2>1, <2>2, <2>4, ProgramNow, MarkerNow DEF ObjTri, Lost
  <1>11. phase = "idle" => /\ \A o \in Objects : bits'[o] = "white"
                           /\ work' = <<>> /\ barrier' = <<>> /\ ~overflow'
    BY <1>3, <1>7, ProgramNow DEF markVars
  <1> QED  BY <1>3, <1>6, <1>7, <1>9, <1>10, <1>11, ProgramStep

\* A root that is destroyed takes its items off the mark stack.
LEMMA DestroyRootStep ==
  ASSUME IndInv, NEW r \in Roots, DestroyRoot(r)
  PROVE  IndInv'
  <1> DEFINE n == SetMarkStackSentinelPointer(Marker, r, 0)
  <1>1. /\ ProgramRuns /\ r \in rootAlive /\ Becomes(n) /\ rootAlive' = rootAlive \ {r}
        /\ mem' = [mem EXCEPT ![r] = Empty] /\ UNCHANGED <<alive, stack, weak, barrier, phase, scan>>
    BY DEF DestroyRoot
  <1>2. HeapInv /\ mem \in [Holders -> [Parts -> Objects \cup {NULL}]] /\ r \in Holders
    BY <1>1, ProgramNow DEF HeapInv, Holders
  <1>3. Empty \in [Parts -> Objects \cup {NULL}] /\ \A i \in Parts : Empty[i] = NULL  BY DEF Empty
  <1>4. \A x \in Holders, i \in Parts : mem'[x][i] = IF x = r THEN NULL ELSE mem[x][i]
    BY <1>1, <1>2, <1>3
  <1>5. HeapInv'
    <2>1. mem' \in [Holders -> [Parts -> Objects \cup {NULL}]]  BY <1>1, <1>2, <1>3
    <2>2. ASSUME NEW x \in Holders, NEW i \in Parts, mem'[x][i] # NULL
          PROVE  mem'[x][i] \in alive' /\ i \in SlotsOf(x) /\ x \in alive' \cup rootAlive'
      <3>1. x # r /\ mem'[x][i] = mem[x][i]  BY <1>4, <2>2
      <3> QED  BY <1>1, <1>2, <2>2, <3>1 DEF HeapInv
    <2> QED  BY <1>1, <1>2, <2>1, <2>2 DEF HeapInv
  <1>6. /\ Good(n, barrier, TRUE, FALSE) /\ Grows(Marker, n, {RootProt(r), Chunk(r)})
        /\ RootProt(r) \notin Range(n.work) /\ Chunk(r) \notin Range(n.work)
        /\ n.bits = bits /\ n.overflow = overflow /\ Len(n.work) = Len(work)
    <2>1. Good(Marker, barrier, TRUE, FALSE)  BY <1>1, ProgramNow
    <2>2. /\ Good(n, barrier, TRUE, FALSE) /\ Grows(Marker, n, {RootProt(r), Chunk(r)})
          /\ RootProt(r) \notin Range(n.work) /\ Chunk(r) \notin Range(n.work)
          /\ n.bits = Marker.bits /\ n.overflow = Marker.overflow /\ Len(n.work) = Len(Marker.work)
      BY <2>1, WipeGood
    <2> QED  BY <2>2, MarkerNow
  <1> HIDE DEF n
  <1>7. Good(Marker, barrier, TRUE, FALSE)' /\ Marker' = n
    <2>1. \A o \in Objects : Obj(o) \in Range(n.work) => o \in alive'
      BY <1>1, <1>6 DEF Good, AliveItems
    <2>2. \A z \in Roots : Chunk(z) \in Range(n.work) \/ RootProt(z) \in Range(n.work) => z \in rootAlive'
      BY <1>1, <1>6 DEF Good, AliveItems
    <2>3. Good(n, barrier', TRUE, FALSE)  BY <1>1, <1>6
    <2> QED  BY <1>1, <2>1, <2>2, <2>3, GoodLater
  <1>8. ObjTri(Marker)'
    <2> SUFFICES ASSUME NEW x \in Objects, NEW i \in Parts, n.bits[x] = "marked", Lost(n, mem'[x][i])
                 PROVE  n.overflow \/ (i = 2 /\ Tail2(x) \in Range(n.work))
      BY <1>7 DEF ObjTri, Lost
    <2>1. x # r /\ x \in Holders  BY HolderFacts DEF Holders
    <2>2. Lost(Marker, mem[x][i]) /\ Marker.bits[x] = "marked"  BY <1>4, <1>6, <2>1, MarkerNow DEF Lost
    <2>3. Marker.overflow \/ (i = 2 /\ Tail2(x) \in Range(Marker.work))  BY <1>1, <2>2, ProgramNow DEF ObjTri
    <2>4. Tail2(x) \notin {RootProt(r), Chunk(r)}  BY ItemFacts
    <2> QED  BY <1>6, <2>3, <2>4 DEF Grows
  <1>9. phase = "idle" => /\ \A o \in Objects : bits'[o] = "white"
                          /\ work' = <<>> /\ barrier' = <<>> /\ ~overflow'
    <2> SUFFICES ASSUME phase = "idle" PROVE /\ \A o \in Objects : bits'[o] = "white"
                                             /\ work' = <<>> /\ barrier' = <<>> /\ ~overflow'
      OBVIOUS
    <2>1. (\A o \in Objects : bits[o] = "white") /\ work = <<>> /\ barrier = <<>> /\ ~overflow
      BY <1>1, ProgramNow
    <2>2. n.work \in Seq(Items) /\ Len(n.work) = 0  BY <1>6, <2>1, EmptySeq, MarkerParts DEF Good
    <2>3. n.work = <<>>  BY <2>2, EmptySeq
    <2> QED  BY <1>1, <1>6, <2>1, <2>3 DEF Becomes
  <1> QED  BY <1>1, <1>5, <1>7, <1>8, <1>9, ProgramNow, ProgramStep
-----------------------------------------------------------------------------
(***************************************************************************)
(* The sweep.                                                              *)
(***************************************************************************)
\* A presweep callback may change the heap as long as the collector sees to it.
LEMMA PresweepStep ==
  ASSUME IndInv, phase = "presweep", UNCHANGED <<stack, rootAlive, barrier, phase, scan>>,
         alive \subseteq alive', HeapInv', NEW n, Becomes(n), Good(n, barrier, FALSE, FALSE),
         \A o \in stack : n.bits[o] = "marked",
         \A x \in Holders, i \in Parts :
            (x \in rootAlive \/ (x \in Objects /\ n.bits[x] = "marked")) /\ Lost(n, mem'[x][i]) =>
               n.overflow \/ (i = 2 /\ Later(x) \in Range(n.work))
  PROVE  IndInv'
  <1>1. Marker' = n /\ bits' = n.bits  BY BecomesIs DEF Good, Becomes
  <1>2. collecting /\ collecting'  BY DEF collecting
  <1>3. AliveItems(Marker, phase = "drain2")'  BY <1>1 DEF Good, AliveItems
  <1>4. Good(Marker, barrier, ~collecting, phase = "drain2")'  BY <1>1, <1>2, <1>3 DEF Good
  <1>5. Range(barrier') \subseteq alive'  BY MarkerNow DEF ScanInv
  <1>6. ScanInv'  BY <1>5, MarkerNow DEF ScanInv, Recovering
  <1>7. PhaseInv'
    <2>1. barrier' = <<>>  BY <1>2, MarkerNow DEF PhaseInv
    <2> QED  BY <1>1, <2>1 DEF PhaseInv
  <1>8. Tri(Marker, Excused)'  BY <1>1 DEF Tri, Black, Lost
  <1> QED  BY <1>4, <1>6, <1>7, <1>8 DEF IndInv

\* Before the sweep frees anything, what a live root or a marked object points to is
\* not white unless the mark stack overflowed.
LEMMA PresweepNow ==
  ASSUME IndInv, phase = "presweep"
  PROVE  /\ HeapInv /\ Good(Marker, barrier, FALSE, FALSE) /\ \A o \in stack : bits[o] = "marked"
         /\ bits \in [Objects -> Colours]
         /\ \A x \in Holders, i \in Parts : Black(Marker, x) /\ Lost(Marker, mem[x][i]) =>
               overflow \/ (i = 2 /\ Later(x) \in Range(work))
  <1>1. Excused = {}  BY NoneExcused
  <1>2. collecting  BY DEF collecting
  <1>3. Good(Marker, barrier, FALSE, FALSE)  BY <1>2, MarkerNow DEF Good
  <1>4. bits \in [Objects -> Colours]  BY MarkerNow, MarkerParts
  <1> QED  BY <1>1, <1>2, <1>3, <1>4, MarkerNow DEF Tri, PhaseInv

\* A callback reads a weak reference: what it gets is queued before anything points to it.
LEMMA PresweepGetStep ==
  ASSUME IndInv, NEW o \in Objects, NEW x \in Holders, NEW i \in Parts, PresweepGet(o, x, i)
  PROVE  IndInv'
  <1> DEFINE q == Push_GCObject([Marker EXCEPT !.bits[o] = "queued"], o)
             n == IF bits[o] = "marked" THEN Marker ELSE q
  <1>1. /\ phase = "presweep" /\ o \in weak /\ x \in rootAlive \cup Reachable /\ i \in SlotsOf(x)
        /\ Becomes(n) /\ mem' = [mem EXCEPT ![x][i] = o]
        /\ UNCHANGED <<alive, stack, rootAlive, weak, barrier, phase, scan>>
    BY DEF PresweepGet
  <1>2. HeapInv /\ mem \in [Holders -> [Parts -> Objects \cup {NULL}]]  BY MarkerNow DEF HeapInv
  <1>3. o \in alive /\ x \in alive \cup rootAlive  BY <1>1, <1>2, LiveAlive DEF HeapInv
  <1>4. mem' \in [Holders -> [Parts -> Objects \cup {NULL}]]  BY <1>1, <1>2
  <1>5. \A z \in Holders, j \in Parts : mem'[z][j] = IF z = x /\ j = i THEN o ELSE mem[z][j]
    BY <1>1, <1>2
  <1>6. HeapInv'  BY <1>1, <1>2, <1>3, <1>4, <1>5 DEF HeapInv
  <1>7. /\ Good(Marker, barrier, FALSE, FALSE) /\ \A y \in stack : bits[y] = "marked"
        /\ bits \in [Objects -> Colours] /\ stack \subseteq Objects
        /\ \A z \in Holders, j \in Parts : Black(Marker, z) /\ Lost(Marker, mem[z][j]) =>
              overflow \/ (j = 2 /\ Later(z) \in Range(work))
    BY <1>1, PresweepNow DEF HeapInv
  <1>8. /\ Good(n, barrier, FALSE, FALSE) /\ Range(work) \subseteq Range(n.work) /\ (overflow => n.overflow)
        /\ \A y \in Objects : y # o => n.bits[y] = bits[y]
        /\ n.bits[o] \in Colours /\ (n.bits[o] = "white" => n.overflow)
        /\ IF bits[o] = "marked" THEN n.bits[o] = "marked" ELSE n.bits[o] # "marked"
    <2>1. CASE bits[o] = "marked"
      <3>1. n = Marker  BY <2>1
      <3> QED  BY <1>7, <2>1, <3>1, MarkerNow DEF Colours
    <2>2. CASE bits[o] # "marked"
      <3>1. n = q  BY <2>2
      <3>2. /\ Good(q, barrier, FALSE, FALSE) /\ Range(Marker.work) \subseteq Range(q.work)
            /\ (Marker.overflow => q.overflow) /\ q.bits = [Marker.bits EXCEPT ![o] = q.bits[o]]
            /\ q.bits[o] \in {"white", "queued"} /\ (q.bits[o] = "white" => q.overflow)
        BY <1>3, <1>7, PushObjectFacts
      <3> HIDE DEF q
      <3> QED  BY <1>7, <2>2, <3>1, <3>2, MarkerNow DEF Colours
    <2> QED  BY <2>1, <2>2
  <1> HIDE DEF n
  <1>9. \A y \in stack : n.bits[y] = "marked"  BY <1>7, <1>8
  <1>10. ASSUME NEW z \in Holders, NEW j \in Parts,
                z \in rootAlive \/ (z \in Objects /\ n.bits[z] = "marked"), Lost(n, mem'[z][j])
         PROVE  n.overflow \/ (j = 2 /\ Later(z) \in Range(n.work))
    <2>1. CASE mem'[z][j] = o  BY <1>8, <1>10, <2>1 DEF Lost
    <2>2. CASE mem'[z][j] # o
      <3>1. mem'[z][j] = mem[z][j] /\ mem[z][j] # NULL  BY <1>5, <1>10, <2>2 DEF Lost
      <3>2. mem[z][j] \in Objects  BY <1>2, <3>1
      <3>3. bits[mem[z][j]] = "white"  BY <1>8, <1>10, <2>2, <3>1, <3>2 DEF Lost
      <3>4. z \in rootAlive \/ (z \in Objects /\ bits[z] = "marked")  BY <1>8, <1>10
      <3>5. Black(Marker, z) /\ Lost(Marker, mem[z][j])  BY <3>1, <3>3, <3>4, MarkerNow DEF Black, Lost
      <3> QED  BY <1>7, <1>8, <3>5
    <2> QED  BY <2>1, <2>2
  <1> QED  BY <1>1, <1>6, <1>8, <1>9, <1>10, PresweepStep

\* A callback's allocation is born marked and has no pointers yet.
LEMMA PresweepAllocStep ==
  ASSUME IndInv, NEW o \in Objects, NEW r \in Roots, NEW i \in Parts, PresweepAlloc(o, r, i)
  PROVE  IndInv'
  <1> DEFINE n == [Marker EXCEPT !.bits = [@ EXCEPT ![o] = "marked"], !.protected = @ \ {o}]
  <1>1. /\ phase = "presweep" /\ o \notin alive /\ r \in rootAlive /\ i \in SlotsOf(r)
        /\ alive' = alive \cup {o} /\ mem' = [mem EXCEPT ![o] = Empty, ![r][i] = o]
        /\ bits' = [bits EXCEPT ![o] = "marked"] /\ protected' = protected \ {o}
        /\ UNCHANGED <<stack, rootAlive, weak, work, barrier, overflow, sentinel, phase, scan>>
    BY DEF PresweepAlloc
  <1>2. HeapInv /\ mem \in [Holders -> [Parts -> Objects \cup {NULL}]] /\ o \in Holders /\ r \in Holders /\ o # r
    BY MarkerNow, HolderFacts DEF HeapInv, Holders
  <1>3. Empty \in [Parts -> Objects \cup {NULL}] /\ \A j \in Parts : Empty[j] = NULL  BY DEF Empty
  <1>4. mem' \in [Holders -> [Parts -> Objects \cup {NULL}]]  BY <1>1, <1>2, <1>3
  <1>5. \A z \in Holders, j \in Parts :
           mem'[z][j] = IF z = o THEN NULL ELSE IF z = r /\ j = i THEN o ELSE mem[z][j]
    BY <1>1, <1>2, <1>3
  <1>6. HeapInv'
    <2>1. ASSUME NEW z \in Holders, NEW j \in Parts, mem'[z][j] # NULL
          PROVE  mem'[z][j] \in alive' /\ j \in SlotsOf(z) /\ z \in alive' \cup rootAlive'
      <3>1. z # o  BY <1>5, <2>1
      <3>2. CASE z = r /\ j = i
        <4>1. mem'[z][j] = o  BY <1>5, <3>1, <3>2
        <4> QED  BY <1>1, <3>2, <4>1
      <3>3. CASE ~(z = r /\ j = i)
        <4>1. mem'[z][j] = mem[z][j]  BY <1>5, <3>1, <3>3
        <4> QED  BY <1>1, <1>2, <2>1, <4>1 DEF HeapInv
      <3> QED  BY <3>2, <3>3
    <2> QED  BY <1>1, <1>2, <1>4, <2>1 DEF HeapInv
  <1>7. /\ Good(Marker, barrier, FALSE, FALSE) /\ \A y \in stack : bits[y] = "marked"
        /\ bits \in [Objects -> Colours] /\ stack \subseteq Objects
        /\ \A z \in Holders, j \in Parts : Black(Marker, z) /\ Lost(Marker, mem[z][j]) =>
              overflow \/ (j = 2 /\ Later(z) \in Range(work))
    BY <1>1, PresweepNow DEF HeapInv
  <1>8. /\ n \in Markers /\ n.bits = [bits EXCEPT ![o] = "marked"] /\ n.work = work /\ n.overflow = overflow
        /\ n.protected = protected \ {o} /\ n.sentinel = sentinel
    <2>1. /\ Marker \in [bits : [Objects -> Colours], work : Seq(Items), overflow : BOOLEAN,
                         protected : SUBSET Large, sentinel : [Roots -> 0..MarkCap]]
          /\ Len(Marker.work) <= MarkCap
      BY MarkerNow DEF Markers
    <2>2. [Marker.bits EXCEPT ![o] = "marked"] \in [Objects -> Colours]  BY <2>1 DEF Colours
    <2>3. Marker.protected \ {o} \in SUBSET Large  BY <2>1
    <2>4. /\ n.bits = [Marker.bits EXCEPT ![o] = "marked"] /\ n.work = Marker.work
          /\ n.overflow = Marker.overflow /\ n.protected = Marker.protected \ {o}
          /\ n.sentinel = Marker.sentinel
      BY <2>1
    <2>5. n \in Markers  BY <2>1, <2>2, <2>3 DEF Markers
    <2> QED  BY <2>4, <2>5, MarkerNow
  <1> HIDE DEF n
  <1>9. Becomes(n)  BY <1>1, <1>8 DEF Becomes
  <1>10. Good(n, barrier, FALSE, FALSE)  BY <1>7, <1>8, MarkerNow, ColourGood
  <1>11. \A y \in stack : n.bits[y] = "marked"  BY <1>7, <1>8
  <1>12. ASSUME NEW z \in Holders, NEW j \in Parts,
                z \in rootAlive \/ (z \in Objects /\ n.bits[z] = "marked"), Lost(n, mem'[z][j])
         PROVE  n.overflow \/ (j = 2 /\ Later(z) \in Range(n.work))
    <2>1. mem'[z][j] # NULL /\ mem'[z][j] # o  BY <1>7, <1>8, <1>12 DEF Lost
    <2>2. z # o /\ mem'[z][j] = mem[z][j]  BY <1>5, <2>1
    <2>3. mem[z][j] \in Objects  BY <1>2, <2>1, <2>2
    <2>4. bits[mem[z][j]] = "white"  BY <1>7, <1>8, <1>12, <2>1, <2>2, <2>3 DEF Lost
    <2>5. z \in rootAlive \/ (z \in Objects /\ bits[z] = "marked")  BY <1>7, <1>8, <1>12, <2>2
    <2>6. Black(Marker, z) /\ Lost(Marker, mem[z][j])  BY <2>1, <2>2, <2>4, <2>5, MarkerNow DEF Black, Lost
    <2> QED  BY <1>7, <1>8, <2>6
  <1> QED  BY <1>1, <1>6, <1>9, <1>10, <1>11, <1>12, PresweepStep

\* When the sweep frees what has no mark, nothing that is kept points to it.
LEMMA SweepMarked ==
  ASSUME IndInv, phase = "drain3", work = <<>>, ~overflow
  PROVE  LET marked == {o \in alive : bits[o] = "marked"}
         IN  /\ HeapInv /\ barrier = <<>> /\ \A o \in Objects : bits[o] # "queued"
             /\ stack \subseteq marked /\ Reachable \subseteq marked
             /\ \A x \in marked \cup rootAlive, i \in Parts : mem[x][i] # NULL => mem[x][i] \in marked
  <1> DEFINE marked == {o \in alive : bits[o] = "marked"}
  <1>1. /\ HeapInv /\ collecting /\ barrier = <<>> /\ \A o \in stack : bits[o] = "marked"
    BY MarkerNow DEF collecting, PhaseInv
  <1>2. Range(work) = {} /\ Range(barrier) = {}
    <2>1. Marker.work \in Seq(Items)  BY MarkerNow, MarkerParts
    <2>2. barrier \in Seq(Objects)  BY MarkerNow DEF ScanInv
    <2> QED  BY <1>1, <2>1, <2>2, MarkerNow, RangeFacts
  <1>3. \A o \in Objects : bits[o] # "queued"
    <2>1. Queue(Marker, barrier)  BY MarkerNow DEF Good
    <2> QED  BY <1>2, <2>1, MarkerNow DEF Queue
  <1>4. bits \in [Objects -> Colours]  BY MarkerNow, MarkerParts
  <1>5. ASSUME NEW x \in marked \cup rootAlive, NEW i \in Parts, mem[x][i] # NULL
        PROVE  mem[x][i] \in marked
    <2>1. x \in Holders /\ Black(Marker, x)  BY <1>1, MarkerNow DEF HeapInv, Holders, Black
    <2>2. mem[x][i] \in alive /\ mem[x][i] \in Objects  BY <1>1, <1>5, <2>1 DEF HeapInv
    <2>3. Tri(Marker, {})  BY MarkerNow, NoneExcused
    <2>4. ~Lost(Marker, mem[x][i])  BY <1>2, <2>1, <2>3, MarkerNow DEF Tri
    <2>5. bits[mem[x][i]] # "white"  BY <1>5, <2>4, MarkerNow DEF Lost
    <2> QED  BY <1>3, <1>4, <2>2, <2>5 DEF Colours
  <1>6. stack \subseteq marked  BY <1>1 DEF HeapInv
  <1>7. Reachable \subseteq marked
    <2>1. marked \in SUBSET Objects  BY <1>1 DEF HeapInv
    <2> HIDE DEF marked
    <2>2. C!Closed(mem, stack, rootAlive, marked)  BY <1>5, <1>6 DEF C!Closed, C!Targets, Parts
    <2> QED  BY <2>1, <2>2 DEF Reachable, C!Live, C!Reachable
  <1> QED  BY <1>1, <1>3, <1>5, <1>6, <1>7

LEMMA SweepStep ==
  ASSUME IndInv, Sweep
  PROVE  IndInv'
  <1> DEFINE marked == {o \in alive : bits[o] = "marked"}
  <1>1. /\ phase = "drain3" /\ phase' = "idle" /\ work = <<>> /\ ~overflow
        /\ alive' = marked /\ weak' = weak \cap marked
        /\ mem' = [x \in DOMAIN mem |-> IF x \in alive \ marked THEN Empty ELSE mem[x]]
        /\ bits' = [o \in Objects |-> "white"]
        /\ UNCHANGED <<stack, rootAlive, work, barrier, overflow, protected, sentinel, scan>>
    BY DEF Sweep, At
  <1>2. /\ HeapInv /\ barrier = <<>> /\ stack \subseteq marked
        /\ \A x \in marked \cup rootAlive, i \in Parts : mem[x][i] # NULL => mem[x][i] \in marked
    BY <1>1, SweepMarked
  <1>3. marked \subseteq alive /\ mem \in [Holders -> [Parts -> Objects \cup {NULL}]]  BY <1>2 DEF HeapInv
  <1> HIDE DEF marked
  <1>4. Empty \in [Parts -> Objects \cup {NULL}] /\ \A i \in Parts : Empty[i] = NULL  BY DEF Empty
  <1>5. HeapInv'
    <2>1. mem' \in [Holders -> [Parts -> Objects \cup {NULL}]]  BY <1>1, <1>3, <1>4
    <2>2. \A x \in Holders : mem'[x] = IF x \in alive \ marked THEN Empty ELSE mem[x]  BY <1>1, <1>3
    <2>3. ASSUME NEW x \in Holders, NEW i \in Parts, mem'[x][i] # NULL
          PROVE  mem'[x][i] \in alive' /\ i \in SlotsOf(x) /\ x \in alive' \cup rootAlive'
      <3>1. x \notin alive \ marked /\ mem'[x][i] = mem[x][i]  BY <1>4, <2>2, <2>3
      <3>2. i \in SlotsOf(x) /\ x \in alive \cup rootAlive  BY <1>2, <2>3, <3>1 DEF HeapInv
      <3> QED  BY <1>1, <1>2, <2>3, <3>1, <3>2
    <2> QED  BY <1>1, <1>2, <1>3, <2>1, <2>3 DEF HeapInv
  <1>6. /\ Marker'.bits = bits' /\ Marker'.work = <<>> /\ ~Marker'.overflow
        /\ Marker'.protected = protected /\ Marker'.sentinel = sentinel /\ Marker' \in Markers
    <2>1. /\ Marker'.bits = bits' /\ Marker'.work = work' /\ Marker'.overflow = overflow'
          /\ Marker'.protected = protected' /\ Marker'.sentinel = sentinel'
      BY DEF Marker
    <2>2. /\ Marker.work \in Seq(Items) /\ Marker.overflow \in BOOLEAN /\ Marker.protected \in SUBSET Large
          /\ Marker.sentinel \in [Roots -> 0..MarkCap] /\ Len(Marker.work) <= MarkCap
      BY MarkerNow, MarkerParts
    <2>3. bits' \in [Objects -> Colours]  BY <1>1 DEF Colours
    <2>4. Marker' \in Markers  BY <1>1, <2>2, <2>3, MarkerNow DEF Marker, Markers
    <2> QED  BY <1>1, <2>1, <2>4
  <1>7. \A r \in Roots : sentinel[r] = 0
    <2>1. RootItems(Marker) /\ Len(work) = 0  BY <1>1, MarkerNow, EmptySeq DEF Good
    <2>2. \A r \in Roots : sentinel[r] # 0 => sentinel[r] \in 1..0  BY <2>1, MarkerNow DEF RootItems
    <2> QED  BY <2>2
  <1>8. Range(<<>>) = {} /\ Len(<<>>) = 0 /\ \A j : j \notin 1..0
    BY EmptySeq, RangeFacts
  <1>9. RootItems(Marker')  BY <1>6, <1>7, <1>8 DEF RootItems
  <1>10. AliveItems(Marker, phase = "drain2")'  BY <1>6, <1>8 DEF AliveItems
  <1>11. Queue(Marker', barrier')  BY <1>1, <1>6 DEF Queue
  <1>12. Exact(Marker', barrier')  BY <1>1, <1>2, <1>6, <1>8 DEF Exact
  <1>13. Good(Marker, barrier, ~collecting, phase = "drain2")'  BY <1>6, <1>9, <1>10, <1>11, <1>12 DEF Good
  <1>14. ScanInv'
    <2>1. Range(barrier') \subseteq alive'  BY <1>1, <1>2, <1>8
    <2> QED  BY <1>1, <2>1, MarkerNow DEF ScanInv, Recovering, Phases
  <1>15. PhaseInv'  BY <1>1, <1>2 DEF PhaseInv, collecting
  <1>16. Tri(Marker, Excused)'
    <2> SUFFICES ASSUME NEW x \in Holders, NEW i \in Parts, Black(Marker, x)'
                 PROVE  <<x, i>> \in Excused'
      BY DEF Tri
    <2>1. x \in Roots  BY <1>1, <1>2, <1>6 DEF Black, HeapInv
    <2>2. Pending(x)'  BY <1>1, <2>1 DEF Pending
    <2> QED  BY <2>2 DEF Excused
  <1> QED  BY <1>5, <1>13, <1>14, <1>15, <1>16 DEF IndInv
-----------------------------------------------------------------------------
(***************************************************************************)
(* The theorems.                                                           *)
(***************************************************************************)
LEMMA InitInv == Init => IndInv
  <1> SUFFICES ASSUME Init PROVE IndInv  OBVIOUS
  <1>1. /\ alive = {} /\ stack = {} /\ weak = {} /\ rootAlive = Roots
        /\ mem = [x \in Holders |-> [i \in Parts |-> NULL]]
        /\ bits = [o \in Objects |-> "white"] /\ work = <<>> /\ barrier = <<>> /\ overflow = FALSE
        /\ protected = {} /\ sentinel = [r \in Roots |-> 0] /\ phase = "idle" /\ scan = 0
    BY DEF Init, C!Init, Holders, Parts
  <1>2. HeapInv
    <2>1. mem \in [Holders -> [Parts -> Objects \cup {NULL}]]  BY <1>1
    <2>2. \A x \in Holders, i \in Parts : mem[x][i] = NULL  BY <1>1
    <2> QED  BY <1>1, <2>1, <2>2 DEF HeapInv
  <1>3. \A S : <<>> \in Seq(S)  BY EmptySeq
  <1>4. Range(<<>>) = {} /\ Len(<<>>) = 0 /\ \A j : j \notin 1..0  BY EmptySeq, RangeFacts
  <1>5. ScanInv
    <2>1. 0 \in 0..(NRoots + NObjects + 1)  BY HolderFacts
    <2> QED  BY <1>1, <1>3, <1>4, <2>1, HolderFacts DEF ScanInv, Recovering, Phases
  <1>6. PhaseInv  BY <1>1 DEF PhaseInv, collecting
  <1>7. /\ Marker.bits = bits /\ Marker.work = <<>> /\ Marker.overflow = FALSE
        /\ Marker.sentinel = sentinel /\ Marker \in Markers
    <2>1. bits \in [Objects -> Colours] /\ protected \in SUBSET Large  BY <1>1 DEF Colours
    <2>2. sentinel \in [Roots -> 0..MarkCap] /\ 0 <= MarkCap
      <3>1. 0 \in 0..MarkCap /\ 0 <= MarkCap  BY HolderFacts
      <3> QED  BY <1>1, <3>1
    <2> QED  BY <1>1, <1>3, <1>4, <2>1, <2>2 DEF Marker, Markers
  <1>8. RootItems(Marker)
    <2>1. \A r \in Roots : Marker.sentinel[r] = 0  BY <1>1, <1>7
    <2> QED  BY <1>4, <1>7, <2>1 DEF RootItems
  <1>9. AliveItems(Marker, phase = "drain2")  BY <1>4, <1>7 DEF AliveItems
  <1>10. Queue(Marker, barrier)  BY <1>1, <1>7 DEF Queue
  <1>11. Exact(Marker, barrier)  BY <1>1, <1>4, <1>7 DEF Exact
  <1>12. Good(Marker, barrier, ~collecting, phase = "drain2")  BY <1>7, <1>8, <1>9, <1>10, <1>11 DEF Good
  <1>13. Tri(Marker, Excused)  BY <1>2, <1>1, <1>7 DEF Tri, Lost, Holders
  <1> QED  BY <1>2, <1>5, <1>6, <1>12, <1>13 DEF IndInv

LEMMA NextInv == IndInv /\ [Next]_vars => IndInv'
  <1> SUFFICES ASSUME IndInv, [Next]_vars PROVE IndInv'  OBVIOUS
  <1>1. CASE Program
    <2>1. ASSUME NEW o \in Objects, Alloc(o) PROVE IndInv'  BY <2>1, AllocStep
    <2>2. ASSUME NEW o \in Objects, Free(o) PROVE IndInv'  BY <2>2, FreeStep
    <2>3. ASSUME NEW o \in Objects, Load(o) \/ Drop(o) \/ GetWeakRef(o) \/ WeakRefGet(o) PROVE IndInv'
      BY <2>3, QuietSteps
    <2>4. ASSUME NEW o \in Objects, MoveWithinBlock(o) PROVE IndInv'  BY <2>4, WriteStep
    <2>5. ASSUME NEW x \in Objects, NEW i \in Parts, NEW p \in Objects \cup {NULL}, Write(x, i, p)
          PROVE  IndInv'
      BY <2>5, WriteStep
    <2>6. ASSUME NEW r \in Roots, NEW i \in Parts, NEW p \in Objects \cup {NULL}, WriteRoot(r, i, p)
          PROVE  IndInv'
      BY <2>6, QuietSteps
    <2>7. ASSUME NEW r \in Roots, DestroyRoot(r) PROVE IndInv'  BY <2>7, DestroyRootStep
    <2>8. ASSUME NEW r \in Roots, CreateRoot(r) PROVE IndInv'  BY <2>8, QuietSteps
    <2> QED  BY <1>1, <2>1, <2>2, <2>3, <2>4, <2>5, <2>6, <2>7, <2>8 DEF Program
  <1>2. CASE Collection
    <2>1. CASE StartIncrementalMark \/ RootsMarked \/ FinishIncrementalMark  BY <2>1, PhaseOnlyStep
    <2>2. CASE MarkRoots  BY <2>2, MarkRootsStep
    <2>3. CASE HandleMarkStackOverflow  BY <2>3, HandleMarkStackOverflowStep
    <2>4. CASE OverflowBeforeRoots \/ OverflowAfterRoots \/ OverflowInSweep  BY <2>4, StartRecoveryStep
    <2>5. CASE RecoveredBeforeRoots \/ FlushAndMarkRoots  BY <2>5, RecoveredBeforeRootsStep
    <2>6. CASE MarkQueueAndStack  BY <2>6, MarkQueueAndStackStep
    <2>7. CASE RecoveredAfterRoots  BY <2>7, RecoveredAfterRootsStep
    <2>8. CASE StartSweep  BY <2>8, StartSweepStep
    <2>9. CASE EndPresweep  BY <2>9, EndPresweepStep
    <2>10. CASE RecoveredInSweep  BY <2>10, RecoveredInSweepStep
    <2>11. CASE Sweep  BY <2>11, SweepStep
    <2>12. CASE Mark  BY <2>12, MarkStep
    <2>13. CASE CheckBarrierWork  BY <2>13, CheckBarrierWorkStep
    <2> QED
      BY <1>2, <2>1, <2>2, <2>3, <2>4, <2>5, <2>6, <2>7, <2>8, <2>9, <2>10, <2>11, <2>12, <2>13
      DEF Collection, Finishing
  <1>3. CASE Presweep
    <2>1. ASSUME NEW o \in Objects, NEW x \in Objects \cup Roots, NEW i \in Parts, PresweepGet(o, x, i)
          PROVE  IndInv'
      BY <2>1, PresweepGetStep DEF Holders
    <2>2. ASSUME NEW o \in Objects, NEW r \in Roots, NEW i \in Parts, PresweepAlloc(o, r, i)
          PROVE  IndInv'
      BY <2>2, PresweepAllocStep
    <2> QED  BY <1>3, <2>1, <2>2 DEF Presweep
  <1>4. CASE UNCHANGED vars
    <2>1. UNCHANGED <<alive, mem, stack, rootAlive, weak, bits, work, barrier, overflow,
                      protected, sentinel, phase, scan>>
      BY <1>4 DEF vars
    <2>2. Marker' = Marker  BY <2>1 DEF Marker
    <2>3. HeapInv' /\ ScanInv'  BY <2>1, MarkerNow DEF HeapInv, ScanInv, Recovering
    <2>4. PhaseInv'  BY <2>1, <2>2, MarkerNow DEF PhaseInv, StackTri, collecting
    <2>5. Good(Marker, barrier, ~collecting, phase = "drain2")'
      BY <2>1, <2>2, MarkerNow DEF Good, AliveItems, collecting
    <2>6. Tri(Marker, Excused)'
      BY <2>1, <2>2, MarkerNow DEF Tri, Black, Lost, Excused, Pending, Recovering
    <2> QED  BY <2>3, <2>4, <2>5, <2>6 DEF IndInv
  <1> QED  BY <1>1, <1>2, <1>3, <1>4 DEF Next

\* Whatever the program and the collector do to each other, the marker's stacks, the
\* colours, the sentinels and the heap stay in the relation IndInv states, which is
\* what makes each slice of GC::Mark safe to stop and to resume.
THEOREM Invariance == Spec => []IndInv
  BY InitInv, NextInv, PTL DEF Spec

-----------------------------------------------------------------------------
(***************************************************************************)
(* What has been freed.                                                    *)
(***************************************************************************)
\* An object that is not allocated is white, and while its kProtected bit stands the
\* mark stack holds neither a tail nor a protector of it.
Split(m, o) == Tail2(o) \in Range(m.work) \/ Protector(o) \in Range(m.work)
Forgotten(m) ==
    \A o \in Objects \ alive : m.bits[o] = "white" /\ (o \in m.protected => ~Split(m, o))

\* Less on the mark stack, or an item of nothing that was freed.
LEMMA ForgottenLess ==
  ASSUME NEW m, NEW n, Forgotten(m), n.bits = m.bits, n.protected \subseteq m.protected, NEW e,
         Range(n.work) \subseteq Range(m.work) \cup {e},
         \A o \in Objects \ alive : e # Tail2(o) /\ e # Protector(o)
  PROVE  Forgotten(n)
  BY DEF Forgotten, Split

LEMMA ForgottenPush ==
  ASSUME NEW m \in Markers, Forgotten(m), NEW t \in Items,
         \A o \in Objects \ alive : t # Tail2(o) /\ t # Protector(o)
  PROVE  Forgotten(Push(m, t)) /\ Push(m, t) \in Markers
  <1> DEFINE n == Push(m, t)
  <1>1. n \in Markers /\ n.bits = m.bits /\ n.protected = m.protected /\ Range(n.work) \subseteq Range(m.work) \cup {t}
    BY PushFacts
  <1> QED  BY <1>1, ForgottenLess

\* GC::Push_GCObject of an object that is allocated.
LEMMA ForgottenObject ==
  ASSUME NEW m \in Markers, Forgotten(m), NEW p \in Objects \cap alive
  PROVE  LET n == Push_GCObject([m EXCEPT !.bits[p] = "queued"], p)
         IN  Forgotten(n) /\ n \in Markers
  <1> DEFINE q == [m EXCEPT !.bits[p] = "queued"]
             n == Push_GCObject(q, p)
  <1>1. /\ m.bits \in [Objects -> Colours] /\ m.work \in Seq(Items) /\ m.overflow \in BOOLEAN
        /\ m.protected \in SUBSET Large /\ m.sentinel \in [Roots -> 0..MarkCap]
        /\ Len(m.work) \in Nat /\ Len(m.work) <= MarkCap /\ MarkCap \in Nat
    BY MarkerParts, HolderFacts
  <1>2. q \in Markers  BY <1>1 DEF Markers, Colours
  <1>3. /\ q.bits = [m.bits EXCEPT ![p] = "queued"] /\ q.work = m.work /\ q.overflow = m.overflow
        /\ q.sentinel = m.sentinel /\ q.protected = m.protected
    BY <1>1 DEF Markers
  <1>4. HasRoom(q) <=> Len(m.work) < MarkCap  BY <1>3 DEF HasRoom
  <1>5. Forgotten(q)
    <2>1. \A o \in Objects \ alive : q.bits[o] = m.bits[o]  BY <1>1, <1>3
    <2> QED  BY <1>3, <2>1 DEF Forgotten, Split
  <1> HIDE DEF q
  <1>6. CASE HasRoom(q)
    <2>1. n = Push(q, Obj(p))  BY <1>6 DEF Push_GCObject, Push
    <2>2. Obj(p) \in Items /\ \A o : Obj(p) # Tail2(o) /\ Obj(p) # Protector(o)  BY ItemFacts DEF Items
    <2>3. Forgotten(Push(q, Obj(p))) /\ Push(q, Obj(p)) \in Markers  BY <1>2, <1>5, <2>2, ForgottenPush
    <2> QED  BY <2>1, <2>3 DEF q
  <1>7. CASE ~HasRoom(q)
    <2>1. n = [q EXCEPT !.bits[p] = "white", !.overflow = TRUE]  BY <1>7 DEF Push_GCObject
    <2>2. q.bits \in [Objects -> Colours]  BY <1>2, MarkerParts
    <2>3. [q.bits EXCEPT ![p] = "white"] \in [Objects -> Colours]  BY <2>2 DEF Colours
    <2>4. /\ n.bits = [q.bits EXCEPT ![p] = "white"] /\ n.work = q.work /\ n.protected = q.protected
          /\ n \in Markers
      BY <1>2, <2>1, <2>3 DEF Markers
    <2>5. \A o \in Objects \ alive : n.bits[o] = q.bits[o]  BY <2>2, <2>4
    <2> HIDE DEF n
    <2>6. Forgotten(n)  BY <1>5, <2>4, <2>5 DEF Forgotten, Split
    <2> QED  BY <2>4, <2>6 DEF n, q
  <1> QED  BY <1>6, <1>7

\* GC::TracePointer of a pointer to an object that is allocated.
LEMMA ForgottenTrace ==
  ASSUME HeapInv, NEW m \in Markers, Forgotten(m), NEW p, p # NULL => p \in alive
  PROVE  Forgotten(TracePointer(m, p)) /\ TracePointer(m, p) \in Markers
  <1> DEFINE n == TracePointer(m, p)
  <1>1. m.bits \in [Objects -> Colours]  BY MarkerParts
  <1>2. CASE p = NULL \/ m.bits[p] # "white"  BY <1>2 DEF TracePointer
  <1>3. CASE ~(p = NULL \/ m.bits[p] # "white") /\ p \in Leaf
    <2>1. n = [m EXCEPT !.bits[p] = "marked"] /\ p \in Objects \cap alive  BY <1>3 DEF TracePointer, HeapInv
    <2>2. [m.bits EXCEPT ![p] = "marked"] \in [Objects -> Colours]  BY <1>1 DEF Colours
    <2>3. /\ n.bits = [m.bits EXCEPT ![p] = "marked"] /\ n.work = m.work /\ n.protected = m.protected
          /\ n \in Markers
      BY <2>1, <2>2 DEF Markers
    <2>4. \A o \in Objects \ alive : n.bits[o] = m.bits[o]  BY <1>1, <2>1, <2>3
    <2> HIDE DEF n
    <2>5. Forgotten(n)  BY <2>3, <2>4 DEF Forgotten, Split
    <2> QED  BY <2>3, <2>5 DEF n
  <1>4. CASE ~(p = NULL \/ m.bits[p] # "white") /\ p \notin Leaf
    <2>1. n = Push_GCObject([m EXCEPT !.bits[p] = "queued"], p)  BY <1>4 DEF TracePointer
    <2>2. p \in Objects \cap alive  BY <1>4 DEF HeapInv
    <2> QED  BY <2>1, <2>2, ForgottenObject
  <1> QED  BY <1>2, <1>3, <1>4

\* The pointers of a holder.
LEMMA HeldAlive ==
  ASSUME HeapInv, NEW x \in Holders, NEW i \in Parts
  PROVE  mem[x][i] # NULL => mem[x][i] \in alive
  BY DEF HeapInv

\* An object that is allocated is traced, in two parts when it is large.
LEMMA ForgottenItem ==
  ASSUME HeapInv, NEW m \in Markers, Forgotten(m), NEW x \in Objects \cap alive
  PROVE  Forgotten(MarkItem_GCObject(m, x)) /\ MarkItem_GCObject(m, x) \in Markers
  <1> DEFINE m1 == [m EXCEPT !.bits[x] = "marked"]
             h == TracePointer(m1, mem[x][1])
             p == [h EXCEPT !.protected = @ \cup {x}]
             q == Push(p, Protector(x))
             n == MarkItem_GCObject(m, x)
  <1>1. m.bits \in [Objects -> Colours]  BY MarkerParts
  <1>2. m1 \in Markers /\ m1.bits = [m.bits EXCEPT ![x] = "marked"] /\ m1.work = m.work
        /\ m1.protected = m.protected
    BY <1>1 DEF Markers, Colours
  <1>3. Forgotten(m1)
    <2>1. \A o \in Objects \ alive : m1.bits[o] = m.bits[o]  BY <1>1, <1>2
    <2> QED  BY <1>2, <2>1 DEF Forgotten, Split
  <1> HIDE DEF m1
  <1>4. Forgotten(h) /\ h \in Markers
    <2>1. x \in Holders /\ 1 \in Parts  BY HolderFacts DEF Holders
    <2> QED  BY <1>2, <1>3, <2>1, HeldAlive, ForgottenTrace
  <1> HIDE DEF h
  <1>5. CASE x \notin Large
    <2>1. n = h  BY <1>5 DEF MarkItem_GCObject, h, m1
    <2> QED  BY <1>4, <2>1
  <1>6. CASE x \in Large
    <2>1. n = Push(q, Tail2(x))  BY <1>6 DEF MarkItem_GCObject, SplitExactGCObject, h, m1
    <2>2. h.protected \in SUBSET Large  BY <1>4, MarkerParts
    <2>3. p \in Markers /\ p.bits = h.bits /\ p.work = h.work /\ p.protected = h.protected \cup {x}
      BY <1>4, <1>6, <2>2 DEF Markers
    <2>4. Forgotten(p)  BY <1>4, <2>3 DEF Forgotten, Split
    <2> HIDE DEF p
    <2>5. /\ Protector(x) \in Items /\ Tail2(x) \in Items
          /\ \A o : Protector(x) # Tail2(o) /\ (Protector(x) = Protector(o) => x = o)
          /\ \A o : Tail2(x) # Protector(o) /\ (Tail2(x) = Tail2(o) => x = o)
      <3>1. \A o : Protector(x) = Protector(o) => x = o  BY DEF Protector
      <3> QED  BY <1>6, <3>1, ItemFacts DEF Items
    <2>6. Forgotten(q) /\ q \in Markers  BY <2>3, <2>4, <2>5, ForgottenPush
    <2> HIDE DEF q
    <2>7. Forgotten(Push(q, Tail2(x))) /\ Push(q, Tail2(x)) \in Markers  BY <2>5, <2>6, ForgottenPush
    <2> QED  BY <2>1, <2>7
  <1> QED  BY <1>5, <1>6

\* What happens to a root leaves at most a dead item in place of its own.
LEMMA ForgottenSentinel ==
  ASSUME NEW m \in Markers, Forgotten(m), NEW r \in Roots, NEW c \in 0..MarkCap
  PROVE  LET n == SetMarkStackSentinelPointer(m, r, c)
         IN  Forgotten(n) /\ n \in Markers
  <1> DEFINE q == IF m.sentinel[r] # 0 THEN ClearRootProtectorAndChunkAbove(m, r) ELSE m
             n == SetMarkStackSentinelPointer(m, r, c)
  <1>1. /\ m.work \in Seq(Items) /\ Len(m.work) \in Nat /\ Len(m.work) <= MarkCap
        /\ DOMAIN m.work = 1..Len(m.work) /\ \A j \in 1..Len(m.work) : m.work[j] \in Items
    BY MarkerParts, RangeFacts
  <1>2. q \in Markers /\ q.bits = m.bits /\ q.protected = m.protected
        /\ Range(q.work) \subseteq Range(m.work) \cup {Dead}
    <2>1. CASE m.sentinel[r] = 0  BY <2>1
    <2>2. CASE m.sentinel[r] # 0
      <3> DEFINE above == {i \in (m.sentinel[r] + 1)..Len(m.work) : m.work[i] = Chunk(r)}
                 cleared == {m.sentinel[r]} \cup {i \in above : \A j \in above : i <= j}
                 w == [i \in 1..Len(m.work) |-> IF i \in cleared THEN Dead ELSE m.work[i]]
      <3>1. q = [m EXCEPT !.work = w]  BY <1>1, <2>2 DEF ClearRootProtectorAndChunkAbove
      <3> HIDE DEF cleared
      <3>2. w \in [1..Len(m.work) -> Items]  BY <1>1 DEF Items
      <3>3. w \in Seq(Items) /\ DOMAIN w = 1..Len(m.work)  BY <1>1, <3>2, SeqDef
      <3>4. Len(w) = Len(m.work)  BY <1>1, <3>3, LenProperties
      <3>5. Range(w) \subseteq Range(m.work) \cup {Dead}
        <4> SUFFICES ASSUME NEW j \in 1..Len(m.work) PROVE w[j] \in Range(m.work) \cup {Dead}
          BY <3>3 DEF Range
        <4> QED  BY <1>1 DEF Range
      <3> HIDE DEF w, q
      <3>6. q \in Markers /\ q.bits = m.bits /\ q.protected = m.protected /\ q.work = w
        BY <1>1, <3>1, <3>3, <3>4 DEF Markers
      <3> QED  BY <3>5, <3>6
    <2> QED  BY <2>1, <2>2
  <1>3. n = [q EXCEPT !.sentinel[r] = c]  BY DEF SetMarkStackSentinelPointer
  <1> HIDE DEF q
  <1>4. q.sentinel \in [Roots -> 0..MarkCap]  BY <1>2, MarkerParts
  <1>5. n \in Markers /\ n.bits = q.bits /\ n.protected = q.protected /\ n.work = q.work
    <2> DEFINE s == [q.sentinel EXCEPT ![r] = c]
    <2>1. s \in [Roots -> 0..MarkCap]  BY <1>4
    <2>2. n = [q EXCEPT !.sentinel = s]  BY <1>3
    <2> HIDE DEF s, n
    <2> QED  BY <1>2, <2>1, <2>2 DEF Markers
  <1>6. \A o : Dead # Tail2(o) /\ Dead # Protector(o)  BY ItemFacts
  <1> HIDE DEF n
  <1>7. Forgotten(n)  BY <1>2, <1>5, <1>6, ForgottenLess
  <1> QED  BY <1>5, <1>7 DEF n

LEMMA ForgottenRoot ==
  ASSUME HeapInv, NEW m \in Markers, Forgotten(m), NEW r \in Roots
  PROVE  Forgotten(MarkRoot(m, r)) /\ MarkRoot(m, r) \in Markers
  <1> DEFINE p == Push(m, RootProt(r))
             g == IF r \notin LargeRoots THEN m
                  ELSE IF HasRoom(m) THEN SetMarkStackSentinelPointer(p, r, Len(m.work) + 1) ELSE p
             t == IF r \in LargeRoots THEN Push(g, Chunk(r)) ELSE g
             n == TracePointer(t, mem[r][1])
  <1>0. n = MarkRoot(m, r)  BY DEF MarkRoot
  <1>1. Len(m.work) \in Nat /\ MarkCap \in Nat  BY MarkerParts, HolderFacts
  <1>2. /\ RootProt(r) \in Items /\ Chunk(r) \in Items
        /\ \A o : RootProt(r) # Tail2(o) /\ RootProt(r) # Protector(o) /\ Chunk(r) # Tail2(o) /\ Chunk(r) # Protector(o)
    BY ItemFacts DEF Items
  <1>3. Forgotten(p) /\ p \in Markers  BY <1>2, ForgottenPush
  <1> HIDE DEF p
  <1>4. Forgotten(g) /\ g \in Markers
    <2>1. CASE r \in LargeRoots /\ HasRoom(m)
      <3>1. Len(m.work) + 1 \in 0..MarkCap  BY <1>1, <2>1 DEF HasRoom
      <3>2. g = SetMarkStackSentinelPointer(p, r, Len(m.work) + 1)  BY <2>1
      <3> QED  BY <1>3, <3>1, <3>2, ForgottenSentinel
    <2> QED  BY <1>3, <2>1
  <1> HIDE DEF g
  <1>5. Forgotten(t) /\ t \in Markers  BY <1>2, <1>4, ForgottenPush
  <1> HIDE DEF t
  <1>6. r \in Holders /\ 1 \in Parts  BY HolderFacts DEF Holders
  <1>7. Forgotten(n) /\ n \in Markers  BY <1>5, <1>6, HeldAlive, ForgottenTrace
  <1> QED  BY <1>0, <1>7

\* GC::Mark: one item of the mark stack.
LEMMA ForgottenTop ==
  ASSUME HeapInv, NEW m \in Markers, Forgotten(m), m.work # <<>>, NEW k, AliveItems(m, k), NEW n \in MarkTopItem(m)
  PROVE  Forgotten(n)
  <1> DEFINE rest == [m EXCEPT !.work = Front(@)]
             t == Last(m.work)
  <1>1. /\ rest \in Markers /\ rest.work = Front(m.work) /\ rest.bits = m.bits
        /\ Range(m.work) = Range(rest.work) \cup {t} /\ t \in Items
    BY PopFacts
  <1>2. rest.protected = m.protected  BY DEF Markers
  <1>3. alive \subseteq Objects /\ stack \subseteq alive /\ 1 \in Parts /\ 2 \in Parts  BY HolderFacts DEF HeapInv
  <1>4. Dead \in Items /\ \A o : Dead # Tail2(o) /\ Dead # Protector(o)  BY ItemFacts DEF Items
  <1>5. t \in Range(m.work)  BY <1>1
  <1> HIDE DEF rest
  <1>6. Forgotten(rest)  BY <1>1, <1>2, <1>4, ForgottenLess
  <1> HIDE DEF t
  <1>7. ASSUME NEW o \in Objects, t = Obj(o) PROVE Forgotten(n)
    <2>1. n = MarkItem_GCObject(rest, o)  BY <1>7, TopIs DEF t, rest
    <2>2. o \in alive  BY <1>5, <1>7 DEF AliveItems
    <2> QED  BY <1>1, <1>6, <2>1, <2>2, ForgottenItem
  <1>8. ASSUME NEW o \in Objects, t = Tail2(o) PROVE Forgotten(n)
    <2>1. n = TracePointer(Push(rest, Dead), mem[o][2])
      BY <1>8, TopIs DEF t, rest, MarkItem_ExactObjectTail
    <2>2. Forgotten(Push(rest, Dead)) /\ Push(rest, Dead) \in Markers  BY <1>1, <1>4, <1>6, ForgottenPush
    <2>3. mem[o][2] # NULL => mem[o][2] \in alive  BY <1>3, HeldAlive DEF Holders
    <2> QED  BY <2>1, <2>2, <2>3, ForgottenTrace
  <1>9. ASSUME NEW o \in Large, t = Protector(o) PROVE Forgotten(n)
    <2>1. n = [rest EXCEPT !.protected = @ \ {o}]  BY <1>9, TopIs DEF t, rest
    <2>2. n.bits = rest.bits /\ n.work = rest.work /\ n.protected = rest.protected \ {o}
      BY <1>1, <2>1 DEF Markers
    <2> QED  BY <1>6, <2>2 DEF Forgotten, Split
  <1>10. ASSUME NEW r \in Roots, t = Chunk(r) PROVE Forgotten(n)
    <2>1. n = TracePointer(rest, mem[r][2])  BY <1>10, TopIs DEF t, rest
    <2>2. mem[r][2] # NULL => mem[r][2] \in alive  BY <1>3, HeldAlive DEF Holders
    <2> QED  BY <1>1, <1>6, <2>1, <2>2, ForgottenTrace
  <1>11. ASSUME NEW r \in Roots, t = RootProt(r) PROVE Forgotten(n)
    <2>1. n = [rest EXCEPT !.sentinel[r] = 0]  BY <1>11, TopIs DEF t, rest
    <2>2. n.bits = rest.bits /\ n.work = rest.work /\ n.protected = rest.protected
      BY <1>1, <2>1 DEF Markers
    <2> QED  BY <1>6, <2>2 DEF Forgotten, Split
  <1>12. ASSUME NEW S \in SUBSET Objects, t = StackMem(S) PROVE Forgotten(n)
    <2>1. PICK o \in S : n = TracePointer(IF S = {o} THEN rest ELSE Push(rest, StackMem(S \ {o})), o)
      BY <1>12, StackTopFacts DEF t, rest
    <2>2. o \in alive  BY <1>3, <1>5, <1>12, <2>1 DEF AliveItems
    <2>3. StackMem(S \ {o}) \in Items /\ \A x : StackMem(S \ {o}) # Tail2(x) /\ StackMem(S \ {o}) # Protector(x)
      BY ItemFacts DEF Items
    <2>4. Forgotten(Push(rest, StackMem(S \ {o}))) /\ Push(rest, StackMem(S \ {o})) \in Markers
      BY <1>1, <1>6, <2>3, ForgottenPush
    <2>5. CASE S = {o}
      <3>1. n = TracePointer(rest, o)  BY <2>1, <2>5
      <3> QED  BY <1>1, <1>6, <2>2, <3>1, ForgottenTrace
    <2>6. CASE S # {o}
      <3>1. n = TracePointer(Push(rest, StackMem(S \ {o})), o)  BY <2>1, <2>6
      <3> QED  BY <2>2, <2>4, <3>1, ForgottenTrace
    <2> QED  BY <2>5, <2>6
  <1>13. CASE t = Dead
    <2>1. n = rest  BY <1>13, TopIs DEF t, rest
    <2> QED  BY <1>6, <2>1
  <1> QED  BY <1>1, <1>7, <1>8, <1>9, <1>10, <1>11, <1>12, <1>13 DEF Items

\* GC::FlushBarrierWork with an empty mark stack brings objects only.
LEMMA ForgottenFlush ==
  ASSUME IndInv, Forgotten(Marker), work = <<>>
  PROVE  Forgotten(FlushBarrierWork(Marker))
  <1> DEFINE n == FlushBarrierWork(Marker)
             moved == [i \in DOMAIN barrier |-> Obj(barrier[i])]
  <1>1. Marker \in Markers /\ Marker.work = <<>> /\ barrier \in Seq(Objects)
    BY MarkerNow DEF ScanInv
  <1>2. Len(barrier) \in Nat /\ DOMAIN barrier = 1..Len(barrier) /\ \A j \in 1..Len(barrier) : barrier[j] \in Objects
    BY <1>1, RangeFacts
  <1>3. moved \in Seq(Items) /\ \A e \in Range(moved) : \A o : e # Tail2(o) /\ e # Protector(o)
    <2>1. moved \in [1..Len(barrier) -> Items]  BY <1>2 DEF Items
    <2>2. moved \in Seq(Items)  BY <1>2, <2>1, SeqDef
    <2>3. \A e \in Range(moved) : \E x : e = Obj(x)  BY <1>2 DEF Range
    <2> QED  BY <2>2, <2>3, ItemFacts
  <1> HIDE DEF moved
  <1>4. CASE Fits(Marker)
    <2>1. n = [Marker EXCEPT !.work = moved \o @]  BY <1>4 DEF FlushBarrierWork, moved
    <2>2. moved \o Marker.work = moved  BY <1>1, <1>3, ConcatEmptySeq
    <2>3. n.work = moved /\ n.bits = Marker.bits /\ n.protected = Marker.protected
      BY <1>1, <2>1, <2>2 DEF Markers
    <2> HIDE DEF n
    <2>4. Forgotten(n)  BY <1>3, <2>3 DEF Forgotten, Split
    <2> QED  BY <2>4 DEF n
  <1>5. CASE ~Fits(Marker) /\ OneFits(Marker)
    <2>1. n = [Marker EXCEPT !.work = Append(@, Last(moved)), !.overflow = TRUE] /\ barrier # <<>>
      BY <1>5 DEF FlushBarrierWork, moved, OneFits
    <2>2. Last(moved) \in Range(moved) /\ Last(moved) \in Items
      <3>1. Range(barrier) # {}  BY <1>1, <2>1, RangeFacts
      <3>2. Range(moved) # {}  BY <1>2, <3>1 DEF Range, moved
      <3>3. moved # <<>>  BY <1>3, <3>2, RangeFacts
      <3> QED  BY <1>3, <3>3, FrontFacts
    <2>3. n.work = Append(Marker.work, Last(moved)) /\ n.bits = Marker.bits /\ n.protected = Marker.protected
      BY <1>1, <2>1 DEF Markers
    <2>4. Range(Append(Marker.work, Last(moved))) = Range(Marker.work) \cup {Last(moved)}
      <3>1. Marker.work \in Seq(Items)  BY <1>1, MarkerParts
      <3> HIDE DEF n
      <3> QED  BY <2>2, <3>1, AppendFacts
    <2> HIDE DEF n
    <2>5. Forgotten(n)  BY <1>3, <2>2, <2>3, <2>4, ForgottenLess
    <2> QED  BY <2>5 DEF n
  <1>6. CASE ~Fits(Marker) /\ ~OneFits(Marker)
    <2>1. n = [Marker EXCEPT !.overflow = TRUE]  BY <1>6 DEF FlushBarrierWork
    <2>2. n.work = Marker.work /\ n.bits = Marker.bits /\ n.protected = Marker.protected
      BY <1>1, <2>1 DEF Markers
    <2> QED  BY <2>2 DEF Forgotten, Split
  <1> QED  BY <1>4, <1>5, <1>6

LEMMA ForgottenStack ==
  ASSUME NEW m \in Markers, Forgotten(m), stack \subseteq Objects
  PROVE  Forgotten(PushStackMemory(m))
  <1>1. StackMem(stack) \in Items /\ \A o : StackMem(stack) # Tail2(o) /\ StackMem(stack) # Protector(o)
    BY ItemFacts DEF Items
  <1>2. Forgotten(Push(m, StackMem(stack)))  BY <1>1, ForgottenPush
  <1> QED  BY <1>2 DEF PushStackMemory

\* The write barrier queues an object that is allocated.
LEMMA ForgottenBarrier ==
  ASSUME IndInv, Forgotten(Marker), NEW x \in Objects \cap alive, WriteBarrierTrap(x), alive' = alive
  PROVE  Forgotten(Marker)'
  <1> DEFINE m == [Marker EXCEPT !.bits[x] = "queued"]
  <1>1. Marker \in Markers /\ Marker.bits \in [Objects -> Colours]  BY MarkerNow, MarkerParts
  <1>2. CASE UNCHANGED <<markVars, barrier>>
    <2>1. Marker' = Marker  BY <1>2 DEF Marker, markVars
    <2> QED  BY <2>1 DEF Forgotten, Split
  <1>3. CASE Becomes(m)
    <2>1. m.bits = [Marker.bits EXCEPT ![x] = "queued"] /\ m.work = Marker.work /\ m.protected = Marker.protected
      BY <1>1 DEF Markers
    <2>2. \A o \in Objects \ alive : m.bits[o] = Marker.bits[o]  BY <1>1, <2>1
    <2>3. Forgotten(m)  BY <2>1, <2>2 DEF Forgotten, Split
    <2> QED  BY <1>3, <2>3 DEF Forgotten, Split, Becomes, Marker
  <1>4. CASE Becomes(Push_GCObject(m, x))
    <2>1. Forgotten(Push_GCObject(m, x))  BY <1>1, ForgottenObject
    <2> QED  BY <1>4, <2>1 DEF Forgotten, Split, Becomes, Marker
  <1> QED  BY <1>2, <1>3, <1>4 DEF WriteBarrierTrap

LEMMA ForgottenStep ==
  ASSUME IndInv, IndInv', Forgotten(Marker), [Next]_vars
  PROVE  Forgotten(Marker)'
  <1>1. HeapInv /\ Marker \in Markers /\ Marker.bits = bits /\ Marker.work = work /\ Marker.protected = protected
        /\ AliveItems(Marker, phase = "drain2") /\ alive \subseteq Objects /\ stack \subseteq Objects
        /\ bits \in [Objects -> Colours]
    BY MarkerNow, MarkerParts DEF Good, HeapInv
  <1>2. \A n : Forgotten(n) /\ Becomes(n) /\ alive' = alive => Forgotten(Marker)'
    BY DEF Forgotten, Split, Becomes, Marker
  <1>3. UNCHANGED <<alive, bits, work, protected>> => Forgotten(Marker)'
    BY DEF Forgotten, Split, Marker
  <1>4. Range(<<>>) = {}  BY RangeFacts, EmptySeq
  <1>5. CASE Program
    <2>1. ASSUME NEW o \in Objects, Alloc(o) PROVE Forgotten(Marker)'
      <3>1. /\ alive' = alive \cup {o} /\ bits' = [bits EXCEPT ![o] = "white"] /\ work' = work
            /\ protected' = protected \ {o}
        BY <2>1 DEF Alloc
      <3> QED  BY <1>1, <3>1 DEF Forgotten, Split, Marker
    <2>2. ASSUME NEW o \in Objects, Free(o) PROVE Forgotten(Marker)'
      <3>1. work' = work /\ protected' = protected  BY <2>2 DEF Free
      <3>2. CASE marking /\ (bits[o] = "queued" \/ o \in protected)
        <4>1. alive' = alive /\ bits' = bits  BY <2>2, <3>2 DEF Free
        <4> QED  BY <1>3, <3>1, <4>1
      <3>3. CASE ~(marking /\ (bits[o] = "queued" \/ o \in protected))
        <4>1. alive' = alive \ {o} /\ bits' = [bits EXCEPT ![o] = "white"]  BY <2>2, <3>3 DEF Free
        <4>2. o \notin protected \/ work = <<>>  BY <3>3, MarkerNow DEF marking, PhaseInv
        <4>3. o \in protected => ~Split(Marker, o)  BY <1>1, <1>4, <4>2 DEF Split
        <4> QED  BY <1>1, <3>1, <4>1, <4>3 DEF Forgotten, Split, Marker
      <3> QED  BY <3>2, <3>3
    <2>3. ASSUME NEW x \in Objects, WriteBarrierTrap(x), x \in Reachable, alive' = alive PROVE Forgotten(Marker)'
      <3>1. x \in Objects \cap alive  BY <1>1, <2>3, LiveAlive
      <3> QED  BY <2>3, <3>1, ForgottenBarrier
    <2>4. ASSUME NEW o \in Objects, Load(o) \/ Drop(o) \/ GetWeakRef(o) \/ WeakRefGet(o)
          PROVE  Forgotten(Marker)'
      BY <1>3, <2>4 DEF Load, Drop, GetWeakRef, WeakRefGet, markVars
    <2>5. ASSUME NEW o \in Objects, MoveWithinBlock(o) PROVE Forgotten(Marker)'
      <3>1. WriteBarrierTrap(o) /\ o \in Reachable /\ alive' = alive  BY <2>5 DEF MoveWithinBlock
      <3> QED  BY <2>3, <3>1
    <2>6. ASSUME NEW x \in Objects, NEW i \in Parts, NEW p \in Objects \cup {NULL}, Write(x, i, p)
          PROVE  Forgotten(Marker)'
      <3>1. WriteBarrierTrap(x) /\ x \in Reachable /\ alive' = alive  BY <2>6 DEF Write
      <3> QED  BY <2>3, <3>1
    <2>7. ASSUME NEW r \in Roots, NEW i \in Parts, NEW p \in Objects \cup {NULL}, WriteRoot(r, i, p)
          PROVE  Forgotten(Marker)'
      BY <1>3, <2>7 DEF WriteRoot, markVars
    <2>8. ASSUME NEW r \in Roots, DestroyRoot(r) PROVE Forgotten(Marker)'
      <3>1. Becomes(SetMarkStackSentinelPointer(Marker, r, 0)) /\ alive' = alive  BY <2>8 DEF DestroyRoot
      <3>2. 0 \in 0..MarkCap  BY HolderFacts
      <3>3. Forgotten(SetMarkStackSentinelPointer(Marker, r, 0))  BY <1>1, <3>2, ForgottenSentinel
      <3> QED  BY <1>2, <3>1, <3>3
    <2>9. ASSUME NEW r \in Roots, CreateRoot(r) PROVE Forgotten(Marker)'
      BY <1>3, <2>9 DEF CreateRoot, markVars
    <2> QED  BY <1>5, <2>1, <2>2, <2>4, <2>5, <2>6, <2>7, <2>8, <2>9 DEF Program
  <1>6. CASE Collection
    <2>1. CASE StartIncrementalMark \/ RootsMarked \/ FinishIncrementalMark \/ StartSweep \/ RecoveredInSweep
      BY <1>3, <2>1 DEF StartIncrementalMark, RootsMarked, FinishIncrementalMark, StartSweep, RecoveredInSweep,
         progVars, markVars
    <2>2. CASE OverflowBeforeRoots \/ OverflowAfterRoots \/ OverflowInSweep \/ EndPresweep
      BY <1>3, <2>2 DEF OverflowBeforeRoots, OverflowAfterRoots, OverflowInSweep, StartRecovery, EndPresweep, progVars
    <2>3. CASE MarkRoots
      <3>1. /\ Becomes(IF NObjects + scan \in rootAlive THEN MarkRoot(Marker, NObjects + scan) ELSE Marker)
            /\ alive' = alive
        BY <2>3 DEF MarkRoots, progVars
      <3>2. NObjects + scan \in rootAlive => Forgotten(MarkRoot(Marker, NObjects + scan))
        BY <1>1, ForgottenRoot DEF HeapInv
      <3>3. CASE NObjects + scan \in rootAlive
        <4>1. Becomes(MarkRoot(Marker, NObjects + scan))  BY <3>1, <3>3
        <4> QED  BY <1>2, <3>1, <3>2, <3>3, <4>1
      <3>4. CASE NObjects + scan \notin rootAlive
        <4>1. Becomes(Marker)  BY <3>1, <3>4
        <4> QED  BY <1>2, <3>1, <4>1
      <3> QED  BY <3>3, <3>4
    <2>4. CASE HandleMarkStackOverflow
      <3>1. /\ Becomes(IF ~Scanned(scan) THEN Marker
                       ELSE IF scan <= NRoots THEN MarkRoot(Marker, Place(scan))
                       ELSE MarkItem_GCObject(Marker, Place(scan)))
            /\ alive' = alive /\ Recovering /\ scan <= NRoots + NObjects
        BY <2>4 DEF HandleMarkStackOverflow, progVars, Recovering
      <3>2. scan \in 1..(NRoots + NObjects)
        <4>1. scan # 0  BY <3>1, MarkerNow DEF ScanInv
        <4> QED  BY <3>1, <4>1, MarkerNow
      <3>3. Place(scan) \in Holders /\ (scan <= NRoots <=> Place(scan) \in Roots)  BY <3>2, PlaceFacts
      <3>4. CASE ~Scanned(scan)
        <4>1. Becomes(Marker)  BY <3>1, <3>4
        <4> QED  BY <1>2, <3>1, <4>1
      <3>5. CASE Scanned(scan) /\ scan <= NRoots
        <4>1. Becomes(MarkRoot(Marker, Place(scan)))  BY <3>1, <3>5
        <4>2. Forgotten(MarkRoot(Marker, Place(scan)))  BY <1>1, <3>3, <3>5, ForgottenRoot
        <4> QED  BY <1>2, <3>1, <4>1, <4>2
      <3>6. CASE Scanned(scan) /\ ~(scan <= NRoots)
        <4>1. Becomes(MarkItem_GCObject(Marker, Place(scan)))  BY <3>1, <3>6
        <4>2. Place(scan) \in Objects \cap alive
          <5>1. Place(scan) \in Objects /\ Place(scan) \notin Roots  BY <3>3, <3>6 DEF Holders
          <5>2. bits[Place(scan)] = "marked"  BY <1>1, <3>6, <5>1 DEF Scanned, HeapInv
          <5> QED  BY <1>1, <5>1, <5>2 DEF Forgotten
        <4>3. Forgotten(MarkItem_GCObject(Marker, Place(scan)))  BY <1>1, <4>2, ForgottenItem
        <4> QED  BY <1>2, <3>1, <4>1, <4>3
      <3> QED  BY <3>4, <3>5, <3>6
    <2>5. CASE Mark
      <3>1. work # <<>> /\ alive' = alive  BY <2>5 DEF Mark, progVars
      <3>2. PICK n \in MarkTopItem(Marker) : Becomes(n)  BY <2>5 DEF Mark
      <3>3. Forgotten(n)  BY <1>1, <3>1, ForgottenTop
      <3> QED  BY <1>2, <3>1, <3>2, <3>3
    <2>6. CASE RecoveredBeforeRoots \/ FlushAndMarkRoots
      <3>1. Becomes(FlushBarrierWork(Marker)) /\ work = <<>> /\ alive' = alive
        BY <2>6 DEF RecoveredBeforeRoots, FlushAndMarkRoots, Recovered, progVars
      <3>2. Forgotten(FlushBarrierWork(Marker))  BY <3>1, ForgottenFlush
      <3> QED  BY <1>2, <3>1, <3>2
    <2>7. CASE MarkQueueAndStack
      <3>1. Becomes(PushStackMemory(Marker)) /\ alive' = alive  BY <2>7 DEF MarkQueueAndStack, progVars
      <3>2. Forgotten(PushStackMemory(Marker))  BY <1>1, ForgottenStack
      <3> QED  BY <1>2, <3>1, <3>2
    <2>8. CASE RecoveredAfterRoots
      <3>1. /\ Becomes(PushStackMemory(FlushBarrierWork(Marker))) /\ work = <<>> /\ alive' = alive
            /\ phase = "recover2"
        BY <2>8 DEF RecoveredAfterRoots, Recovered, At, progVars
      <3>2. Forgotten(FlushBarrierWork(Marker))  BY <3>1, ForgottenFlush
      <3>3. FlushBarrierWork(Marker) \in Markers
        <4>1. ~collecting  BY <3>1 DEF collecting
        <4>2. Good(Marker, barrier, TRUE, phase = "drain2")  BY <4>1, MarkerNow DEF Good
        <4> QED  BY <3>1, <4>1, <4>2, FlushFacts DEF Good
      <3>4. Forgotten(PushStackMemory(FlushBarrierWork(Marker)))  BY <1>1, <3>2, <3>3, ForgottenStack
      <3> QED  BY <1>2, <3>1, <3>4
    <2>9. CASE CheckBarrierWork
      <3> DEFINE e == barrier[Len(barrier) - 1]
      <3>1. work' = <<Obj(e)>> /\ alive' = alive /\ bits' = bits /\ protected' = protected
        BY <2>9 DEF CheckBarrierWork, progVars
      <3> HIDE DEF e
      <3>2. Range(<<Obj(e)>>) \subseteq {Obj(e)}  BY DEF Range
      <3>3. \A o : Obj(e) # Tail2(o) /\ Obj(e) # Protector(o)  BY ItemFacts
      <3> QED  BY <3>1, <3>2, <3>3 DEF Forgotten, Split, Marker
    <2>10. CASE Sweep
      <3>1. work = <<>> /\ work' = work /\ bits' = [o \in Objects |-> "white"]  BY <2>10 DEF Sweep
      <3> QED  BY <1>4, <3>1 DEF Forgotten, Split, Marker
    <2> QED
      BY <1>6, <2>1, <2>2, <2>3, <2>4, <2>5, <2>6, <2>7, <2>8, <2>9, <2>10 DEF Collection, Finishing
  <1>7. CASE Presweep
    <2>1. ASSUME NEW o \in Objects, NEW x \in Objects \cup Roots, NEW i \in Parts, PresweepGet(o, x, i)
          PROVE  Forgotten(Marker)'
      <3>1. /\ Becomes(IF bits[o] = "marked" THEN Marker
                       ELSE Push_GCObject([Marker EXCEPT !.bits[o] = "queued"], o))
            /\ alive' = alive /\ o \in weak
        BY <2>1 DEF PresweepGet
      <3>2. o \in Objects \cap alive  BY <1>1, <3>1 DEF HeapInv
      <3>3. CASE bits[o] = "marked"
        <4>1. Becomes(Marker)  BY <3>1, <3>3
        <4> QED  BY <1>2, <3>1, <4>1
      <3>4. CASE bits[o] # "marked"
        <4>1. Becomes(Push_GCObject([Marker EXCEPT !.bits[o] = "queued"], o))  BY <3>1, <3>4
        <4>2. Forgotten(Push_GCObject([Marker EXCEPT !.bits[o] = "queued"], o))  BY <1>1, <3>2, ForgottenObject
        <4> QED  BY <1>2, <3>1, <4>1, <4>2
      <3> QED  BY <3>3, <3>4
    <2>2. ASSUME NEW o \in Objects, NEW r \in Roots, NEW i \in Parts, PresweepAlloc(o, r, i)
          PROVE  Forgotten(Marker)'
      <3>1. /\ alive' = alive \cup {o} /\ bits' = [bits EXCEPT ![o] = "marked"] /\ work' = work
            /\ protected' = protected \ {o}
        BY <2>2 DEF PresweepAlloc
      <3> QED  BY <1>1, <3>1 DEF Forgotten, Split, Marker
    <2> QED  BY <1>7, <2>1, <2>2 DEF Presweep
  <1>8. CASE UNCHANGED vars  BY <1>3, <1>8 DEF vars
  <1> QED  BY <1>5, <1>6, <1>7, <1>8 DEF Next

\* Whatever is freed is white, and while its kProtected bit stands the mark stack has
\* neither a tail nor a protector of it: what is left of an object that was traced twice
\* has no bit any more.
THEOREM ForgottenHolds == Spec => []Forgotten(Marker)
  <1>1. Init => Forgotten(Marker)
    <2> SUFFICES ASSUME Init PROVE Forgotten(Marker)  OBVIOUS
    <2>1. bits = [o \in Objects |-> "white"] /\ protected = {}  BY DEF Init
    <2> QED  BY <2>1 DEF Forgotten, Marker
  <1>2. IndInv /\ IndInv' /\ Forgotten(Marker) /\ [Next]_vars => Forgotten(Marker)'  BY ForgottenStep
  <1> QED  BY <1>1, <1>2, Invariance, PTL DEF Spec

\* What the marker owes a trace is queued and on a stack, and until the sweep nothing
\* else is; no whole object on its stacks, no large object whose tail is there under its
\* kProtected bit, no root with an item there and no object with a weak reference has
\* been freed (GC::Free, GCRoot::Destroy, MarkOrClearWeakRefs).
THEOREM MarkerConsistentHolds == Spec => []MarkerConsistent
  <1>1. IndInv /\ Forgotten(Marker) => MarkerConsistent
    <2> SUFFICES ASSUME IndInv, Forgotten(Marker) PROVE MarkerConsistent  OBVIOUS
    <2>1. /\ HeapInv /\ ScanInv /\ Good(Marker, barrier, ~collecting, phase = "drain2")
          /\ bits \in [Objects -> Colours] /\ overflow \in BOOLEAN /\ protected \in SUBSET Large
          /\ sentinel \in [Roots -> 0..MarkCap] /\ Len(work) <= MarkCap /\ Range(barrier) \subseteq Objects
      <3>1. Range(barrier) \subseteq Objects  BY MarkerNow, RangeFacts DEF ScanInv
      <3> QED  BY <3>1, MarkerNow, MarkerParts
    <2>2. TypeOK
      <3>1. weak \subseteq Objects /\ stack \subseteq Objects  BY <2>1 DEF HeapInv
      <3> QED  BY <2>1, <3>1 DEF TypeOK, HeapInv, ScanInv, Holders, Colours
    <2>3. QueuedExact  BY <2>1, MarkerNow DEF QueuedExact, OnStack, Good, Queue, Exact
    <2>4. StackedAlive
      <3>1. \A o \in protected : Tail2(o) \in Range(work) \/ Protector(o) \in Range(work) => o \in alive
        BY <2>1, MarkerNow, HolderFacts DEF Forgotten, Split
      <3> QED  BY <2>1, <3>1, MarkerNow DEF StackedAlive, OnStack, Good, AliveItems, ScanInv
    <2>5. WeakAlive  BY <2>1 DEF WeakAlive, HeapInv
    <2> QED  BY <2>2, <2>3, <2>4, <2>5 DEF MarkerConsistent
  <1> QED  BY <1>1, Invariance, ForgottenHolds, PTL

\* FindMissingWriteBarriers never finds one: while the mark stack has not overflowed,
\* no part of an object that was traced points to a white object.
THEOREM NoBlackToWhiteHolds == Spec => []NoBlackToWhite
  <1>1. IndInv => NoBlackToWhite
    <2> SUFFICES ASSUME IndInv, ~overflow, phase \notin {"idle", "recover", "recover2", "recover3"},
                        NEW o \in alive, NEW i \in Parts,
                        bits[o] = "marked", mem[o][i] # NULL, bits[mem[o][i]] = "white"
                 PROVE  i = 2 /\ Tail2(o) \in Range(work)
      BY DEF NoBlackToWhite
    <2>1. o \in Objects /\ o \in Holders /\ o \notin Roots
      BY MarkerNow, HolderFacts DEF HeapInv, Holders
    <2>2. Black(Marker, o) /\ Lost(Marker, mem[o][i])  BY <2>1, MarkerNow DEF Black, Lost
    <2>3. <<o, i>> \notin Excused  BY <2>1 DEF Excused, Pending, Recovering
    <2>4. Marker.overflow \/ (i = 2 /\ Later(o) \in Range(Marker.work))
      BY <2>1, <2>2, <2>3, MarkerNow DEF Tri
    <2> QED  BY <2>1, <2>4, MarkerNow DEF Later
  <1> QED  BY <1>1, Invariance, PTL

\* A step that frees nothing is one the abstract collector lets the program take.
LEMMA MutateStep ==
  ASSUME HeapInv, HeapInv', alive \subseteq alive'
  PROVE  C!Mutate
  <1>1. alive' \subseteq Objects /\ stack' \subseteq alive' /\ rootAlive' \subseteq Roots
        /\ mem' \in [Holders -> [Parts -> Objects \cup {NULL}]]
    BY DEF HeapInv
  <1>2. \E new \in SUBSET (Objects \ alive) : alive' = alive \cup new
    <2>1. alive' \ alive \in SUBSET (Objects \ alive) /\ alive' = alive \cup (alive' \ alive)  BY <1>1
    <2> QED  BY <2>1
  <1>3. C!Closed(mem', stack', rootAlive', alive')
    <2>1. stack' \subseteq alive' /\ rootAlive' \subseteq Holders /\ alive' \subseteq Holders
      BY <1>1 DEF Holders
    <2>2. \A x \in Holders : C!Targets(mem', x) \subseteq alive'  BY DEF HeapInv, C!Targets, Parts
    <2> QED  BY <2>1, <2>2 DEF C!Closed
  <1>4. C!Live' \subseteq alive'
    <2>1. C!Live' = C!Reachable(mem', stack', rootAlive')  BY DEF C!Live
    <2>2. alive' \in SUBSET Objects  BY <1>1
    <2> QED  BY <1>3, <2>1, <2>2 DEF C!Reachable
  <1>5. mem' \in [Objects \cup Roots -> [C!Parts -> Objects \cup {NULL}]]  BY <1>1 DEF Holders, Parts
  <1> QED  BY <1>1, <1>2, <1>4, <1>5 DEF C!Mutate

\* GC::Free is the explicit delete.
LEMMA DeleteStep ==
  ASSUME HeapInv, NEW o \in Objects, Free(o)
  PROVE  C!Delete
  <1>1. /\ o \in stack /\ \A x \in (alive \cup rootAlive) \ {o} : o \notin C!Targets(mem, x)
        /\ stack' = stack \ {o} /\ mem' = [mem EXCEPT ![o] = Empty]
        /\ alive' \in {alive, alive \ {o}} /\ UNCHANGED rootAlive
    BY DEF Free
  <1>2. Empty = [i \in C!Parts |-> NULL]  BY DEF Empty, Parts
  <1> QED  BY <1>1, <1>2 DEF C!Delete

\* GC::Sweep is the collection, since all that can be reached has a mark by then.
LEMMA CollectStep ==
  ASSUME IndInv, Sweep
  PROVE  C!Collect
  <1> DEFINE marked == {o \in alive : bits[o] = "marked"}
  <1>1. /\ phase = "drain3" /\ work = <<>> /\ ~overflow /\ alive' = marked
        /\ mem' = [x \in DOMAIN mem |-> IF x \in alive \ marked THEN Empty ELSE mem[x]]
        /\ UNCHANGED <<stack, rootAlive>>
    BY DEF Sweep, At
  <1>2. Reachable \subseteq marked /\ HeapInv  BY <1>1, SweepMarked
  <1>3. marked \subseteq alive /\ DOMAIN mem = Holders  BY <1>2 DEF HeapInv
  <1> HIDE DEF marked
  <1>4. alive \ marked \in SUBSET (alive \ C!Live)  BY <1>2 DEF Reachable
  <1>5. alive' = alive \ (alive \ marked)  BY <1>1, <1>3
  <1>6. \A x \in (Objects \cup Roots) \ (alive \ marked) : mem'[x] = mem[x]  BY <1>1, <1>3 DEF Holders
  <1> QED  BY <1>1, <1>4, <1>5, <1>6 DEF C!Collect

\* Marking and sweeping, with all that the program does in between, implement the
\* collector the program relies on: a step frees only what GC::Free was told to or
\* what the program cannot reach, and writes no pointer the program did not write.
THEOREM RefinesCollector == Spec => IsCollector
  <1>1. Init => C!Init  BY DEF Init
  <1>2. IndInv /\ IndInv' /\ [Next]_vars => [C!Next]_(C!vars)
    <2> SUFFICES ASSUME IndInv, IndInv', [Next]_vars PROVE [C!Next]_(C!vars)  OBVIOUS
    <2>1. HeapInv /\ HeapInv'  BY DEF IndInv
    <2>2. CASE Program
      <3>1. CASE \E o \in Objects : Free(o)  BY <2>1, <3>1, DeleteStep DEF C!Next
      <3>2. CASE ~\E o \in Objects : Free(o)
        <4>1. alive \subseteq alive'
          BY <2>2, <3>2 DEF Program, Alloc, Load, Drop, GetWeakRef, WeakRefGet, MoveWithinBlock, Write,
             WriteRoot, DestroyRoot, CreateRoot
        <4> QED  BY <2>1, <4>1, MutateStep DEF C!Next
      <3> QED  BY <3>1, <3>2
    <2>3. CASE Sweep  BY <2>3, CollectStep DEF C!Next
    <2>4. CASE Collection /\ ~Sweep
      <3>1. UNCHANGED progVars
        BY <2>4 DEF Collection, Finishing, StartIncrementalMark, FinishIncrementalMark, MarkRoots, RootsMarked,
           HandleMarkStackOverflow, OverflowBeforeRoots, RecoveredBeforeRoots, FlushAndMarkRoots,
           MarkQueueAndStack, OverflowAfterRoots, RecoveredAfterRoots, StartSweep, EndPresweep,
           OverflowInSweep, RecoveredInSweep, Mark, CheckBarrierWork, StartRecovery
      <3> QED  BY <3>1 DEF progVars, C!vars
    <2>5. CASE Presweep
      <3>1. alive \subseteq alive'  BY <2>5 DEF Presweep, PresweepGet, PresweepAlloc
      <3> QED  BY <2>1, <3>1, MutateStep DEF C!Next
    <2>6. CASE UNCHANGED vars  BY <2>6 DEF vars, C!vars
    <2> QED  BY <2>2, <2>3, <2>4, <2>5, <2>6 DEF Next
  <1>3. Spec => C!Init /\ [][C!Next]_(C!vars)  BY <1>1, <1>2, Invariance, PTL DEF Spec
  <1> QED  BY <1>3 DEF IsCollector, C!Spec
=============================================================================
