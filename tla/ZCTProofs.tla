------------------------------ MODULE ZCTProofs ------------------------------
(***************************************************************************)
(* ZCT for any finite set of objects and any size of the table: counts     *)
(* are exact, the table is what the reaper takes it for, and counting      *)
(* implements Collector: nothing is freed that the program can reach.      *)
(***************************************************************************)
EXTENDS ZCT, FiniteSetTheorems, SequenceTheorems, TLAPS

Values == Objects \cup {NULL}
Tables == [rc : [Objects -> Nat], sticky : SUBSET Objects, idx : [Objects -> Nat], pinned : SUBSET Objects,
           zct : Seq(Values), segs : Nat \ {0}, budget : 0..1, missed : SUBSET Objects]

\* The table once o has become sticky.
Stuck(z, o) == [RemoveIfListed(z, o) EXCEPT !.sticky = @ \cup {o}, !.missed = @ \ {o}]

\* DecrementRef by a destructor that a reap runs.
InReap(mode) == mode = "reap"

\* n entries end in the last of s blocks.
Fit(n, s) == n \in (s - 1) * SegCap .. s * SegCap

\* Every entry of a list is that of a living object whose index leads to it.
Entries(s, ix, A) == \A i \in DOMAIN s : s[i] # NULL => s[i] \in A /\ ix[s[i]] = i
Sits(s, ix, o) == ix[o] \in DOMAIN s /\ s[ix[o]] = o

\* The table z of the living objects A, of which a reap has moved those in ps.
TabInv(z, A, ps) ==
    /\ z \in Tables /\ A \in SUBSET Objects /\ ps \in Seq(Values)
    /\ z.sticky \subseteq A /\ z.pinned \subseteq A /\ z.missed \subseteq A
    /\ \A o \in Objects \ A : z.rc[o] = 0 /\ z.idx[o] = 0
    /\ \A o \in Objects : z.rc[o] <= StickyAt /\ (o \notin z.sticky => z.rc[o] < StickyAt)
    /\ Entries(z.zct, z.idx, A) /\ Entries(ps, z.idx, A)
    /\ \A o \in A : z.idx[o] # 0 =>
          /\ Sits(z.zct, z.idx, o) \/ Sits(ps, z.idx, o)
          /\ ~(Sits(z.zct, z.idx, o) /\ Sits(ps, z.idx, o))
          /\ z.rc[o] = 0 /\ o \notin z.sticky
    /\ Fit(Len(z.zct), z.segs)

\* The objects of E with count zero are known, and no listed object is pinned.
ZeroKnown(z, E) == \A o \in Objects : o \in E \ z.sticky /\ z.rc[o] = 0 => z.idx[o] # 0 \/ o \in z.missed
Unpinned(z) == \A o \in Objects : z.idx[o] # 0 => o \notin z.pinned

\* The fields as they are counted: one whose old value waits to be listed has
\* given up its reference.
Counted == IF after[1] \in {"store", "delete"} THEN [field EXCEPT ![after[2]] = NULL] ELSE field
Refs(f, o) == {x \in Holders : f[x] = o}
CountsAre(r, A, f) == \A o \in A : r[o] = Cardinality(Refs(f, o))

\* What the program and the sweep leave alive.
HeapInv ==
    /\ alive \subseteq Objects /\ condemned \subseteq alive
    /\ stack \subseteq alive \ condemned
    /\ field \in [Holders -> Values]
    /\ \A x \in Holders \ condemned : field[x] \in (alive \ condemned) \cup {NULL}
    /\ \A o \in Objects \ alive : field[o] = NULL
    /\ phase \in {"run", "reap", "collect"}
    /\ condemned # {} => phase = "collect"

\* An operation that reaps in the middle of itself.
AfterInv ==
    /\ pins \in Seq(Values)
    /\ phase # "reap" => adding = NULL /\ after = Nothing /\ pins = <<>>
    /\ after \in Afters /\ adding \in alive \cup {NULL}
    /\ adding = NULL <=> after = Nothing
    /\ after[1] = "store" => after[2] \in stack \cup {Root} /\ after[3] \in stack \cup {NULL}
    /\ after[1] = "delete" => after[2] \in stack /\ \A x \in Holders \ {after[2]} : field[x] # after[2]
    /\ after[1] \in {"store", "delete"} => field[after[2]] = adding

\* The object that waits to be added is not listed.
AddInv == adding # NULL => rc[adding] = 0 /\ idx[adding] = 0 /\ adding \notin sticky

\* While a reap runs, what the stack points to is pinned or moved already.
PinInv ==
    /\ \A i \in DOMAIN pins : pins[i] \notin pinned
    /\ phase = "reap" => \A o \in stack \cup ({adding} \ {NULL}) : o \in pinned \/ Sits(pins, idx, o)
    /\ phase # "reap" => Unpinned(Table)

\* Code that a reap runs holds objects that are alive, and not the one that an
\* interrupted delete is about to free; nothing points to the object it destroys.
FrameInv ==
    /\ running \in alive \cup {Callback, NULL} /\ locals \subseteq alive
    /\ running # NULL => phase = "reap"
    /\ running = NULL => locals = {}
    /\ running \in Objects =>
          /\ running \notin stack \cup locals \cup {adding} /\ \A x \in Holders : field[x] # running
          /\ rc[running] = 0 /\ idx[running] = 0 /\ running \notin sticky
    /\ after[1] = "delete" => after[2] \notin locals
Idle == running = NULL /\ locals = {}

IndInv ==
    /\ HeapInv /\ AfterInv /\ AddInv /\ PinInv /\ FrameInv
    /\ TabInv(Table, alive, pins)
    /\ CountsAre(rc, alive \ sticky, Counted)
    /\ ZeroKnown(Table, alive \ (condemned \cup {adding, running}))

-----------------------------------------------------------------------------
\* The last block of the table.
LEMMA FitFacts ==
  ASSUME NEW n \in Nat, NEW s \in Nat \ {0}, Fit(n, s)
  PROVE  /\ n < s * SegCap => Fit(n + 1, s)
         /\ ~(n < s * SegCap) => Fit(n, s + 1) /\ n < (s + 1) * SegCap /\ n = s * SegCap
         /\ n # 0 => LET t == IF n = (s - 1) * SegCap THEN s - 1 ELSE s
                     IN  t \in Nat \ {0} /\ Fit(n - 1, t)
  <1>1. SegCap \in Nat /\ SegCap >= 2  BY ZCTAssumption
  <1>2. /\ (s - 1) * SegCap = s * SegCap - SegCap /\ (s + 1) * SegCap = s * SegCap + SegCap
        /\ ((s + 1) - 1) * SegCap = s * SegCap /\ ((s - 1) - 1) * SegCap = s * SegCap - 2 * SegCap
        /\ s * SegCap \in Nat
    BY <1>1
  <1>3. n \in (s * SegCap - SegCap)..(s * SegCap)  BY <1>2 DEF Fit
  <1>4. n < s * SegCap => Fit(n + 1, s)  BY <1>1, <1>2, <1>3 DEF Fit
  <1>5. ~(n < s * SegCap) => Fit(n, s + 1) /\ n < (s + 1) * SegCap /\ n = s * SegCap
    BY <1>1, <1>2, <1>3 DEF Fit
  <1>6. ASSUME n # 0, n = (s - 1) * SegCap PROVE s - 1 \in Nat \ {0} /\ Fit(n - 1, s - 1)
    <2>1. s # 1  BY <1>1, <1>6
    <2> QED  BY <1>1, <1>2, <1>3, <1>6, <2>1 DEF Fit
  <1>7. ASSUME n # 0, n # (s - 1) * SegCap PROVE Fit(n - 1, s)
    BY <1>1, <1>2, <1>3, <1>7 DEF Fit
  <1> QED  BY <1>4, <1>5, <1>6, <1>7

\* The blocks of a list of n entries.
LEMMA FitDiv ==
  ASSUME NEW n \in Nat \ {0}
  PROVE  (n + SegCap - 1) \div SegCap \in Nat \ {0} /\ Fit(n, (n + SegCap - 1) \div SegCap)
  <1> DEFINE c == SegCap
             d == (n + c - 1) \div c
             m == (n + c - 1) % c
  <1>1. c \in Nat /\ c >= 2  BY ZCTAssumption
  <1>2. n + c - 1 \in Nat /\ d \in Int /\ m \in 0..(c - 1) /\ n + c - 1 = c * d + m  BY <1>1
  <1> HIDE DEF d, m, c
  <1>3. c * d = d * c /\ (d - 1) * c = d * c - c  BY <1>1, <1>2
  <1>4. n \in (d - 1) * c .. d * c  BY <1>1, <1>2, <1>3
  <1>5. d # 0
    <2>1. d = 0 => d * c = 0  BY <1>1
    <2> QED  BY <1>4, <2>1, <1>2
  <1>6. ~(d < 0)
    <2>1. d < 0 => d * c <= -c  BY <1>1, <1>2
    <2> QED  BY <1>1, <1>2, <1>3, <2>1
  <1>7. d \in Nat \ {0}  BY <1>2, <1>5, <1>6
  <1> QED  BY <1>4, <1>7 DEF Fit, c, d

\* A list without its last entry.
LEMMA FrontFacts ==
  ASSUME NEW S, NEW s \in Seq(S), s # <<>>
  PROVE  /\ Front(s) \in Seq(S) /\ Len(Front(s)) = Len(s) - 1 /\ Len(s) \in Nat \ {0}
         /\ \A i \in 1..(Len(s) - 1) : Front(s)[i] = s[i]
         /\ Last(s) = s[Len(s)] /\ Last(s) \in S
  <1>1. Len(s) \in Nat /\ Len(s) # 0  BY EmptySeq, LenProperties
  <1>2. \A i \in 1..(Len(s) - 1) : s[i] \in S  
    <2>1. \A i \in 1..(Len(s) - 1) : i \in 1..Len(s)  BY <1>1
    <2> QED  BY <2>1, ElementOfSeq
  <1>3. Len(s) - 1 \in Int  BY <1>1
  <1>4. /\ SubSeq(s, 1, Len(s) - 1) \in Seq(S)
        /\ Len(SubSeq(s, 1, Len(s) - 1)) = IF 1 <= Len(s) - 1 THEN (Len(s) - 1) - 1 + 1 ELSE 0
        /\ \A i \in 1..((Len(s) - 1) - 1 + 1) : SubSeq(s, 1, Len(s) - 1)[i] = s[1 + i - 1]
    BY <1>2, <1>3, SubSeqProperties
  <1>5. /\ (IF 1 <= Len(s) - 1 THEN (Len(s) - 1) - 1 + 1 ELSE 0) = Len(s) - 1
        /\ (Len(s) - 1) - 1 + 1 = Len(s) - 1
    BY <1>1
  <1>6. \A i \in 1..(Len(s) - 1) : 1 + i - 1 = i  BY <1>1
  <1>7. s[Len(s)] \in S  BY <1>1, ElementOfSeq
  <1> QED  BY <1>1, <1>4, <1>5, <1>6, <1>7 DEF Front, Last

-----------------------------------------------------------------------------
(***************************************************************************)
(* The operations on tables, field by field.                               *)
(***************************************************************************)
LEMMA EnterFields ==
  ASSUME NEW z \in Tables, NEW o \in Objects, NEW mode
  PROVE  LET w == Enter(z, o, mode) IN
         /\ w \in Tables /\ w.rc = z.rc /\ w.sticky = z.sticky
         /\ w.idx = [z.idx EXCEPT ![o] = Len(z.zct) + 1]
         /\ (InReap(mode) => w.pinned = z.pinned) /\ (~InReap(mode) => w.pinned = z.pinned \ {o})
         /\ w.zct = Append(z.zct, o) /\ w.segs = z.segs /\ w.budget = z.budget /\ w.missed = z.missed
  <1>1. z.zct \in Seq(Values) /\ Len(z.zct) \in Nat  BY LenProperties DEF Tables
  <1>2. Append(z.zct, o) \in Seq(Values)  BY <1>1, AppendProperties DEF Values
  <1>3. Len(z.zct) + 1 \in Nat  BY <1>1
  <1>4. (IF mode = "reap" THEN z.pinned ELSE z.pinned \ {o}) \in SUBSET Objects  BY DEF Tables
  <1> HIDE DEF Values
  <1> QED  BY <1>2, <1>3, <1>4 DEF Enter, Tables, InReap

LEMMA MissFields ==
  ASSUME NEW z \in Tables, NEW o \in Objects
  PROVE  LET w == Miss(z, o) IN
         /\ w \in Tables /\ w.rc = z.rc /\ w.sticky = z.sticky /\ w.idx = z.idx /\ w.pinned = z.pinned
         /\ w.zct = z.zct /\ w.segs = z.segs /\ w.budget = z.budget /\ w.missed = z.missed \cup {o}
  BY DEF Miss, Tables

LEMMA GrowFields ==
  ASSUME NEW z \in Tables
  PROVE  LET w == Grow(z) IN
         /\ w \in Tables /\ w.rc = z.rc /\ w.sticky = z.sticky /\ w.idx = z.idx /\ w.pinned = z.pinned
         /\ w.zct = z.zct /\ w.segs = z.segs + 1 /\ w.missed = z.missed
  <1>1. z.segs + 1 \in Nat \ {0} /\ (IF z.budget > 0 THEN z.budget - 1 ELSE 0) \in 0..1  BY DEF Tables
  <1> QED  BY <1>1 DEF Grow, Tables

LEMMA RemoveFields ==
  ASSUME NEW z \in Tables, NEW o \in Objects, z.idx[o] \in DOMAIN z.zct
  PROVE  LET w == RemoveFromZCT(z, o) IN
         /\ w \in Tables /\ w.rc = z.rc /\ w.sticky = z.sticky /\ w.idx = [z.idx EXCEPT ![o] = 0]
         /\ w.pinned = z.pinned /\ w.zct = [z.zct EXCEPT ![z.idx[o]] = NULL] /\ Len(w.zct) = Len(z.zct)
         /\ w.segs = z.segs /\ w.budget = z.budget /\ w.missed = z.missed
  <1>1. z.zct \in Seq(Values) /\ NULL \in Values /\ z.idx[o] \in 1..Len(z.zct)
    BY LenProperties DEF Tables, Values
  <1>2. [z.zct EXCEPT ![z.idx[o]] = NULL] \in Seq(Values) /\ Len([z.zct EXCEPT ![z.idx[o]] = NULL]) = Len(z.zct)
    BY <1>1, ExceptSeq
  <1> QED  BY <1>1, <1>2 DEF RemoveFromZCT, Tables

LEMMA DecrementFields ==
  ASSUME NEW z \in Tables, NEW o \in Objects, z.rc[o] > 0
  PROVE  LET w == Decrement(z, o) IN
         /\ w \in Tables /\ w.rc = [z.rc EXCEPT ![o] = z.rc[o] - 1] /\ w.sticky = z.sticky /\ w.idx = z.idx
         /\ w.pinned = z.pinned /\ w.zct = z.zct /\ w.segs = z.segs /\ w.budget = z.budget
         /\ w.missed = z.missed
  <1>1. z.rc[o] - 1 \in Nat  BY DEF Tables
  <1> QED  BY <1>1 DEF Decrement, Tables

-----------------------------------------------------------------------------
(***************************************************************************)
(* The operations on tables keep the table exact.                          *)
(***************************************************************************)
\* What an exact table says of its lists.
LEMMA TabFacts ==
  ASSUME NEW A, NEW ps, NEW z, TabInv(z, A, ps)
  PROVE  /\ z \in Tables /\ z.zct \in Seq(Values) /\ Len(z.zct) \in Nat /\ DOMAIN z.zct = 1..Len(z.zct)
         /\ Len(ps) \in Nat /\ DOMAIN ps = 1..Len(ps)
         /\ z.rc \in [Objects -> Nat] /\ z.idx \in [Objects -> Nat] /\ z.segs \in Nat \ {0}
         /\ NULL \notin A /\ NULL \notin Objects
  <1> A \in SUBSET Objects /\ ps \in Seq(Values)  BY DEF TabInv
  <1>1. z.zct \in Seq(Values)  BY DEF TabInv, Tables
  <1>2. Len(z.zct) \in Nat /\ DOMAIN z.zct = 1..Len(z.zct)  BY <1>1, LenProperties
  <1>3. Len(ps) \in Nat /\ DOMAIN ps = 1..Len(ps)  BY LenProperties
  <1> QED  BY <1>1, <1>2, <1>3, ZCTAssumption DEF TabInv, Tables

\* An object with count zero is entered where there is room.
LEMMA EnterKeeps ==
  ASSUME NEW A, NEW ps, NEW z, TabInv(z, A, ps), NEW o \in A, NEW mode,
         z.rc[o] = 0, o \notin z.sticky, z.idx[o] = 0, Room(z)
  PROVE  TabInv(Enter(z, o, mode), A, ps) /\ Enter(z, o, mode).idx[o] # 0
  <1> A \in SUBSET Objects /\ ps \in Seq(Values)  BY DEF TabInv
  <1> DEFINE w == Enter(z, o, mode)
             n == Len(z.zct)
  <1>0. /\ z \in Tables /\ n \in Nat /\ DOMAIN z.zct = 1..n /\ z.zct \in Seq(Values) /\ z.idx \in [Objects -> Nat]
        /\ o \in Objects /\ o # NULL
    <2>1. o \in Objects /\ NULL \notin Objects  BY ZCTAssumption
    <2> QED  BY <2>1, TabFacts
  <1>1. /\ w \in Tables /\ w.rc = z.rc /\ w.sticky = z.sticky
        /\ w.idx = [z.idx EXCEPT ![o] = n + 1]
        /\ (InReap(mode) => w.pinned = z.pinned) /\ (~InReap(mode) => w.pinned = z.pinned \ {o}) /\ w.zct = Append(z.zct, o) /\ w.segs = z.segs /\ w.missed = z.missed
    BY <1>0, EnterFields
  <1> HIDE DEF w
  <1>2. /\ Len(w.zct) = n + 1 /\ DOMAIN w.zct = 1..(n + 1) /\ w.zct[n + 1] = o
        /\ \A i \in 1..n : w.zct[i] = z.zct[i]
    <2>1. o \in Values  BY DEF Values
    <2> QED  BY <1>0, <1>1, <2>1, AppendProperties, LenProperties
  <1>3. w.idx[o] = n + 1 /\ \A p \in Objects \ {o} : w.idx[p] = z.idx[p]  BY <1>0, <1>1
  <1>4. Entries(z.zct, z.idx, A) /\ Entries(ps, z.idx, A)  BY DEF TabInv
  <1>5. Entries(w.zct, w.idx, A)
    <2> SUFFICES ASSUME NEW i \in 1..(n + 1), w.zct[i] # NULL PROVE w.zct[i] \in A /\ w.idx[w.zct[i]] = i
      BY <1>2 DEF Entries
    <2>1. CASE i = n + 1  BY <2>1, <1>2, <1>3
    <2>2. CASE i # n + 1
      <3>1. i \in 1..n /\ i # 0  BY <2>2, <1>0
      <3>2. w.zct[i] = z.zct[i]  BY <3>1, <1>2
      <3>3. z.zct[i] \in A /\ z.idx[z.zct[i]] = i  BY <1>0, <1>4, <3>1, <3>2 DEF Entries
      <3>4. z.zct[i] # o  BY <3>1, <3>3
      <3> QED  BY <1>3, <3>2, <3>3, <3>4
    <2> QED  BY <2>1, <2>2
  <1>6. \A i \in DOMAIN ps : ps[i] # o
    <2> SUFFICES ASSUME NEW i \in DOMAIN ps, ps[i] = o PROVE FALSE  OBVIOUS
    <2>1. z.idx[o] = i  BY <1>0, <1>4 DEF Entries
    <2>2. i # 0  BY TabFacts
    <2> QED  BY <2>1, <2>2
  <1>7. Entries(ps, w.idx, A)  BY <1>3, <1>4, <1>6 DEF Entries
  <1>8. ASSUME NEW p \in A, w.idx[p] # 0
        PROVE  /\ Sits(w.zct, w.idx, p) \/ Sits(ps, w.idx, p)
               /\ ~(Sits(w.zct, w.idx, p) /\ Sits(ps, w.idx, p))
               /\ w.rc[p] = 0 /\ p \notin w.sticky
    <2>1. CASE p = o
      <3>1. Sits(w.zct, w.idx, o)  BY <1>0, <1>2, <1>3 DEF Sits
      <3>2. ~Sits(ps, w.idx, o)  BY <1>6 DEF Sits
      <3> QED  BY <1>1, <2>1, <3>1, <3>2
    <2>2. CASE p # o
      <3>1. w.idx[p] = z.idx[p]  BY <1>3, <2>2
      <3>2. Sits(ps, w.idx, p) <=> Sits(ps, z.idx, p)  BY <3>1 DEF Sits
      <3>3. Sits(w.zct, w.idx, p) <=> Sits(z.zct, z.idx, p)
        <4>1. \A i \in 1..(n + 1) : w.zct[i] = p => i \in 1..n  BY <1>0, <1>2, <2>2
        <4>2. \A i \in 1..n : i \in 1..(n + 1)  BY <1>0
        <4> QED  BY <1>0, <1>2, <3>1, <4>1, <4>2 DEF Sits
      <3> QED  BY <1>1, <1>8, <3>1, <3>2, <3>3 DEF TabInv
    <2> QED  BY <2>1, <2>2
  <1>9. Fit(Len(w.zct), w.segs)
    <2>1. Fit(n, z.segs) /\ n < z.segs * SegCap /\ z.segs \in Nat \ {0}  BY TabFacts DEF TabInv, Room
    <2> QED  BY <1>0, <1>1, <1>2, <2>1, FitFacts
  <1>10. w.idx[o] # 0  BY <1>0, <1>3
  <1>11. \A p \in Objects \ A : w.rc[p] = 0 /\ w.idx[p] = 0  BY <1>1, <1>3 DEF TabInv
  <1>12. /\ \A p \in Objects : w.rc[p] <= StickyAt /\ (p \notin w.sticky => w.rc[p] < StickyAt)
         /\ w.sticky \subseteq A /\ w.pinned \subseteq A /\ w.missed \subseteq A
    BY <1>1 DEF TabInv
  <1>13. TabInv(w, A, ps)  BY <1>1, <1>5, <1>7, <1>8, <1>9, <1>11, <1>12 DEF TabInv
  <1> QED  BY <1>10, <1>13 DEF w

\* Tables that differ in what the lists do not show.
LEMMA SameLists ==
  ASSUME NEW A, NEW ps, NEW z, TabInv(z, A, ps), NEW w \in Tables,
         w.idx = z.idx, w.zct = z.zct, Fit(Len(w.zct), w.segs),
         w.sticky \subseteq A, w.pinned \subseteq A, w.missed \subseteq A,
         \A o \in Objects \ A : w.rc[o] = 0,
         \A o \in Objects : w.rc[o] <= StickyAt /\ (o \notin w.sticky => w.rc[o] < StickyAt),
         \A o \in A : z.idx[o] # 0 => w.rc[o] = 0 /\ o \notin w.sticky
  PROVE  TabInv(w, A, ps)
  BY DEF TabInv

\* Add and AddSlow: the object is listed or missed.
LEMMA AddKeeps ==
  ASSUME NEW A, NEW ps, NEW z, TabInv(z, A, ps), NEW o \in A, NEW mode,
         z.rc[o] = 0, o \notin z.sticky, z.idx[o] = 0, NEW w \in Add(z, o, mode)
  PROVE  /\ TabInv(w, A, ps) /\ w.rc = z.rc /\ w.sticky = z.sticky
         /\ w.idx[o] # 0 \/ o \in w.missed
         /\ z.missed \subseteq w.missed /\ \A p \in Objects \ {o} : w.idx[p] = z.idx[p]
         /\ InReap(mode) => w.pinned = z.pinned
         /\ w.pinned \subseteq z.pinned /\ (~InReap(mode) /\ w.idx[o] # 0 => o \notin w.pinned)
  <1> A \in SUBSET Objects /\ ps \in Seq(Values)  BY DEF TabInv
  <1>0. /\ z \in Tables /\ Len(z.zct) \in Nat /\ z.segs \in Nat \ {0} /\ Fit(Len(z.zct), z.segs) /\ o \in Objects
        /\ z.idx \in [Objects -> Nat]
    BY TabFacts DEF TabInv
  <1>1. CASE w = Miss(z, o)
    <2>1. /\ w \in Tables /\ w.rc = z.rc /\ w.sticky = z.sticky /\ w.idx = z.idx /\ w.pinned = z.pinned
          /\ w.zct = z.zct /\ w.segs = z.segs /\ w.missed = z.missed \cup {o}
      BY <1>0, <1>1, MissFields
    <2>2. TabInv(w, A, ps)
      <3>1. w.missed \subseteq A /\ w.sticky \subseteq A /\ w.pinned \subseteq A  BY <2>1 DEF TabInv
      <3>2. \A p \in Objects \ A : w.rc[p] = 0  BY <2>1 DEF TabInv
      <3>3. \A p \in Objects : w.rc[p] <= StickyAt /\ (p \notin w.sticky => w.rc[p] < StickyAt)
        BY <2>1 DEF TabInv
      <3>4. \A p \in A : z.idx[p] # 0 => w.rc[p] = 0 /\ p \notin w.sticky  BY <2>1 DEF TabInv
      <3> QED  BY <1>0, <2>1, <3>1, <3>2, <3>3, <3>4, SameLists
    <2> QED  BY <2>1, <2>2
  <1>2. CASE w = Enter(z, o, mode) /\ Room(z)
    <2>1. TabInv(w, A, ps) /\ w.idx[o] # 0  BY <1>2, EnterKeeps
    <2>2. /\ w.rc = z.rc /\ w.sticky = z.sticky /\ w.idx = [z.idx EXCEPT ![o] = Len(z.zct) + 1]
          /\ (InReap(mode) => w.pinned = z.pinned) /\ (~InReap(mode) => w.pinned = z.pinned \ {o}) /\ w.missed = z.missed
      BY <1>0, <1>2, EnterFields
    <2> QED  BY <1>0, <2>1, <2>2
  <1>3. CASE w = Enter(Grow(z), o, mode) /\ ~Room(z)
    <2> DEFINE g == Grow(z)
    <2>1. /\ g \in Tables /\ g.rc = z.rc /\ g.sticky = z.sticky /\ g.idx = z.idx /\ g.pinned = z.pinned
          /\ g.zct = z.zct /\ g.segs = z.segs + 1 /\ g.missed = z.missed
      BY <1>0, GrowFields
    <2>2. Fit(Len(g.zct), g.segs) /\ Len(g.zct) < g.segs * SegCap
      <3>1. ~(Len(z.zct) < z.segs * SegCap)  BY <1>3 DEF Room
      <3> QED  BY <1>0, <2>1, <3>1, FitFacts
    <2> HIDE DEF g
    <2>3. TabInv(g, A, ps)
      <3>1. g.missed \subseteq A /\ g.sticky \subseteq A /\ g.pinned \subseteq A  BY <2>1 DEF TabInv
      <3>2. \A p \in Objects \ A : g.rc[p] = 0  BY <2>1 DEF TabInv
      <3>3. \A p \in Objects : g.rc[p] <= StickyAt /\ (p \notin g.sticky => g.rc[p] < StickyAt)
        BY <2>1 DEF TabInv
      <3>4. \A p \in A : z.idx[p] # 0 => g.rc[p] = 0 /\ p \notin g.sticky  BY <2>1 DEF TabInv
      <3> QED  BY <2>1, <2>2, <3>1, <3>2, <3>3, <3>4, SameLists
    <2>4. g.rc[o] = 0 /\ o \notin g.sticky /\ g.idx[o] = 0  BY <2>1
    <2>5. Room(g)  BY <2>2 DEF Room
    <2>6. w = Enter(g, o, mode)  BY <1>3 DEF g
    <2>7. TabInv(w, A, ps) /\ w.idx[o] # 0  BY <2>3, <2>4, <2>5, <2>6, EnterKeeps
    <2>8. /\ w.rc = g.rc /\ w.sticky = g.sticky /\ w.idx = [g.idx EXCEPT ![o] = Len(g.zct) + 1]
          /\ (InReap(mode) => w.pinned = g.pinned) /\ (~InReap(mode) => w.pinned = g.pinned \ {o}) /\ w.missed = g.missed
      BY <1>0, <2>1, <2>6, EnterFields
    <2> QED  BY <1>0, <2>1, <2>7, <2>8
  <1> QED  BY <1>1, <1>2, <1>3 DEF Add

\* A count goes down.
LEMMA DecrementKeeps ==
  ASSUME NEW A, NEW ps, NEW z, TabInv(z, A, ps), NEW o \in A, z.rc[o] > 0
  PROVE  TabInv(Decrement(z, o), A, ps) /\ z.idx[o] = 0
  <1> A \in SUBSET Objects /\ ps \in Seq(Values)  BY DEF TabInv
  <1> DEFINE w == Decrement(z, o)
  <1>0. z \in Tables /\ z.rc \in [Objects -> Nat] /\ o \in Objects /\ z.rc[o] \in Nat
    <2>1. o \in Objects  OBVIOUS
    <2>2. z \in Tables /\ z.rc \in [Objects -> Nat]  BY TabFacts
    <2> QED  BY <2>1, <2>2
  <1>1. /\ w \in Tables /\ w.rc = [z.rc EXCEPT ![o] = z.rc[o] - 1] /\ w.sticky = z.sticky /\ w.idx = z.idx
        /\ w.pinned = z.pinned /\ w.zct = z.zct /\ w.segs = z.segs /\ w.missed = z.missed
    BY <1>0, DecrementFields
  <1> HIDE DEF w
  <1>2. z.idx[o] = 0  
    <2>1. z.idx[o] # 0 => z.rc[o] = 0  BY DEF TabInv
    <2> QED  BY <1>0, <2>1
  <1>3. w.rc[o] = z.rc[o] - 1 /\ \A p \in Objects \ {o} : w.rc[p] = z.rc[p]  BY <1>0, <1>1
  <1>4. \A p \in Objects \ A : w.rc[p] = 0  BY <1>3 DEF TabInv
  <1>5. \A p \in Objects : w.rc[p] <= StickyAt /\ (p \notin w.sticky => w.rc[p] < StickyAt)
    <2>1. StickyAt \in Nat  BY ZCTAssumption
    <2>2. \A p \in Objects : z.rc[p] <= StickyAt /\ (p \notin z.sticky => z.rc[p] < StickyAt)  BY DEF TabInv
    <2>3. w.rc[o] <= StickyAt /\ (o \notin w.sticky => w.rc[o] < StickyAt)  BY <1>0, <1>1, <1>3, <2>1, <2>2
    <2> QED  BY <1>1, <1>3, <2>2, <2>3
  <1>6. \A p \in A : z.idx[p] # 0 => w.rc[p] = 0 /\ p \notin w.sticky  BY <1>1, <1>2, <1>3 DEF TabInv
  <1>7. Fit(Len(w.zct), w.segs) /\ w.sticky \subseteq A /\ w.pinned \subseteq A /\ w.missed \subseteq A
    BY <1>1 DEF TabInv
  <1>8. TabInv(w, A, ps)  BY <1>1, <1>4, <1>5, <1>6, <1>7, SameLists
  <1> QED  BY <1>2, <1>8 DEF w

\* DecrementRef of a pointer o, outside and inside of a reap.
LEMMA DecrementRefKeeps ==
  ASSUME NEW ps, NEW z, TabInv(z, alive, ps), NEW o \in Values, NEW mode,
         NEW w \in DecrementRef(z, o, mode)
  PROVE  /\ TabInv(w, alive, ps) /\ w.sticky = z.sticky
         /\ Counts(z, o) => w.rc = [z.rc EXCEPT ![o] = z.rc[o] - 1]
         /\ ~Counts(z, o) => w.rc = z.rc
         /\ \A p \in Objects : p # o \/ z.idx[p] # 0 => w.idx[p] = z.idx[p]
         /\ w.pinned \subseteq z.pinned /\ (InReap(mode) => w.pinned = z.pinned)
         /\ \A E : ZeroKnown(z, E) => ZeroKnown(w, E)
         /\ ~InReap(mode) /\ Unpinned(z) => Unpinned(w)
  <1> alive \in SUBSET Objects /\ ps \in Seq(Values)  BY DEF TabInv
  <1>1. CASE ~Counts(z, o)
    <2>1. w = z  BY <1>1 DEF DecrementRef
    <2> QED  BY <1>1, <2>1
  <1>2. CASE Counts(z, o)
    <2> DEFINE d == Decrement(z, o)
    <2>1. o \in Objects /\ o \in alive /\ o \notin z.sticky /\ z.rc[o] > 0  BY <1>2 DEF Counts
    <2>2. TabInv(d, alive, ps) /\ z.idx[o] = 0  BY <2>1, DecrementKeeps
    <2>3. z \in Tables /\ z.rc \in [Objects -> Nat] /\ z.rc[o] \in Nat /\ z.idx \in [Objects -> Nat]
      <3>1. z \in Tables /\ z.rc \in [Objects -> Nat] /\ z.idx \in [Objects -> Nat]  BY TabFacts
      <3> QED  BY <2>1, <3>1
    <2>4. /\ d.rc = [z.rc EXCEPT ![o] = z.rc[o] - 1] /\ d.sticky = z.sticky /\ d.idx = z.idx
          /\ d.pinned = z.pinned /\ d.missed = z.missed
      BY <2>1, <2>3, DecrementFields
    <2> HIDE DEF d
    <2>5. d.rc[o] = z.rc[o] - 1 /\ \A p \in Objects \ {o} : d.rc[p] = z.rc[p]  BY <2>1, <2>3, <2>4
    <2>6. CASE z.rc[o] > 1
      <3>1. w = d  BY <1>2, <2>6 DEF DecrementRef, d
      <3>2. d.rc[o] # 0  BY <2>3, <2>5, <2>6
      <3>3. \A E : ZeroKnown(z, E) => ZeroKnown(d, E)  BY <2>4, <2>5, <3>2 DEF ZeroKnown
      <3>4. Unpinned(z) => Unpinned(d)  BY <2>4 DEF Unpinned
      <3> QED  BY <1>2, <2>2, <2>4, <3>1, <3>3, <3>4
    <2>7. CASE ~(z.rc[o] > 1)
      <3>1. w \in Add(d, o, mode)  BY <1>2, <2>7 DEF DecrementRef, d
      <3>2. d.rc[o] = 0  BY <2>1, <2>3, <2>5, <2>7
      <3>3. o \notin d.sticky /\ d.idx[o] = 0  BY <2>1, <2>2, <2>4
      <3>4. /\ TabInv(w, alive, ps) /\ w.rc = d.rc /\ w.sticky = d.sticky
            /\ w.idx[o] # 0 \/ o \in w.missed
            /\ d.missed \subseteq w.missed /\ \A p \in Objects \ {o} : w.idx[p] = d.idx[p]
            /\ InReap(mode) => w.pinned = d.pinned
            /\ w.pinned \subseteq d.pinned /\ (~InReap(mode) /\ w.idx[o] # 0 => o \notin w.pinned)
        <4>1. /\ alive \in SUBSET Objects /\ ps \in Seq(Values) /\ TabInv(d, alive, ps) /\ o \in alive
              /\ d.rc[o] = 0 /\ o \notin d.sticky /\ d.idx[o] = 0 /\ w \in Add(d, o, mode)
          BY <2>1, <2>2, <3>1, <3>2, <3>3
        <4> QED  BY ONLY <4>1, AddKeeps
      <3>5. \A E : ZeroKnown(z, E) => ZeroKnown(w, E)
        BY <2>4, <2>5, <3>4 DEF ZeroKnown
      <3>6. ~InReap(mode) /\ Unpinned(z) => Unpinned(w)  BY <2>4, <3>4 DEF Unpinned
      <3>7. \A p \in Objects : p # o \/ z.idx[p] # 0 => w.idx[p] = z.idx[p]  BY <2>2, <2>4, <3>4
      <3> QED  BY <1>2, <2>4, <3>4, <3>5, <3>6, <3>7
    <2> QED  BY <2>6, <2>7
  <1> QED  BY <1>1, <1>2

\* Remove: the entry that the index leads to is cleared.
LEMMA RemoveKeeps ==
  ASSUME NEW A, NEW ps, NEW z, TabInv(z, A, ps), NEW o \in A,
         ~Sits(ps, z.idx, o)
  PROVE  LET w == RemoveIfListed(z, o) IN
         /\ TabInv(w, A, ps) /\ w.rc = z.rc /\ w.sticky = z.sticky /\ w.pinned = z.pinned
         /\ w.missed = z.missed /\ w.idx[o] = 0 /\ \A p \in Objects \ {o} : w.idx[p] = z.idx[p]
  <1> A \in SUBSET Objects /\ ps \in Seq(Values)  BY DEF TabInv
  <1> DEFINE w == RemoveIfListed(z, o)
  <1>0. /\ z \in Tables /\ Len(z.zct) \in Nat /\ DOMAIN z.zct = 1..Len(z.zct) /\ z.zct \in Seq(Values)
        /\ z.idx \in [Objects -> Nat] /\ o \in Objects /\ o # NULL
    <2>1. o \in Objects /\ NULL \notin Objects  BY ZCTAssumption
    <2> QED  BY <2>1, TabFacts
  <1>1. CASE z.idx[o] = 0
    <2>1. w = z  BY <1>1 DEF RemoveIfListed
    <2> QED  BY <1>1, <2>1
  <1>2. CASE z.idx[o] # 0
    <2>3. Sits(z.zct, z.idx, o)  BY <1>2 DEF TabInv
    <2>4. w = RemoveFromZCT(z, o)  BY <1>2 DEF RemoveIfListed
    <2>5. /\ w \in Tables /\ w.rc = z.rc /\ w.sticky = z.sticky /\ w.idx = [z.idx EXCEPT ![o] = 0]
          /\ w.pinned = z.pinned /\ w.zct = [z.zct EXCEPT ![z.idx[o]] = NULL] /\ Len(w.zct) = Len(z.zct)
          /\ w.segs = z.segs /\ w.missed = z.missed
      <3>1. z \in Tables /\ o \in Objects /\ z.idx[o] \in DOMAIN z.zct  BY <1>0, <2>3 DEF Sits
      <3> QED  BY <2>4, <3>1, RemoveFields
    <2> HIDE DEF w
    <2>6. w.idx[o] = 0 /\ \A p \in Objects \ {o} : w.idx[p] = z.idx[p]  BY <1>0, <2>5
    <2>7. /\ DOMAIN w.zct = DOMAIN z.zct /\ w.zct[z.idx[o]] = NULL
          /\ \A i \in DOMAIN z.zct \ {z.idx[o]} : w.zct[i] = z.zct[i]
      BY <1>0, <2>3, <2>5 DEF Sits
    <2>8. Entries(z.zct, z.idx, A) /\ Entries(ps, z.idx, A)  BY DEF TabInv
    <2>9. Entries(w.zct, w.idx, A)
      <3> SUFFICES ASSUME NEW i \in DOMAIN z.zct, w.zct[i] # NULL PROVE w.zct[i] \in A /\ w.idx[w.zct[i]] = i
        BY <2>7 DEF Entries
      <3>1. i # z.idx[o] /\ w.zct[i] = z.zct[i]  BY <2>7
      <3>2. z.zct[i] \in A /\ z.idx[z.zct[i]] = i  BY <2>8, <3>1 DEF Entries
      <3> QED  BY <2>6, <3>1, <3>2
    <2>10. Entries(ps, w.idx, A)
      <3> SUFFICES ASSUME NEW i \in DOMAIN ps, ps[i] # NULL PROVE ps[i] \in A /\ w.idx[ps[i]] = i
        BY DEF Entries
      <3>1. ps[i] \in A /\ z.idx[ps[i]] = i  BY <2>8 DEF Entries
      <3>2. ps[i] # o  BY <3>1 DEF Sits
      <3> QED  BY <2>6, <3>1, <3>2
    <2>11. ASSUME NEW p \in A, w.idx[p] # 0
           PROVE  /\ Sits(w.zct, w.idx, p) \/ Sits(ps, w.idx, p)
                  /\ ~(Sits(w.zct, w.idx, p) /\ Sits(ps, w.idx, p))
                  /\ w.rc[p] = 0 /\ p \notin w.sticky
      <3>1. p # o /\ w.idx[p] = z.idx[p]  BY <2>6, <2>11
      <3>2. /\ Sits(z.zct, z.idx, p) \/ Sits(ps, z.idx, p)
            /\ ~(Sits(z.zct, z.idx, p) /\ Sits(ps, z.idx, p))
            /\ z.rc[p] = 0 /\ p \notin z.sticky
        BY <2>11, <3>1 DEF TabInv
      <3>3. Sits(ps, w.idx, p) <=> Sits(ps, z.idx, p)  BY <3>1 DEF Sits
      <3>4. Sits(w.zct, w.idx, p) <=> Sits(z.zct, z.idx, p)
        <4>1. Sits(z.zct, z.idx, p) => z.idx[p] # z.idx[o]  BY <2>3, <3>1 DEF Sits
        <4>2. p # NULL  BY ZCTAssumption
        <4> QED  BY <2>7, <3>1, <4>1, <4>2 DEF Sits
      <3> QED  BY <2>5, <3>2, <3>3, <3>4
    <2>12. /\ \A p \in Objects \ A : w.rc[p] = 0 /\ w.idx[p] = 0
           /\ \A p \in Objects : w.rc[p] <= StickyAt /\ (p \notin w.sticky => w.rc[p] < StickyAt)
           /\ w.sticky \subseteq A /\ w.pinned \subseteq A /\ w.missed \subseteq A
           /\ Fit(Len(w.zct), w.segs)
      BY <2>5, <2>6 DEF TabInv
    <2>13. TabInv(w, A, ps)  BY <2>5, <2>9, <2>10, <2>11, <2>12 DEF TabInv
    <2> QED  BY <2>5, <2>6, <2>13 DEF w
  <1> QED  BY <1>1, <1>2

\* IncrementRef of a pointer to an object that no reap has moved.
LEMMA IncrementRefKeeps ==
  ASSUME NEW A, NEW ps, NEW z, TabInv(z, A, ps), NEW v \in A \cup {NULL}, v # NULL => ~Sits(ps, z.idx, v)
  PROVE  LET w == IncrementRef(z, v) IN
         /\ TabInv(w, A, ps) /\ w.pinned = z.pinned
         /\ z.sticky \subseteq w.sticky /\ w.sticky \subseteq z.sticky \cup {v}
         /\ v = NULL \/ v \in z.sticky => w = z
         /\ v # NULL /\ v \notin z.sticky => w.rc = [z.rc EXCEPT ![v] = z.rc[v] + 1]
         /\ \A p \in Objects \ {v} : w.idx[p] = z.idx[p]
         /\ \A E : ZeroKnown(z, E) => ZeroKnown(w, E)
         /\ Unpinned(z) => Unpinned(w)
  <1> A \in SUBSET Objects /\ ps \in Seq(Values)  BY DEF TabInv
  <1> DEFINE w == IncrementRef(z, v)
  <1>1. CASE v = NULL \/ v \in z.sticky
    <2>1. w = z  BY <1>1 DEF IncrementRef
    <2> QED  BY <1>1, <2>1
  <1>2. CASE ~(v = NULL \/ v \in z.sticky)
    <2> DEFINE d == [z EXCEPT !.rc[v] = @ + 1, !.missed = @ \ {v}]
    <2>1. v \in A /\ v \in Objects /\ v # NULL /\ v \notin z.sticky  BY <1>2
    <2>2. z \in Tables /\ z.rc \in [Objects -> Nat] /\ z.idx \in [Objects -> Nat]  BY TabFacts
    <2>3. /\ d \in Tables /\ d.rc = [z.rc EXCEPT ![v] = z.rc[v] + 1] /\ d.sticky = z.sticky /\ d.idx = z.idx
          /\ d.pinned = z.pinned /\ d.zct = z.zct /\ d.segs = z.segs /\ d.missed = z.missed \ {v}
      <3>1. z.rc[v] + 1 \in Nat  BY <2>1, <2>2
      <3> QED  BY <2>1, <2>2, <3>1 DEF Tables
    <2>4. w = IF d.rc[v] = StickyAt THEN [d EXCEPT !.sticky = @ \cup {v}] ELSE RemoveIfListed(d, v)
      BY <1>2 DEF IncrementRef
    <2> HIDE DEF d
    <2>5. d.rc[v] = z.rc[v] + 1 /\ z.rc[v] \in Nat /\ \A p \in Objects \ {v} : d.rc[p] = z.rc[p]
      BY <2>1, <2>2, <2>3
    <2>6. StickyAt \in Nat /\ StickyAt >= 2 /\ z.rc[v] < StickyAt  BY <2>1, ZCTAssumption DEF TabInv
    <2>7. \A p \in Objects \ A : z.rc[p] = 0 /\ z.idx[p] = 0  BY DEF TabInv
    <2>8. \A p \in A : z.idx[p] # 0 => z.rc[p] = 0 /\ p \notin z.sticky  BY DEF TabInv
    <2>9. \A p \in Objects : z.rc[p] <= StickyAt /\ (p \notin z.sticky => z.rc[p] < StickyAt)  BY DEF TabInv
    <2>10. Fit(Len(z.zct), z.segs) /\ z.sticky \subseteq A /\ z.pinned \subseteq A /\ z.missed \subseteq A
      BY DEF TabInv
    <2>11. CASE d.rc[v] = StickyAt
      <3>1. w = [d EXCEPT !.sticky = @ \cup {v}]  BY <2>4, <2>11
      <3>2. /\ w \in Tables /\ w.rc = d.rc /\ w.sticky = z.sticky \cup {v} /\ w.idx = z.idx
            /\ w.pinned = z.pinned /\ w.zct = z.zct /\ w.segs = z.segs /\ w.missed = z.missed \ {v}
        <4>1. d.sticky \cup {v} \in SUBSET Objects  BY <2>1, <2>3 DEF Tables
        <4> QED  BY <2>3, <3>1, <4>1 DEF Tables
      <3> HIDE DEF w
      <3>3. z.idx[v] = 0
        <4>1. z.rc[v] # 0  BY <2>5, <2>6, <2>11
        <4> QED  BY <2>1, <2>8, <4>1
      <3>4. \A p \in Objects \ A : w.rc[p] = 0  BY <2>1, <2>5, <2>7, <3>2
      <3>5. \A p \in Objects : w.rc[p] <= StickyAt /\ (p \notin w.sticky => w.rc[p] < StickyAt)
        <4>1. w.rc[v] <= StickyAt /\ v \in w.sticky  BY <2>6, <2>11, <3>2
        <4> QED  BY <2>5, <2>9, <3>2, <4>1
      <3>6. \A p \in A : z.idx[p] # 0 => w.rc[p] = 0 /\ p \notin w.sticky  BY <2>5, <2>8, <3>2, <3>3
      <3>7. w.sticky \subseteq A /\ w.pinned \subseteq A /\ w.missed \subseteq A  BY <2>1, <2>10, <3>2
      <3>8. TabInv(w, A, ps)  BY <2>10, <3>2, <3>4, <3>5, <3>6, <3>7, SameLists
      <3>9. \A E : ZeroKnown(z, E) => ZeroKnown(w, E)  BY <2>5, <3>2 DEF ZeroKnown
      <3>10. Unpinned(z) => Unpinned(w)  BY <3>2 DEF Unpinned
      <3> QED  BY <1>2, <2>3, <3>2, <3>8, <3>9, <3>10 DEF w
    <2>12. CASE d.rc[v] # StickyAt
      <3>1. w = RemoveIfListed(d, v)  BY <2>4, <2>12
      <3>2. CASE z.idx[v] = 0
        <4>1. w = d  BY <2>3, <3>1, <3>2 DEF RemoveIfListed
        <4> HIDE DEF w
        <4>2. \A p \in Objects \ A : w.rc[p] = 0  BY <2>1, <2>5, <2>7, <4>1
        <4>3. \A p \in Objects : w.rc[p] <= StickyAt /\ (p \notin w.sticky => w.rc[p] < StickyAt)
          <5>1. w.rc[v] < StickyAt /\ w.rc[v] <= StickyAt  BY <2>5, <2>6, <2>12, <4>1
          <5> QED  BY <2>3, <2>5, <2>9, <4>1, <5>1
        <4>4. \A p \in A : z.idx[p] # 0 => w.rc[p] = 0 /\ p \notin w.sticky  BY <2>3, <2>5, <2>8, <3>2, <4>1
        <4>5. w.sticky \subseteq A /\ w.pinned \subseteq A /\ w.missed \subseteq A  BY <2>3, <2>10, <4>1
        <4>6. TabInv(w, A, ps)
          BY <2>3, <2>10, <4>1, <4>2, <4>3, <4>4, <4>5, SameLists
        <4>7. w.rc[v] # 0  BY <2>5, <4>1
        <4>8. \A E : ZeroKnown(z, E) => ZeroKnown(w, E)
          BY <2>3, <2>5, <4>1, <4>7 DEF ZeroKnown
        <4>9. Unpinned(z) => Unpinned(w)  BY <2>3, <4>1 DEF Unpinned
        <4> QED  BY <1>2, <2>3, <4>1, <4>6, <4>8, <4>9 DEF w
      <3>3. CASE z.idx[v] # 0
        <4> DEFINE r == RemoveIfListed(z, v)
        <4>1. /\ TabInv(r, A, ps) /\ r.rc = z.rc /\ r.sticky = z.sticky /\ r.pinned = z.pinned
              /\ r.missed = z.missed /\ r.idx[v] = 0 /\ \A p \in Objects \ {v} : r.idx[p] = z.idx[p]
          <5>1. /\ A \in SUBSET Objects /\ ps \in Seq(Values) /\ TabInv(z, A, ps) /\ v \in A
                /\ ~Sits(ps, z.idx, v)
            BY <2>1
          <5> QED  BY ONLY <5>1, RemoveKeeps
        <4>2. r = RemoveFromZCT(z, v) /\ w = RemoveFromZCT(d, v)
          BY <2>3, <3>1, <3>3 DEF RemoveIfListed
        <4>3. r \in Tables /\ r.idx \in [Objects -> Nat]  BY <4>1 DEF TabInv, Tables
        <4>4. z.idx[v] \in DOMAIN z.zct
          <5>1. Sits(z.zct, z.idx, v)  BY <2>1, <3>3 DEF TabInv
          <5> QED  BY <5>1 DEF Sits
        <4>5. /\ w \in Tables /\ w.rc = [z.rc EXCEPT ![v] = z.rc[v] + 1] /\ w.sticky = z.sticky /\ w.idx = r.idx
              /\ w.pinned = z.pinned /\ w.zct = r.zct /\ w.segs = r.segs /\ w.missed = z.missed \ {v}
          <5> HIDE DEF r, w
          <5>1. /\ r.idx = [z.idx EXCEPT ![v] = 0] /\ r.zct = [z.zct EXCEPT ![z.idx[v]] = NULL] /\ r.segs = z.segs
            BY <2>1, <2>2, <4>2, <4>4, RemoveFields
          <5>2. d.idx[v] \in DOMAIN d.zct  BY <2>3, <4>4
          <5> HIDE DEF d
          <5>3. /\ w \in Tables /\ w.rc = d.rc /\ w.sticky = d.sticky /\ w.idx = [d.idx EXCEPT ![v] = 0]
                /\ w.pinned = d.pinned /\ w.zct = [d.zct EXCEPT ![d.idx[v]] = NULL] /\ w.segs = d.segs
                /\ w.missed = d.missed
            BY <2>1, <2>3, <4>2, <5>2, RemoveFields
          <5> QED  BY <2>3, <5>1, <5>3
        <4> HIDE DEF r, w
        <4>6. w.rc = d.rc  BY <2>3, <4>5
        <4>7. \A p \in Objects \ A : w.rc[p] = 0  BY <2>1, <2>5, <2>7, <4>6
        <4>8. \A p \in Objects : w.rc[p] <= StickyAt /\ (p \notin w.sticky => w.rc[p] < StickyAt)
          <5>1. w.rc[v] < StickyAt /\ w.rc[v] <= StickyAt  BY <2>5, <2>6, <2>12, <4>6
          <5> QED  BY <2>5, <2>9, <4>5, <4>6, <5>1
        <4>9. \A p \in A : r.idx[p] # 0 => w.rc[p] = 0 /\ p \notin w.sticky
          BY <2>5, <2>8, <4>1, <4>5, <4>6
        <4>10. w.sticky \subseteq A /\ w.pinned \subseteq A /\ w.missed \subseteq A  BY <2>10, <4>5
        <4>11. Fit(Len(r.zct), r.segs)  BY <4>1 DEF TabInv
        <4>12. TabInv(w, A, ps)
          BY <4>1, <4>5, <4>7, <4>8, <4>9, <4>10, <4>11, SameLists
        <4>13. w.rc[v] # 0  BY <2>5, <4>6
        <4>14. \A E : ZeroKnown(z, E) => ZeroKnown(w, E)
          BY <2>5, <4>1, <4>5, <4>6, <4>13 DEF ZeroKnown
        <4>15. Unpinned(z) => Unpinned(w)  BY <4>1, <4>5 DEF Unpinned
        <4> QED  BY <1>2, <4>1, <4>5, <4>12, <4>14, <4>15 DEF w
      <3> QED  BY <3>2, <3>3
    <2> QED  BY <2>11, <2>12
  <1> QED  BY <1>1, <1>2

\* An object that is not listed, or that no reap can have moved.
LEMMA NotMoved ==
  ASSUME NEW A, NEW ps, NEW z, TabInv(z, A, ps), NEW o \in A, z.idx[o] = 0 \/ ps = <<>>
  PROVE  ~Sits(ps, z.idx, o)
  <1>1. Len(ps) \in Nat /\ DOMAIN ps = 1..Len(ps)  BY TabFacts
  <1>2. ps = <<>> => DOMAIN ps = {}  OBVIOUS
  <1> QED  BY <1>1, <1>2 DEF Sits

\* An object that can be destroyed: a reap does not remove it from the pin list.
Removable(z, A, ps, o) == TabInv(z, A, ps) /\ o \in A /\ (z.idx[o] = 0 \/ ps = <<>>)

\* w is z without o.
Without(z, w, o) ==
    /\ w.sticky = z.sticky \ {o} /\ w.pinned = z.pinned \ {o}
    /\ \A p \in Objects \ {o} : w.rc[p] = z.rc[p] /\ w.idx[p] = z.idx[p]
    /\ \A E : ZeroKnown(z, E) => ZeroKnown(w, E \ {o})
    /\ Unpinned(z) => Unpinned(w)

\* ~RCObject: the object and its entry are gone.
LEMMA DestroyedKeeps ==
  ASSUME NEW A, NEW ps, NEW z, NEW o, Removable(z, A, ps, o)
  PROVE  TabInv(Destroyed(z, o), A \ {o}, ps) /\ Without(z, Destroyed(z, o), o)
  <1> TabInv(z, A, ps) /\ o \in A /\ (z.idx[o] = 0 \/ ps = <<>>)  BY DEF Removable
  <1> A \in SUBSET Objects /\ ps \in Seq(Values)  BY DEF TabInv
  <1> DEFINE r == RemoveIfListed(z, o)
             w == Destroyed(z, o)
  <1>0. o \in Objects  OBVIOUS
  <1>1. /\ TabInv(r, A, ps) /\ r.rc = z.rc /\ r.sticky = z.sticky /\ r.pinned = z.pinned
        /\ r.missed = z.missed /\ r.idx[o] = 0 /\ \A p \in Objects \ {o} : r.idx[p] = z.idx[p]
    <2>1. A \in SUBSET Objects /\ ps \in Seq(Values) /\ TabInv(z, A, ps) /\ o \in A /\ ~Sits(ps, z.idx, o)
      BY NotMoved
    <2> QED  BY ONLY <2>1, RemoveKeeps
  <1>2. w = [r EXCEPT !.rc[o] = 0, !.sticky = @ \ {o}, !.pinned = @ \ {o}, !.missed = @ \ {o}]
    BY DEF Destroyed
  <1> HIDE DEF r, w
  <1>3. r \in Tables /\ r.rc \in [Objects -> Nat]  BY <1>1 DEF TabInv, Tables
  <1>4. /\ w \in Tables /\ w.rc = [z.rc EXCEPT ![o] = 0] /\ w.sticky = z.sticky \ {o} /\ w.idx = r.idx
        /\ w.pinned = z.pinned \ {o} /\ w.zct = r.zct /\ w.segs = r.segs /\ w.missed = z.missed \ {o}
    BY <1>0, <1>1, <1>2, <1>3 DEF Tables
  <1>5. w.rc[o] = 0 /\ \A p \in Objects \ {o} : w.rc[p] = z.rc[p]  BY <1>0, <1>1, <1>3, <1>4
  <1>6. \A p \in Objects \ (A \ {o}) : w.rc[p] = 0 /\ w.idx[p] = 0
    BY <1>0, <1>1, <1>4, <1>5 DEF TabInv
  <1>7. \A p \in Objects : w.rc[p] <= StickyAt /\ (p \notin w.sticky => w.rc[p] < StickyAt)
    <2>1. 0 < StickyAt /\ 0 <= StickyAt  BY ZCTAssumption
    <2>2. \A p \in Objects : z.rc[p] <= StickyAt /\ (p \notin z.sticky => z.rc[p] < StickyAt)  BY DEF TabInv
    <2> QED  BY <1>4, <1>5, <2>1, <2>2
  <1>8. ASSUME NEW s \in Seq(Values), Entries(s, r.idx, A) PROVE Entries(s, w.idx, A \ {o})
    <2>1. \A i \in DOMAIN s : i # 0  BY LenProperties
    <2> QED  BY <1>1, <1>4, <1>8, <2>1 DEF Entries
  <1>9. Entries(w.zct, w.idx, A \ {o}) /\ Entries(ps, w.idx, A \ {o})
    <2>1. Entries(r.zct, r.idx, A) /\ Entries(ps, r.idx, A) /\ r.zct \in Seq(Values)
      BY <1>1 DEF TabInv, Tables
    <2> QED  BY <1>4, <1>8, <2>1
  <1>10. \A p \in A \ {o} : w.idx[p] # 0 =>
           /\ Sits(w.zct, w.idx, p) \/ Sits(ps, w.idx, p)
           /\ ~(Sits(w.zct, w.idx, p) /\ Sits(ps, w.idx, p))
           /\ w.rc[p] = 0 /\ p \notin w.sticky
    BY <1>1, <1>4, <1>5 DEF TabInv
  <1>11. /\ w.sticky \subseteq A \ {o} /\ w.pinned \subseteq A \ {o} /\ w.missed \subseteq A \ {o}
         /\ Fit(Len(w.zct), w.segs)
    BY <1>1, <1>4 DEF TabInv
  <1>12. TabInv(w, A \ {o}, ps)  BY <1>4, <1>6, <1>7, <1>9, <1>10, <1>11 DEF TabInv
  <1>13. \A E : ZeroKnown(z, E) => ZeroKnown(w, E \ {o})
    BY <1>1, <1>4, <1>5 DEF ZeroKnown
  <1>14. Unpinned(z) => Unpinned(w)  BY <1>1, <1>4 DEF Unpinned
  <1> QED  BY <1>1, <1>4, <1>5, <1>12, <1>13, <1>14 DEF w, Without

\* StickRCObject: the object leaves the table for good.
LEMMA StickKeeps ==
  ASSUME NEW A, NEW z, TabInv(z, A, <<>>), NEW o \in A,
         NEW w, w = Stuck(z, o)
  PROVE  /\ TabInv(w, A, <<>>) /\ w.rc = z.rc /\ w.sticky = z.sticky \cup {o} /\ w.pinned = z.pinned
         /\ \A E : ZeroKnown(z, E) => ZeroKnown(w, E)
         /\ Unpinned(z) => Unpinned(w)
  <1> A \in SUBSET Objects  BY DEF TabInv
  <1> DEFINE r == RemoveIfListed(z, o)
  <1>0. o \in Objects /\ <<>> \in Seq(Values)  BY EmptySeq
  <1>1. /\ TabInv(r, A, <<>>) /\ r.rc = z.rc /\ r.sticky = z.sticky /\ r.pinned = z.pinned
        /\ r.missed = z.missed /\ r.idx[o] = 0 /\ \A p \in Objects \ {o} : r.idx[p] = z.idx[p]
    <2>1. /\ A \in SUBSET Objects /\ <<>> \in Seq(Values) /\ TabInv(z, A, <<>>) /\ o \in A
          /\ ~Sits(<<>>, z.idx, o)
      BY <1>0, NotMoved
    <2> QED  BY ONLY <2>1, RemoveKeeps
  <1>2. w = [r EXCEPT !.sticky = @ \cup {o}, !.missed = @ \ {o}]  BY DEF Stuck
  <1> HIDE DEF r
  <1>3. r \in Tables  BY <1>1 DEF TabInv
  <1>4. /\ w \in Tables /\ w.rc = z.rc /\ w.sticky = z.sticky \cup {o} /\ w.idx = r.idx
        /\ w.pinned = z.pinned /\ w.zct = r.zct /\ w.segs = r.segs /\ w.missed = z.missed \ {o}
    <2>1. r.sticky \cup {o} \in SUBSET Objects  BY <1>0, <1>3 DEF Tables
    <2> QED  BY <1>1, <1>2, <1>3, <2>1 DEF Tables
  <1>5. \A p \in Objects \ A : w.rc[p] = 0  BY <1>4 DEF TabInv
  <1>6. \A p \in Objects : w.rc[p] <= StickyAt /\ (p \notin w.sticky => w.rc[p] < StickyAt)
    BY <1>4 DEF TabInv
  <1>7. \A p \in A : r.idx[p] # 0 => w.rc[p] = 0 /\ p \notin w.sticky  BY <1>1, <1>4 DEF TabInv
  <1>8. w.sticky \subseteq A /\ w.pinned \subseteq A /\ w.missed \subseteq A  BY <1>4 DEF TabInv
  <1>9. Fit(Len(r.zct), r.segs)  BY <1>1 DEF TabInv
  <1>10. TabInv(w, A, <<>>)  BY <1>0, <1>1, <1>4, <1>5, <1>6, <1>7, <1>8, <1>9, SameLists
  <1>11. \A E : ZeroKnown(z, E) => ZeroKnown(w, E)  BY <1>1, <1>4 DEF ZeroKnown
  <1>12. Unpinned(z) => Unpinned(w)  BY <1>1, <1>4 DEF Unpinned
  <1> QED  BY <1>4, <1>10, <1>11, <1>12

\* The pinning of a reap.
LEMMA PinKeeps ==
  ASSUME NEW A, NEW ps, NEW z, TabInv(z, A, ps), NEW P \in SUBSET A,
         NEW w, w = [z EXCEPT !.pinned = @ \cup P]
  PROVE  /\ TabInv(w, A, ps) /\ w.rc = z.rc /\ w.sticky = z.sticky /\ w.idx = z.idx
         /\ w.pinned = z.pinned \cup P /\ w.missed = z.missed /\ w.segs = z.segs
  <1> A \in SUBSET Objects /\ ps \in Seq(Values)  BY DEF TabInv
  <1>1. z \in Tables /\ z.pinned \subseteq A  BY DEF TabInv
  <1>2. /\ w \in Tables /\ w.rc = z.rc /\ w.sticky = z.sticky /\ w.idx = z.idx
        /\ w.pinned = z.pinned \cup P /\ w.zct = z.zct /\ w.segs = z.segs /\ w.missed = z.missed
    <2>1. z.pinned \cup P \in SUBSET Objects  BY <1>1
    <2> QED  BY <1>1, <2>1 DEF Tables
  <1>3. w.pinned \subseteq A  BY <1>1, <1>2
  <1>4. TabInv(w, A, ps)  BY <1>2, <1>3 DEF TabInv
  <1> QED  BY <1>2, <1>4

\* The table without its last entry; an object that was there is not listed.
LEMMA PopKeeps ==
  ASSUME NEW A, NEW ps, NEW z, TabInv(z, A, ps), z.zct # <<>>,
         NEW w \in Tables, w.rc = z.rc, w.sticky = z.sticky, w.zct = Front(z.zct),
         w.segs = IF Len(z.zct) = (z.segs - 1) * SegCap THEN z.segs - 1 ELSE z.segs,
         w.pinned \subseteq z.pinned, w.missed \subseteq A,
         Last(z.zct) = NULL => w.idx = z.idx,
         Last(z.zct) # NULL => w.idx = [z.idx EXCEPT ![Last(z.zct)] = 0]
  PROVE  TabInv(w, A, ps)
  <1> A \in SUBSET Objects /\ ps \in Seq(Values)  BY DEF TabInv
  <1> DEFINE o == Last(z.zct)
             n == Len(z.zct)
  <1>1. /\ z \in Tables /\ z.zct \in Seq(Values) /\ n \in Nat /\ DOMAIN z.zct = 1..n /\ z.segs \in Nat \ {0}
        /\ z.idx \in [Objects -> Nat] /\ NULL \notin A /\ Len(ps) \in Nat /\ DOMAIN ps = 1..Len(ps)
    <2>1. A \in SUBSET Objects /\ ps \in Seq(Values) /\ TabInv(z, A, ps)  OBVIOUS
    <2> QED  BY ONLY <2>1, TabFacts
  <1>2. /\ Len(w.zct) = n - 1 /\ n # 0 /\ o = z.zct[n]
        /\ \A i \in 1..(n - 1) : w.zct[i] = z.zct[i]
    <2>1. z.zct \in Seq(Values) /\ z.zct # <<>>  BY <1>1
    <2>2. /\ Len(Front(z.zct)) = Len(z.zct) - 1 /\ Len(z.zct) \in Nat \ {0}
          /\ \A i \in 1..(Len(z.zct) - 1) : Front(z.zct)[i] = z.zct[i]
          /\ Last(z.zct) = z.zct[Len(z.zct)]
      BY ONLY <2>1, FrontFacts
    <2> QED  BY <2>2
  <1>3. DOMAIN w.zct = 1..(n - 1)
    <2>1. w.zct \in Seq(Values)  BY DEF Tables
    <2> QED  BY <1>2, <2>1, LenProperties
  <1>4. Entries(z.zct, z.idx, A) /\ Entries(ps, z.idx, A)  BY DEF TabInv
  <1>5. o # NULL => o \in A /\ z.idx[o] = n
    <2>1. n \in DOMAIN z.zct  BY <1>1, <1>2
    <2> QED  BY <1>2, <1>4, <2>1 DEF Entries
  <1> HIDE DEF o, n
  <1>6. /\ \A p \in Objects \ {o} : w.idx[p] = z.idx[p]
        /\ o # NULL => w.idx[o] = 0
    <2>1. CASE o = NULL  BY <2>1 DEF o
    <2>2. CASE o # NULL  
      <3>1. o \in Objects /\ w.idx = [z.idx EXCEPT ![o] = 0]  BY <1>5, <2>2 DEF o
      <3> QED  BY <1>1, <3>1
    <2> QED  BY <2>1, <2>2
  <1>7. Entries(w.zct, w.idx, A)
    <2> SUFFICES ASSUME NEW i \in 1..(n - 1), w.zct[i] # NULL PROVE w.zct[i] \in A /\ w.idx[w.zct[i]] = i
      BY <1>3 DEF Entries
    <2>1. i \in DOMAIN z.zct /\ i # n  BY <1>1
    <2>2. w.zct[i] = z.zct[i]  BY <1>2
    <2>3. z.zct[i] \in A /\ z.idx[z.zct[i]] = i  BY <1>4, <2>1, <2>2 DEF Entries
    <2>4. z.zct[i] # o  BY <1>1, <1>5, <2>1, <2>3
    <2> QED  BY <1>6, <2>2, <2>3, <2>4
  <1>8. o # NULL => \A i \in DOMAIN ps : ps[i] # o
    <2> SUFFICES ASSUME o # NULL, NEW i \in DOMAIN ps, ps[i] = o PROVE FALSE  OBVIOUS
    <2>1. z.idx[o] = i /\ z.idx[o] = n /\ o \in A  BY <1>4, <1>5 DEF Entries
    <2>2. Sits(ps, z.idx, o)  BY <2>1 DEF Sits
    <2>3. Sits(z.zct, z.idx, o)  BY <1>1, <1>2, <2>1 DEF Sits
    <2>4. z.idx[o] # 0  BY <1>2, <2>1
    <2> QED  BY <2>1, <2>2, <2>3, <2>4 DEF TabInv
  <1>9. Entries(ps, w.idx, A)
    <2> SUFFICES ASSUME NEW i \in DOMAIN ps, ps[i] # NULL PROVE ps[i] \in A /\ w.idx[ps[i]] = i
      BY DEF Entries
    <2>1. ps[i] \in A /\ z.idx[ps[i]] = i  BY <1>4 DEF Entries
    <2>2. ps[i] # o  BY <1>8
    <2> QED  BY <1>6, <2>1, <2>2
  <1>10. ASSUME NEW p \in A, w.idx[p] # 0
         PROVE  /\ Sits(w.zct, w.idx, p) \/ Sits(ps, w.idx, p)
                /\ ~(Sits(w.zct, w.idx, p) /\ Sits(ps, w.idx, p))
                /\ w.rc[p] = 0 /\ p \notin w.sticky
    <2>1. p # o /\ w.idx[p] = z.idx[p]  BY <1>1, <1>6, <1>10
    <2>2. Sits(ps, w.idx, p) <=> Sits(ps, z.idx, p)  BY <2>1 DEF Sits
    <2>3. Sits(w.zct, w.idx, p) <=> Sits(z.zct, z.idx, p)
      <3>1. \A i \in 1..n : z.zct[i] = p => i \in 1..(n - 1)
        <4> SUFFICES ASSUME NEW i \in 1..n, z.zct[i] = p PROVE i \in 1..(n - 1)  OBVIOUS
        <4>1. i # n  BY <1>2, <2>1
        <4> QED  BY <1>1, <4>1
      <3>2. \A i \in 1..(n - 1) : i \in 1..n  BY <1>1
      <3> QED  BY <1>1, <1>2, <1>3, <2>1, <3>1, <3>2 DEF Sits
    <2>4. /\ Sits(z.zct, z.idx, p) \/ Sits(ps, z.idx, p)
          /\ ~(Sits(z.zct, z.idx, p) /\ Sits(ps, z.idx, p))
          /\ z.rc[p] = 0 /\ p \notin z.sticky
      BY <1>10, <2>1 DEF TabInv
    <2> QED  BY <2>2, <2>3, <2>4
  <1>11. Fit(Len(w.zct), w.segs)
    <2>1. Fit(n, z.segs)  BY DEF TabInv, n
    <2>2. /\ n # 0 /\ w.segs = IF n = (z.segs - 1) * SegCap THEN z.segs - 1 ELSE z.segs
          /\ Len(w.zct) = n - 1
      BY <1>2 DEF n
    <2> QED  BY <1>1, <2>1, <2>2, FitFacts
  <1>12. \A p \in Objects \ A : w.rc[p] = 0 /\ w.idx[p] = 0
    <2>1. \A p \in Objects \ A : z.rc[p] = 0 /\ z.idx[p] = 0  BY DEF TabInv
    <2> QED  BY <1>5, <1>6, <2>1, ZCTAssumption
  <1>13. /\ \A p \in Objects : w.rc[p] <= StickyAt /\ (p \notin w.sticky => w.rc[p] < StickyAt)
         /\ w.sticky \subseteq A /\ w.pinned \subseteq A /\ w.missed \subseteq A
    BY DEF TabInv
  <1> QED  BY <1>7, <1>9, <1>10, <1>11, <1>12, <1>13 DEF TabInv

\* w is z with o moved to the end of the pin list, behind the link of a new block or not.
Pushes(z, w, A, ps, list, o) ==
    /\ TabInv(z, A, ps) /\ o \in A /\ list \in {ps, Append(ps, NULL)}
    /\ z.rc[o] = 0 /\ o \notin z.sticky /\ z.idx[o] = 0
    /\ w \in Tables /\ w.rc = z.rc /\ w.sticky = z.sticky /\ w.zct = z.zct /\ w.segs = z.segs
    /\ w.pinned \subseteq z.pinned /\ w.missed = z.missed
    /\ w.idx[o] = Len(list) + 1 /\ \A p \in Objects \ {o} : w.idx[p] = z.idx[p]

\* PinObject: the object is the new last entry of the pin list.
LEMMA PushKeeps ==
  ASSUME NEW A, NEW ps, NEW z, NEW o, NEW list, NEW w, Pushes(z, w, A, ps, list, o)
  PROVE  /\ TabInv(w, A, Append(list, o)) /\ Append(list, o) \in Seq(Values)
         /\ Len(list) \in Nat /\ Len(Append(list, o)) = Len(list) + 1
         /\ Append(list, o)[Len(list) + 1] = o
         /\ \A i \in 1..Len(list) : Append(list, o)[i] = list[i]
         /\ \A i \in 1..Len(list) : list[i] # NULL => i \in 1..Len(ps) /\ list[i] = ps[i]
         /\ \A i \in 1..Len(ps) : i \in 1..Len(list) /\ list[i] = ps[i]
  <1> /\ TabInv(z, A, ps) /\ o \in A /\ list \in {ps, Append(ps, NULL)}
      /\ z.rc[o] = 0 /\ o \notin z.sticky /\ z.idx[o] = 0
      /\ w \in Tables /\ w.rc = z.rc /\ w.sticky = z.sticky /\ w.zct = z.zct /\ w.segs = z.segs
      /\ w.pinned \subseteq z.pinned /\ w.missed = z.missed
      /\ w.idx[o] = Len(list) + 1 /\ \A p \in Objects \ {o} : w.idx[p] = z.idx[p]
    BY DEF Pushes
  <1> A \in SUBSET Objects /\ ps \in Seq(Values)  BY DEF TabInv
  <1> DEFINE m == Len(list)
             q == Append(list, o)
  <1>1. /\ z.zct \in Seq(Values) /\ DOMAIN z.zct = 1..Len(z.zct) /\ Len(z.zct) \in Nat
        /\ z.idx \in [Objects -> Nat] /\ NULL \notin Objects /\ Len(ps) \in Nat /\ DOMAIN ps = 1..Len(ps)
    <2>1. A \in SUBSET Objects /\ ps \in Seq(Values) /\ TabInv(z, A, ps)  OBVIOUS
    <2> QED  BY ONLY <2>1, TabFacts
  <1>2. o \in Objects /\ o # NULL /\ o \in Values /\ NULL \in Values  BY <1>1 DEF Values
  <1>3. /\ list \in Seq(Values) /\ m \in Nat
        /\ \A i \in 1..m : list[i] # NULL => i \in 1..Len(ps) /\ list[i] = ps[i]
        /\ \A i \in 1..Len(ps) : i \in 1..m /\ list[i] = ps[i]
    <2>1. CASE list = ps  BY <1>1, <2>1
    <2>2. CASE list = Append(ps, NULL)
      <3>1. /\ list \in Seq(Values) /\ m = Len(ps) + 1 /\ list[Len(ps) + 1] = NULL
            /\ \A i \in 1..Len(ps) : list[i] = ps[i]
        BY <1>2, <2>2, AppendProperties
      <3> HIDE DEF m
      <3>2. \A i \in 1..m : i \in 1..Len(ps) \/ i = Len(ps) + 1  BY <1>1, <3>1
      <3>3. m \in Nat /\ \A i \in 1..Len(ps) : i \in 1..m  BY <1>1, <3>1
      <3> QED  BY <3>1, <3>2, <3>3 DEF m
    <2> QED  BY <2>1, <2>2
  <1>4. /\ q \in Seq(Values) /\ Len(q) = m + 1 /\ q[m + 1] = o
        /\ \A i \in 1..m : q[i] = list[i]
    BY <1>2, <1>3, AppendProperties
  <1>5. DOMAIN q = 1..(m + 1)  BY <1>4, LenProperties
  <1> HIDE DEF m, q
  <1>6. w.idx[o] = m + 1 /\ \A p \in Objects \ {o} : w.idx[p] = z.idx[p]  BY DEF m
  <1>7. Entries(z.zct, z.idx, A) /\ Entries(ps, z.idx, A)  BY DEF TabInv
  <1>8. \A i \in DOMAIN z.zct : z.zct[i] # o
    <2>1. \A i \in DOMAIN z.zct : i # 0  BY <1>1
    <2> QED  BY <1>2, <1>7, <2>1 DEF Entries
  <1>9. Entries(w.zct, w.idx, A)
    <2> SUFFICES ASSUME NEW i \in DOMAIN z.zct, z.zct[i] # NULL PROVE z.zct[i] \in A /\ w.idx[z.zct[i]] = i
      BY DEF Entries
    <2>1. z.zct[i] \in A /\ z.idx[z.zct[i]] = i  BY <1>7 DEF Entries
    <2> QED  BY <1>6, <1>8, <2>1
  <1>10. Entries(q, w.idx, A)
    <2> SUFFICES ASSUME NEW i \in 1..(m + 1), q[i] # NULL PROVE q[i] \in A /\ w.idx[q[i]] = i
      BY <1>5 DEF Entries
    <2>1. CASE i = m + 1  BY <1>4, <1>6, <2>1
    <2>2. CASE i # m + 1
      <3>1. i \in 1..m /\ i # 0  BY <1>3, <2>2
      <3>2. i \in DOMAIN ps /\ q[i] = ps[i]  BY <1>1, <1>3, <1>4, <3>1
      <3>3. ps[i] \in A /\ z.idx[ps[i]] = i  BY <1>7, <3>2 DEF Entries
      <3>4. ps[i] # o  BY <3>1, <3>3
      <3> QED  BY <1>6, <3>2, <3>3, <3>4
    <2> QED  BY <2>1, <2>2
  <1>11. ASSUME NEW p \in A, w.idx[p] # 0
         PROVE  /\ Sits(w.zct, w.idx, p) \/ Sits(q, w.idx, p)
                /\ ~(Sits(w.zct, w.idx, p) /\ Sits(q, w.idx, p))
                /\ w.rc[p] = 0 /\ p \notin w.sticky
    <2>1. CASE p = o
      <3>1. Sits(q, w.idx, o)
        <4>1. m + 1 \in 1..(m + 1)  BY <1>3
        <4> QED  BY <1>4, <1>5, <1>6, <4>1 DEF Sits
      <3>2. ~Sits(w.zct, w.idx, o)  BY <1>8 DEF Sits
      <3> QED  BY <2>1, <3>1, <3>2
    <2>2. CASE p # o
      <3>1. w.idx[p] = z.idx[p] /\ p # NULL  BY <1>1, <1>6, <2>2
      <3>2. Sits(w.zct, w.idx, p) <=> Sits(z.zct, z.idx, p)  BY <3>1 DEF Sits
      <3>3. Sits(q, w.idx, p) <=> Sits(ps, z.idx, p)
        <4>1. \A i \in 1..(m + 1) : q[i] = p => i \in 1..m  BY <1>3, <1>4, <2>2
        <4>2. \A i \in 1..m : i \in 1..(m + 1)  BY <1>3
        <4>3. \A i \in 1..m : q[i] = p => i \in DOMAIN ps /\ ps[i] = p  BY <1>1, <1>3, <1>4, <3>1
        <4>4. \A i \in DOMAIN ps : i \in 1..(m + 1) /\ q[i] = ps[i]  BY <1>1, <1>3, <1>4, <4>2
        <4> QED  BY <1>5, <3>1, <4>1, <4>3, <4>4 DEF Sits
      <3> QED  BY <1>11, <3>1, <3>2, <3>3 DEF TabInv
    <2> QED  BY <2>1, <2>2
  <1>12. \A p \in Objects \ A : w.rc[p] = 0 /\ w.idx[p] = 0  BY <1>6 DEF TabInv
  <1>13. /\ \A p \in Objects : w.rc[p] <= StickyAt /\ (p \notin w.sticky => w.rc[p] < StickyAt)
         /\ w.sticky \subseteq A /\ w.pinned \subseteq A /\ w.missed \subseteq A /\ Fit(Len(w.zct), w.segs)
    BY DEF TabInv
  <1>14. TabInv(w, A, q)  BY <1>4, <1>9, <1>10, <1>11, <1>12, <1>13 DEF TabInv
  <1> QED  BY <1>3, <1>4, <1>14 DEF m, q

\* UsePinningMemory: the pin list is the table.
LEMMA UsePinsKeeps ==
  ASSUME NEW A, NEW ps, NEW z, TabInv(z, A, ps), z.zct = <<>>,
         NEW w \in Tables, w.rc = z.rc, w.sticky = z.sticky, w.idx = z.idx, w.pinned = z.pinned,
         w.missed = z.missed, w.zct = ps,
         ps # <<>> => w.segs = (Len(ps) + SegCap - 1) \div SegCap,
         ps = <<>> => w.segs = z.segs,
         \A i \in DOMAIN ps : ps[i] \notin z.pinned
  PROVE  TabInv(w, A, <<>>) /\ Unpinned(w)
  <1> A \in SUBSET Objects /\ ps \in Seq(Values)  BY DEF TabInv
  <1>1. /\ Len(ps) \in Nat /\ DOMAIN ps = 1..Len(ps) /\ NULL \notin Objects  BY TabFacts
  <1>2. DOMAIN z.zct = {} /\ DOMAIN (<<>>) = {}  OBVIOUS
  <1>3. Fit(Len(w.zct), w.segs)
    <2>1. CASE ps = <<>>  BY <2>1 DEF TabInv
    <2>2. CASE ps # <<>>
      <3>1. Len(ps) \in Nat \ {0}  BY <1>1, <2>2, EmptySeq
      <3> QED  BY <2>2, <3>1, FitDiv
    <2> QED  BY <2>1, <2>2
  <1>4. \A p \in A : z.idx[p] # 0 =>
          Sits(ps, z.idx, p) /\ ~Sits(<<>>, z.idx, p) /\ z.rc[p] = 0 /\ p \notin z.sticky
    BY <1>2 DEF TabInv, Sits
  <1>5. Entries(ps, z.idx, A) /\ Entries(<<>>, z.idx, A)  BY <1>2 DEF TabInv, Entries
  <1>6. TabInv(w, A, <<>>)  BY <1>3, <1>4, <1>5 DEF TabInv
  <1>7. ASSUME NEW p \in Objects, w.idx[p] # 0 PROVE p \notin w.pinned
    <2>1. p \in A  BY <1>7 DEF TabInv
    <2>2. Sits(ps, z.idx, p)  BY <1>4, <1>7, <2>1
    <2> QED  BY <2>2 DEF Sits
  <1> QED  BY <1>6, <1>7 DEF Unpinned

-----------------------------------------------------------------------------
(***************************************************************************)
(* The counts.                                                             *)
(***************************************************************************)
\* The fields that point to an object can be counted.
LEMMA RefsFinite ==
  ASSUME NEW f, NEW o
  PROVE  IsFiniteSet(Refs(f, o)) /\ Cardinality(Refs(f, o)) \in Nat
  <1>1. IsFiniteSet(Holders)
    <2>1. IsFiniteSet(Objects) /\ IsFiniteSet({Root})  BY ZCTAssumption, FS_Singleton
    <2> QED  BY <2>1, FS_Union DEF Holders
  <1>2. Refs(f, o) \subseteq Holders  BY DEF Refs
  <1> QED  BY <1>1, <1>2, FS_Subset, FS_CardinalityType

\* g is f without what field x points to.
Clears(f, x, g) == x \in Holders /\ g[x] = NULL /\ \A y \in Holders \ {x} : g[y] = f[y]

\* A field that is cleared points to one object less.
LEMMA CountDrop ==
  ASSUME NEW f, NEW x, NEW g, Clears(f, x, g), NEW o \in Objects
  PROVE  /\ f[x] = o => Cardinality(Refs(f, o)) = Cardinality(Refs(g, o)) + 1
         /\ f[x] # o => Cardinality(Refs(g, o)) = Cardinality(Refs(f, o))
  <1>1. CASE f[x] = o
    <2>1. Refs(g, o) = Refs(f, o) \ {x} /\ x \in Refs(f, o)  BY <1>1, ZCTAssumption DEF Refs, Clears
    <2>2. Cardinality(Refs(f, o) \ {x}) = Cardinality(Refs(f, o)) - 1
      BY <2>1, RefsFinite, FS_RemoveElement
    <2>3. Cardinality(Refs(f, o)) \in Nat  BY RefsFinite
    <2> QED  BY <1>1, <2>1, <2>2, <2>3
  <1>2. CASE f[x] # o
    <2>1. Refs(g, o) = Refs(f, o)  BY <1>2, ZCTAssumption DEF Refs, Clears
    <2> QED  BY <1>2, <2>1
  <1> QED  BY <1>1, <1>2

\* A field that is counted counts: its target has a count, unless it is sticky.
LEMMA CountedCounts ==
  ASSUME NEW ps, NEW z, TabInv(z, alive, ps), NEW f, f \in [Holders -> Values],
         CountsAre(z.rc, alive \ z.sticky, f), NEW x \in Holders
  PROVE  /\ Counts(z, f[x]) <=> f[x] \in alive \ z.sticky
         /\ \A o \in alive \ z.sticky : z.rc[o] = 0 => \A y \in Holders : f[y] # o
  <1>0. alive \in SUBSET Objects /\ z.rc \in [Objects -> Nat] /\ NULL \notin alive
    <2>1. alive \in SUBSET Objects  BY DEF TabInv
    <2> QED  BY <2>1, TabFacts
  <1>1. ASSUME NEW o \in alive \ z.sticky, NEW y \in Holders, f[y] = o PROVE z.rc[o] > 0
    <2>1. z.rc[o] = Cardinality(Refs(f, o))  BY DEF CountsAre
    <2>2. o \in Objects  BY <1>0
    <2> DEFINE g == [f EXCEPT ![y] = NULL]
    <2>3. Clears(f, y, g)  BY DEF Clears
    <2> HIDE DEF g
    <2>4. Cardinality(Refs(f, o)) = Cardinality(Refs(g, o)) + 1  BY <1>1, <2>2, <2>3, CountDrop
    <2>5. Cardinality(Refs(g, o)) \in Nat  BY RefsFinite
    <2> QED  BY <2>1, <2>4, <2>5
  <1>2. \A o \in alive \ z.sticky : z.rc[o] = 0 => \A y \in Holders : f[y] # o
    <2> SUFFICES ASSUME NEW o \in alive \ z.sticky, z.rc[o] = 0, NEW y \in Holders, f[y] = o PROVE FALSE
      OBVIOUS
    <2>1. z.rc[o] > 0  BY <1>1
    <2> QED  BY <2>1
  <1>3. Counts(z, f[x]) <=> f[x] \in alive \ z.sticky
    <2>1. f[x] \in alive \ z.sticky => z.rc[f[x]] > 0  BY <1>1
    <2> QED  BY <1>0, <2>1 DEF Counts
  <1> QED  BY <1>2, <1>3

\* Counts after one that went down for a field that gave up its reference.
LEMMA DropExact ==
  ASSUME NEW ps, NEW z, TabInv(z, alive, ps), NEW f, f \in [Holders -> Values],
         CountsAre(z.rc, alive \ z.sticky, f), NEW x \in Holders, NEW r,
         Counts(z, f[x]) => r = [z.rc EXCEPT ![f[x]] = z.rc[f[x]] - 1],
         ~Counts(z, f[x]) => r = z.rc
  PROVE  CountsAre(r, alive \ z.sticky, [f EXCEPT ![x] = NULL])
  <1> DEFINE g == [f EXCEPT ![x] = NULL]
  <1>0. alive \in SUBSET Objects /\ z.rc \in [Objects -> Nat]
    <2>1. alive \in SUBSET Objects  BY DEF TabInv
    <2> QED  BY <2>1, TabFacts
  <1>1. Counts(z, f[x]) <=> f[x] \in alive \ z.sticky  BY CountedCounts
  <1> SUFFICES ASSUME NEW o \in alive \ z.sticky PROVE r[o] = Cardinality(Refs(g, o))
    BY DEF CountsAre
  <1>2. o \in Objects /\ z.rc[o] = Cardinality(Refs(f, o)) /\ z.rc[o] \in Nat  BY <1>0 DEF CountsAre
  <1>3. /\ f[x] = o => Cardinality(Refs(f, o)) = Cardinality(Refs(g, o)) + 1
        /\ f[x] # o => Cardinality(Refs(g, o)) = Cardinality(Refs(f, o))
        /\ Cardinality(Refs(g, o)) \in Nat
    <2>1. Clears(f, x, g)  BY DEF Clears
    <2> HIDE DEF g
    <2>2. /\ f[x] = o => Cardinality(Refs(f, o)) = Cardinality(Refs(g, o)) + 1
          /\ f[x] # o => Cardinality(Refs(g, o)) = Cardinality(Refs(f, o))
      BY <1>2, <2>1, CountDrop
    <2> QED  BY <2>2, RefsFinite
  <1> HIDE DEF g
  <1>4. CASE f[x] = o
    <2>1. r[o] = z.rc[o] - 1  BY <1>0, <1>1, <1>2, <1>4
    <2> QED  BY <1>2, <1>3, <1>4, <2>1
  <1>5. CASE f[x] # o
    <2>1. r[o] = z.rc[o]  BY <1>0, <1>1, <1>2, <1>5
    <2> QED  BY <1>2, <1>3, <1>5, <2>1
  <1> QED  BY <1>4, <1>5

\* Counts after IncrementRef of the value that a cleared field gets.
LEMMA TakeExact ==
  ASSUME NEW A, NEW ps, NEW z, TabInv(z, A, ps), NEW f, f \in [Holders -> Values],
         CountsAre(z.rc, A \ z.sticky, f), NEW x \in Holders, f[x] = NULL, NEW v \in A \cup {NULL},
         v # NULL => ~Sits(ps, z.idx, v), NEW w, w = IncrementRef(z, v)
  PROVE  CountsAre(w.rc, A \ w.sticky, [f EXCEPT ![x] = v])
  <1> DEFINE g == [f EXCEPT ![x] = v]
  <1>0. A \in SUBSET Objects /\ z.rc \in [Objects -> Nat] /\ NULL \notin A
    <2>1. A \in SUBSET Objects  BY DEF TabInv
    <2> QED  BY <2>1, TabFacts
  <1>1. /\ z.sticky \subseteq w.sticky /\ (v = NULL \/ v \in z.sticky => w = z)
        /\ v # NULL /\ v \notin z.sticky => w.rc = [z.rc EXCEPT ![v] = z.rc[v] + 1]
    <2>1. /\ TabInv(z, A, ps) /\ v \in A \cup {NULL} /\ (v # NULL => ~Sits(ps, z.idx, v))
          /\ w = IncrementRef(z, v)
      OBVIOUS
    <2> QED  BY ONLY <2>1, IncrementRefKeeps
  <1> SUFFICES ASSUME NEW o \in A \ w.sticky PROVE w.rc[o] = Cardinality(Refs(g, o))
    BY DEF CountsAre
  <1>2. o \in A \ z.sticky /\ o \in Objects /\ z.rc[o] = Cardinality(Refs(f, o)) /\ z.rc[o] \in Nat
    BY <1>0, <1>1 DEF CountsAre
  <1>3. v \in Values  BY <1>0 DEF Values
  <1>4. /\ v = o => Cardinality(Refs(g, o)) = Cardinality(Refs(f, o)) + 1
        /\ v # o => Cardinality(Refs(g, o)) = Cardinality(Refs(f, o))
    <2>1. Clears(g, x, f) /\ g[x] = v  BY <1>3 DEF Clears
    <2> HIDE DEF g
    <2> QED  BY <1>2, <2>1, CountDrop
  <1> HIDE DEF g
  <1>5. CASE v = o
    <2>1. w.rc[o] = z.rc[o] + 1  BY <1>0, <1>1, <1>2, <1>5
    <2> QED  BY <1>2, <1>4, <1>5, <2>1
  <1>6. CASE v # o
    <2>1. w.rc[o] = z.rc[o]  BY <1>0, <1>1, <1>2, <1>6
    <2> QED  BY <1>2, <1>4, <1>6, <2>1
  <1> QED  BY <1>5, <1>6

-----------------------------------------------------------------------------
(***************************************************************************)
(* Steps.                                                                  *)
(***************************************************************************)
\* The variables of the table as a record.
LEMMA TableFields ==
  /\ Table.rc = rc /\ Table.sticky = sticky /\ Table.idx = idx /\ Table.pinned = pinned
  /\ Table.zct = zct /\ Table.segs = segs /\ Table.budget = budget /\ Table.missed = missed
  BY DEF Table

LEMMA BecomesTable ==
  ASSUME NEW w, w \in Tables, Becomes(w)
  PROVE  /\ Table' = w /\ rc' = w.rc /\ sticky' = w.sticky /\ idx' = w.idx /\ pinned' = w.pinned
         /\ zct' = w.zct /\ segs' = w.segs /\ budget' = w.budget /\ missed' = w.missed
  BY DEF Becomes, Table, Tables

LEMMA SameTable ==
  ASSUME UNCHANGED tableVars
  PROVE  Table' = Table /\ rc' = rc /\ sticky' = sticky /\ idx' = idx /\ pinned' = pinned /\ zct' = zct
  BY DEF tableVars, Table

\* The inductive invariant after a step, from its parts.
LEMMA Assemble ==
  ASSUME HeapInv', AfterInv', AddInv', PinInv', FrameInv', TabInv(Table', alive', pins'),
         CountsAre(rc', alive' \ sticky', Counted'),
         ZeroKnown(Table', alive' \ (condemned' \cup {adding', running'}))
  PROVE  IndInv'
  <1>1. TabInv(Table, alive, pins)'  BY DEF TabInv, Entries, Sits
  <1>2. CountsAre(rc, alive \ sticky, Counted)'  BY DEF CountsAre, Refs
  <1>3. ZeroKnown(Table, alive \ (condemned \cup {adding, running}))'  BY DEF ZeroKnown
  <1> QED  BY <1>1, <1>2, <1>3 DEF IndInv

\* Between reaps.
LEMMA Calm ==
  ASSUME IndInv, phase # "reap"
  PROVE  /\ pins = <<>> /\ adding = NULL /\ after = Nothing /\ Unpinned(Table)
         /\ TabInv(Table, alive, <<>>) /\ CountsAre(rc, alive \ sticky, field)
         /\ ZeroKnown(Table, alive \ condemned) /\ HeapInv /\ Idle
  <1>1. pins = <<>> /\ adding = NULL /\ after = Nothing /\ Unpinned(Table) /\ HeapInv /\ Idle
    BY DEF IndInv, AfterInv, PinInv, FrameInv, Idle
  <1>2. Counted = field  BY <1>1 DEF Counted, Nothing
  <1>3. ZeroKnown(Table, alive \ condemned)  BY <1>1, ZCTAssumption DEF IndInv, ZeroKnown, Idle
  <1> QED  BY <1>1, <1>2, <1>3 DEF IndInv

\* The program and the sweep leave the variables of the code in a reap alone.
LEMMA StaysIdle ==
  ASSUME IndInv, phase # "reap", UNCHANGED frame
  PROVE  Idle'
  BY Calm DEF Idle, frame

LEMMA Settle ==
  ASSUME HeapInv', Idle', phase' # "reap", pins' = <<>>, adding' = NULL, after' = Nothing,
         TabInv(Table', alive', <<>>), CountsAre(rc', alive' \ sticky', field'),
         ZeroKnown(Table', alive' \ condemned'), Unpinned(Table')
  PROVE  IndInv'
  <1>1. AfterInv' /\ AddInv'
    <2>1. <<>> \in Seq(Values) /\ Nothing \in Afters  BY EmptySeq DEF Afters
    <2> QED  BY <2>1 DEF AfterInv, AddInv, Nothing
  <1>2. PinInv'
    <2>1. DOMAIN pins' = {}  OBVIOUS
    <2>2. Unpinned(Table)'  BY DEF Unpinned
    <2> QED  BY <2>1, <2>2 DEF PinInv
  <1>3. Counted' = field'  BY DEF Counted, Nothing
  <1>4. ZeroKnown(Table', alive' \ (condemned' \cup {adding', running'}))  BY DEF ZeroKnown
  <1>5. FrameInv'  BY ZCTAssumption DEF FrameInv, Idle, HeapInv, Nothing
  <1> QED  BY <1>1, <1>2, <1>3, <1>4, <1>5, Assemble

\* The beginning of a reap.
LEMMA BeginReapKeeps ==
  ASSUME NEW z, NEW o, NEW op, BeginReap(z, o, op), Idle, locals' = locals, HeapInv', AfterInv', TabInv(z, alive', <<>>),
         o # NULL => o \in alive' /\ z.rc[o] = 0 /\ z.idx[o] = 0 /\ o \notin z.sticky,
         CountsAre(z.rc, alive' \ z.sticky, Counted'), ZeroKnown(z, alive' \ (condemned' \cup {o}))
  PROVE  IndInv'
  <1>1. phase' = "reap" /\ pins' = <<>> /\ adding' = o /\ after' = op /\ running' = Callback  BY DEF BeginReap
  <1>2. PICK P \in SUBSET alive' : /\ (stack' \cup {o}) \ {NULL} \subseteq P
                                   /\ Becomes([z EXCEPT !.pinned = @ \cup P])
    BY DEF BeginReap
  <1> DEFINE w == [z EXCEPT !.pinned = @ \cup P]
  <1>3. /\ TabInv(w, alive', <<>>) /\ w.rc = z.rc /\ w.sticky = z.sticky /\ w.idx = z.idx
        /\ w.pinned = z.pinned \cup P /\ w.missed = z.missed /\ w.segs = z.segs
    BY PinKeeps
  <1>4. Becomes(w)  BY <1>2
  <1> HIDE DEF w
  <1>5. w \in Tables  BY <1>3 DEF TabInv
  <1>6. Table' = w /\ rc' = w.rc /\ sticky' = w.sticky /\ idx' = w.idx /\ pinned' = w.pinned
    BY <1>4, <1>5, BecomesTable
  <1>7. AddInv'  BY <1>1, <1>3, <1>6 DEF AddInv
  <1>8. PinInv'
    <2>1. DOMAIN pins' = {}  BY <1>1
    <2>2. \A p \in stack' \cup ({adding'} \ {NULL}) : p \in pinned'
      <3>1. NULL \notin stack'  BY ZCTAssumption DEF HeapInv
      <3> QED  BY <1>1, <1>2, <1>3, <1>6, <3>1
    <2> QED  BY <1>1, <2>1, <2>2 DEF PinInv
  <1>9. ZeroKnown(w, alive' \ (condemned' \cup {adding', running'}))
    <2>1. ZeroKnown(w, alive' \ (condemned' \cup {o}))  BY <1>3 DEF ZeroKnown
    <2> QED  BY <1>1, <2>1, ZCTAssumption DEF ZeroKnown
  <1>10. FrameInv'  BY <1>1, ZCTAssumption DEF FrameInv, Idle
  <1> QED  BY <1>1, <1>3, <1>6, <1>7, <1>8, <1>9, <1>10, Assemble

\* Steps that only change what the stack points to.
LEMMA LoadKeeps ==
  ASSUME IndInv, NEW x, Load(x) \/ Forget(x)
  PROVE  IndInv'
  <1>1. /\ phase # "reap" /\ UNCHANGED <<alive, field, tableVars, pins, phase, condemned, adding, after>>
        /\ UNCHANGED frame
    BY DEF Load, Forget, ProgramRuns
  <1>2. /\ pins = <<>> /\ adding = NULL /\ after = Nothing /\ Unpinned(Table)
        /\ TabInv(Table, alive, <<>>) /\ CountsAre(rc, alive \ sticky, field)
        /\ ZeroKnown(Table, alive \ condemned) /\ HeapInv
    BY <1>1, Calm
  <1>3. stack' \subseteq alive \ condemned
    <2>1. CASE Forget(x)  BY <1>2, <2>1 DEF Forget, HeapInv
    <2>2. CASE Load(x)
      <3>1. x \in Holders \ condemned /\ stack' = stack \cup {field[x]} /\ field[x] # NULL
        BY <1>2, <2>2, ZCTAssumption DEF Load, HeapInv, Holders
      <3> QED  BY <1>2, <3>1 DEF HeapInv
    <2> QED  BY <2>1, <2>2
  <1>4. HeapInv'  BY <1>1, <1>2, <1>3 DEF HeapInv
  <1>5. Table' = Table /\ rc' = rc /\ sticky' = sticky  BY <1>1, SameTable
  <1>6. Idle'  BY <1>1, StaysIdle
  <1> QED  BY <1>1, <1>2, <1>4, <1>5, <1>6, Settle

\* The constructor.
LEMMA NewObjectKeeps ==
  ASSUME IndInv, NEW o \in Objects, NewObject(o)
  PROVE  IndInv'
  <1>1. /\ phase # "reap" /\ o \notin alive /\ alive' = alive \cup {o} /\ stack' = stack \cup {o}
        /\ UNCHANGED <<field, condemned, locals>> /\ \A x \in condemned : field[x] # o
    BY DEF NewObject, ProgramRuns
  <1>2. /\ pins = <<>> /\ adding = NULL /\ after = Nothing /\ Unpinned(Table)
        /\ TabInv(Table, alive, <<>>) /\ CountsAre(rc, alive \ sticky, field)
        /\ ZeroKnown(Table, alive \ condemned) /\ HeapInv /\ Idle
    BY <1>1, Calm
  <1>3. \A x \in Holders : field[x] # o
    <2> SUFFICES ASSUME NEW x \in Holders, x \notin condemned, field[x] = o PROVE FALSE  BY <1>1
    <2>1. field[x] \in (alive \ condemned) \cup {NULL}  BY <1>2 DEF HeapInv
    <2> QED  BY <1>1, <2>1, ZCTAssumption
  <1>4. TabInv(Table, alive', <<>>) /\ rc[o] = 0 /\ idx[o] = 0 /\ o \notin sticky
    <2>1. rc[o] = 0 /\ idx[o] = 0 /\ o \notin sticky  BY <1>1, <1>2, TableFields DEF TabInv
    <2>2. alive \subseteq alive' /\ alive' \in SUBSET Objects  BY <1>1, <1>2 DEF HeapInv
    <2>3. Entries(zct, idx, alive') /\ Entries(<<>>, idx, alive')
      BY <1>2, <2>2, TableFields DEF TabInv, Entries
    <2>4. \A p \in alive' : idx[p] # 0 => p \in alive  BY <1>1, <2>1
    <2> QED  BY <1>1, <1>2, <2>1, <2>2, <2>3, <2>4, TableFields DEF TabInv
  <1>5. CountsAre(rc, alive' \ sticky, field)
    <2>1. Refs(field, o) = {}  BY <1>3 DEF Refs
    <2>2. rc[o] = Cardinality(Refs(field, o))  BY <1>4, <2>1, FS_EmptySet
    <2> QED  BY <1>1, <1>2, <2>2 DEF CountsAre
  <1>6. ASSUME phase' \in {"run", "reap", "collect"}, condemned # {} => phase' = "collect"
        PROVE  HeapInv'
    BY <1>1, <1>2, <1>6 DEF HeapInv
  <1>7. CASE MustReap(Table)
    <2>1. BeginReap(Table, o, <<"new", NULL, NULL>>)  BY <1>7 DEF NewObject
    <2>2. /\ phase' = "reap" /\ pins' = <<>> /\ adding' = o /\ after' = <<"new", NULL, NULL>>
          /\ phase = "run" /\ condemned = {}
      BY <1>2, <1>7, <2>1 DEF BeginReap, MustReap, HeapInv
    <2>3. HeapInv'  BY <1>6, <2>2
    <2>4. AfterInv'
      <3>1. <<>> \in Seq(Values) /\ <<"new", NULL, NULL>> \in Afters  BY EmptySeq DEF Afters
      <3> QED  BY <1>1, <2>2, <3>1, ZCTAssumption DEF AfterInv, Nothing
    <2>5. Counted' = field  BY <1>1, <2>2 DEF Counted
    <2>6. ZeroKnown(Table, alive' \ (condemned' \cup {o}))  BY <1>1, <1>2 DEF ZeroKnown
    <2>7. o \in alive' /\ Table.rc = rc /\ Table.idx = idx /\ Table.sticky = sticky  BY <1>1, TableFields
    <2> QED  BY <1>1, <1>2, <1>4, <1>5, <2>1, <2>3, <2>4, <2>5, <2>6, <2>7, BeginReapKeeps
  <1>8. CASE ~MustReap(Table)
    <2>1. PICK w \in Add(Table, o, phase) : Becomes(w)  BY <1>8 DEF NewObject
    <2>2. UNCHANGED <<pins, phase, adding, after, running>>  BY <1>8 DEF NewObject
    <2>3. HeapInv'  BY <1>2, <1>6, <2>2 DEF HeapInv
    <2>4. o \in alive' /\ Table.rc[o] = 0 /\ o \notin Table.sticky /\ Table.idx[o] = 0
      BY <1>1, <1>4, TableFields
    <2>5. /\ TabInv(w, alive', <<>>) /\ w.rc = Table.rc /\ w.sticky = Table.sticky
          /\ w.idx[o] # 0 \/ o \in w.missed
          /\ Table.missed \subseteq w.missed /\ \A p \in Objects \ {o} : w.idx[p] = Table.idx[p]
          /\ w.pinned \subseteq Table.pinned /\ (~InReap(phase) /\ w.idx[o] # 0 => o \notin w.pinned)
      BY <1>4, <2>4, AddKeeps
    <2>6. w \in Tables  BY <2>5 DEF TabInv
    <2>7. Table' = w /\ rc' = w.rc /\ sticky' = w.sticky  BY <2>1, <2>6, BecomesTable
    <2>8. CountsAre(rc', alive' \ sticky', field')  BY <1>1, <1>5, <2>5, <2>7, TableFields
    <2>9. ZeroKnown(Table', alive' \ condemned')  BY <1>1, <1>2, <2>5, <2>7 DEF ZeroKnown
    <2>10. ~InReap(phase)  BY <1>1 DEF InReap
    <2>11. Unpinned(Table')  BY <1>2, <2>5, <2>7, <2>10 DEF Unpinned
    <2>12. Idle'  BY <1>1, <2>2, StaysIdle DEF frame
    <2> QED  BY <1>1, <1>2, <2>2, <2>3, <2>5, <2>7, <2>8, <2>9, <2>11, <2>12, Settle
  <1> QED  BY <1>7, <1>8

\* A store or delete that has to reap once the old value of field x has lost
\* its reference.
LEMMA DropReapKeeps ==
  ASSUME IndInv, phase # "reap", NEW x \in Holders, NEW op, op[1] \in {"store", "delete"}, op[2] = x,
         DropReaps(field[x]), BeginReap(Decrement(Table, field[x]), field[x], op),
         UNCHANGED <<alive, field, stack, condemned, locals>>, AfterInv'
  PROVE  IndInv'
  <1> DEFINE o == field[x]
             z == Decrement(Table, o)
  <1>1. /\ pins = <<>> /\ adding = NULL /\ after = Nothing
        /\ TabInv(Table, alive, <<>>) /\ CountsAre(rc, alive \ sticky, field)
        /\ ZeroKnown(Table, alive \ condemned) /\ HeapInv /\ Idle
    BY Calm
  <1>2. Counts(Table, o) /\ rc[o] = 1 /\ phase = "run"  BY DEF DropReaps, MustReap
  <1>3. o \in alive /\ o \in Objects /\ o \notin sticky /\ o # NULL /\ Table.rc[o] = 1 /\ Table.rc[o] > 0
    <2>1. Table.rc = rc /\ Table.sticky = sticky  BY TableFields
    <2>2. o \in alive /\ o \notin sticky /\ o # NULL  BY <1>2, <2>1 DEF Counts
    <2>3. o \in Objects  BY <1>1, <2>2 DEF HeapInv
    <2> QED  BY <1>2, <2>1, <2>2, <2>3
  <1>4. TabInv(z, alive, <<>>) /\ Table.idx[o] = 0  BY <1>1, <1>3, DecrementKeeps
  <1>5. Table \in Tables  BY <1>1 DEF TabInv
  <1>6. /\ z.rc = [Table.rc EXCEPT ![o] = Table.rc[o] - 1] /\ z.sticky = Table.sticky /\ z.idx = Table.idx
        /\ z.missed = Table.missed
    BY <1>3, <1>5, DecrementFields
  <1> HIDE DEF z
  <1>7. Table.rc \in [Objects -> Nat]  BY <1>5 DEF Tables
  <1>8. z.rc[o] = 0 /\ \A p \in Objects \ {o} : z.rc[p] = Table.rc[p]  BY <1>3, <1>6, <1>7
  <1>9. phase' = "reap" /\ pins' = <<>> /\ adding' = o /\ after' = op /\ BeginReap(z, o, op)
    BY DEF BeginReap, z
  <1>10. HeapInv'
    <2>1. condemned = {}  BY <1>1, <1>2 DEF HeapInv
    <2> QED  BY <1>1, <1>9, <2>1 DEF HeapInv
  <1>11. Counted' = [field EXCEPT ![x] = NULL]  BY <1>9 DEF Counted
  <1>12. CountsAre(z.rc, alive \ z.sticky, [field EXCEPT ![x] = NULL])
    <2>1. field \in [Holders -> Values]  BY <1>1 DEF HeapInv
    <2>2. CountsAre(Table.rc, alive \ Table.sticky, field)  BY <1>1, TableFields
    <2>3. CountsAre(z.rc, alive \ Table.sticky, [field EXCEPT ![x] = NULL])
      BY <1>1, <1>2, <1>6, <2>1, <2>2, DropExact
    <2> QED  BY <1>6, <2>3
  <1>13. ZeroKnown(z, alive' \ (condemned' \cup {o}))  BY <1>1, <1>6, <1>8 DEF ZeroKnown
  <1>14. z.idx[o] = 0 /\ o \notin z.sticky /\ o \in alive'  BY <1>3, <1>4, <1>6, TableFields
  <1>15. TabInv(z, alive', <<>>) /\ CountsAre(z.rc, alive' \ z.sticky, Counted')  BY <1>4, <1>11, <1>12
  <1> QED  BY <1>1, <1>8, <1>9, <1>10, <1>13, <1>14, <1>15, BeginReapKeeps

\* A field x whose old value loses its reference without a reap.
LEMMA DropKeeps ==
  ASSUME IndInv, phase # "reap", NEW x \in Holders, NEW w \in DecrementRef(Table, field[x], phase)
  PROVE  /\ TabInv(w, alive, <<>>) /\ CountsAre(w.rc, alive \ w.sticky, [field EXCEPT ![x] = NULL])
         /\ ZeroKnown(w, alive \ condemned) /\ Unpinned(w)
  <1>1. /\ Unpinned(Table) /\ TabInv(Table, alive, <<>>) /\ CountsAre(rc, alive \ sticky, field)
        /\ ZeroKnown(Table, alive \ condemned) /\ HeapInv
    BY Calm
  <1>2. field \in [Holders -> Values] /\ field[x] \in Values  BY <1>1 DEF HeapInv
  <1>3. /\ TabInv(w, alive, <<>>) /\ w.sticky = Table.sticky
        /\ Counts(Table, field[x]) => w.rc = [Table.rc EXCEPT ![field[x]] = Table.rc[field[x]] - 1]
        /\ ~Counts(Table, field[x]) => w.rc = Table.rc
        /\ \A E : ZeroKnown(Table, E) => ZeroKnown(w, E)
        /\ ~InReap(phase) /\ Unpinned(Table) => Unpinned(w)
    BY <1>1, <1>2, DecrementRefKeeps
  <1>4. CountsAre(Table.rc, alive \ Table.sticky, field)  BY <1>1, TableFields
  <1>5. CountsAre(w.rc, alive \ Table.sticky, [field EXCEPT ![x] = NULL])
    <2>1. /\ Counts(Table, field[x]) => w.rc = [Table.rc EXCEPT ![field[x]] = Table.rc[field[x]] - 1]
          /\ ~Counts(Table, field[x]) => w.rc = Table.rc
      BY <1>3
    <2> QED  BY <1>1, <1>2, <1>4, <2>1, DropExact
  <1>6. ~InReap(phase)  BY DEF InReap
  <1> QED  BY <1>1, <1>3, <1>5, <1>6

\* The end of a store.
LEMMA StoreRestKeeps ==
  ASSUME NEW z, NEW x, NEW v, HeapInv, Idle', x \in stack \cup {Root}, v \in stack \cup {NULL}, StoreRest(z, x, v),
         TabInv(z, alive, <<>>), CountsAre(z.rc, alive \ z.sticky, [field EXCEPT ![x] = NULL]),
         ZeroKnown(z, alive \ condemned), Unpinned(z),
         phase' \in {"run", "collect"}, condemned # {} => phase' = "collect", condemned' = condemned,
         pins' = <<>>, adding' = NULL, after' = Nothing
  PROVE  IndInv'
  <1> DEFINE w == IncrementRef(z, v)
             f == [field EXCEPT ![x] = NULL]
  <1>1. field' = [field EXCEPT ![x] = v] /\ Becomes(w) /\ alive' = alive /\ stack' = stack
    BY DEF StoreRest
  <1>2. /\ v \in alive \cup {NULL} /\ v \in (alive \ condemned) \cup {NULL} /\ x \in Holders /\ v \in Values
        /\ field \in [Holders -> Values] /\ x \notin Objects \ alive
    BY ZCTAssumption DEF HeapInv, Holders, Values
  <1>3. /\ TabInv(w, alive, <<>>) /\ \A E : ZeroKnown(z, E) => ZeroKnown(w, E)
        /\ Unpinned(z) => Unpinned(w)
    <2>1. v # NULL => ~Sits(<<>>, z.idx, v)  BY <1>2, NotMoved
    <2> QED  BY <1>2, <2>1, IncrementRefKeeps
  <1>4. CountsAre(w.rc, alive \ w.sticky, [f EXCEPT ![x] = v])
    <2>1. f \in [Holders -> Values] /\ f[x] = NULL  BY <1>2 DEF Values
    <2>2. CountsAre(z.rc, alive \ z.sticky, f)  OBVIOUS
    <2>3. v # NULL => ~Sits(<<>>, z.idx, v)  BY <1>2, NotMoved
    <2> HIDE DEF f
    <2> QED  BY <1>2, <2>1, <2>2, <2>3, TakeExact
  <1>5. [f EXCEPT ![x] = v] = field'  BY <1>1, <1>2
  <1> HIDE DEF w, f
  <1>6. w \in Tables  BY <1>3 DEF TabInv
  <1>7. Table' = w /\ rc' = w.rc /\ sticky' = w.sticky  BY <1>1, <1>6, BecomesTable
  <1>8. HeapInv'
    <2>1. field' \in [Holders -> Values]  BY <1>1, <1>2
    <2>2. \A y \in Holders \ condemned : field'[y] \in (alive \ condemned) \cup {NULL}
      BY <1>1, <1>2 DEF HeapInv
    <2>3. \A p \in Objects \ alive : field'[p] = NULL  BY <1>1, <1>2 DEF HeapInv, Holders
    <2> QED  BY <1>1, <2>1, <2>2, <2>3 DEF HeapInv
  <1>9. CountsAre(rc', alive' \ sticky', field')  BY <1>1, <1>4, <1>5, <1>7
  <1>10. ZeroKnown(Table', alive' \ condemned') /\ Unpinned(Table')  BY <1>1, <1>3, <1>7
  <1>11. TabInv(Table', alive', <<>>) /\ phase' # "reap"  BY <1>1, <1>3, <1>7
  <1> QED  BY <1>8, <1>9, <1>10, <1>11, Settle

\* The end of a delete.
LEMMA DeleteRestKeeps ==
  ASSUME NEW z, NEW o, HeapInv, Idle', o \in stack, \A x \in Holders \ {o} : field[x] # o, DeleteRest(z, o),
         TabInv(z, alive, <<>>), CountsAre(z.rc, alive \ z.sticky, [field EXCEPT ![o] = NULL]),
         ZeroKnown(z, alive \ condemned), Unpinned(z),
         phase' \in {"run", "collect"}, condemned # {} => phase' = "collect", condemned' = condemned,
         pins' = <<>>, adding' = NULL, after' = Nothing
  PROVE  IndInv'
  <1> DEFINE w == Destroyed(z, o)
  <1>1. field' = [field EXCEPT ![o] = NULL] /\ Becomes(w) /\ alive' = alive \ {o} /\ stack' = stack \ {o}
    BY DEF DeleteRest
  <1>2. o \in alive /\ o \in Objects /\ o \in Holders /\ o \notin condemned /\ field \in [Holders -> Values]
    BY DEF HeapInv, Holders
  <1>3. /\ TabInv(w, alive \ {o}, <<>>) /\ w.sticky = z.sticky \ {o} /\ \A p \in Objects \ {o} : w.rc[p] = z.rc[p]
        /\ \A E : ZeroKnown(z, E) => ZeroKnown(w, E \ {o})
        /\ Unpinned(z) => Unpinned(w)
    <2>1. Removable(z, alive, <<>>, o)  BY <1>2 DEF Removable
    <2>2. TabInv(w, alive \ {o}, <<>>) /\ Without(z, w, o)  BY ONLY <2>1, DestroyedKeeps
    <2> HIDE DEF w
    <2> QED  BY <2>2 DEF Without
  <1> HIDE DEF w
  <1>4. w \in Tables  BY <1>3 DEF TabInv
  <1>5. Table' = w /\ rc' = w.rc /\ sticky' = w.sticky  BY <1>1, <1>4, BecomesTable
  <1>6. HeapInv'
    <2>1. field' \in [Holders -> Values] /\ field'[o] = NULL /\ \A y \in Holders \ {o} : field'[y] = field[y]
      BY <1>1, <1>2 DEF Values
    <2>2. \A y \in Holders \ condemned : field'[y] \in ((alive \ {o}) \ condemned) \cup {NULL}
      <3> SUFFICES ASSUME NEW y \in Holders \ condemned, y # o
                   PROVE  field'[y] \in ((alive \ {o}) \ condemned) \cup {NULL}
        BY <2>1
      <3>1. field[y] \in (alive \ condemned) \cup {NULL} /\ field[y] # o  BY DEF HeapInv
      <3> QED  BY <2>1, <3>1
    <2>3. \A p \in Objects \ (alive \ {o}) : field'[p] = NULL  BY <2>1 DEF HeapInv, Holders
    <2>4. /\ alive \ {o} \subseteq Objects /\ condemned \subseteq alive \ {o}
          /\ stack \ {o} \subseteq (alive \ {o}) \ condemned
      BY <1>2 DEF HeapInv
    <2> QED  BY <1>1, <2>1, <2>2, <2>3, <2>4 DEF HeapInv
  <1>7. CountsAre(rc', alive' \ sticky', field')
    <2>1. alive \in SUBSET Objects  BY DEF TabInv
    <2>2. \A p \in alive \ {o} : w.rc[p] = z.rc[p]  BY <1>3, <2>1
    <2> QED  BY <1>1, <1>3, <1>5, <2>2 DEF CountsAre
  <1>8. ZeroKnown(Table', alive' \ condemned') /\ Unpinned(Table')
    <2>1. (alive \ condemned) \ {o} = (alive \ {o}) \ condemned  OBVIOUS
    <2>2. ZeroKnown(w, (alive \ condemned) \ {o})  BY <1>3
    <2> QED  BY <1>1, <1>3, <1>5, <2>1, <2>2
  <1>9. TabInv(Table', alive', <<>>) /\ phase' # "reap"  BY <1>1, <1>3, <1>5
  <1> QED  BY <1>6, <1>7, <1>8, <1>9, Settle

\* WriteFieldRC.
LEMMA StoreKeeps ==
  ASSUME IndInv, NEW x, NEW v, Store(x, v)
  PROVE  IndInv'
  <1>1. phase # "reap" /\ x \in stack \cup {Root} /\ v \in stack \cup {NULL} /\ UNCHANGED <<condemned, locals>>
    BY DEF Store, ProgramRuns
  <1>2. pins = <<>> /\ adding = NULL /\ after = Nothing /\ HeapInv  BY <1>1, Calm
  <1>3. x \in Holders /\ v \in Objects \cup {NULL} /\ field[x] \in Values  BY <1>1, <1>2 DEF HeapInv, Holders
  <1>4. CASE DropReaps(field[x])
    <2>1. /\ UNCHANGED <<alive, field, stack>>
          /\ BeginReap(Decrement(Table, field[x]), field[x], <<"store", x, v>>)
      BY <1>4 DEF Store
    <2>2. pins' = <<>> /\ adding' = field[x] /\ after' = <<"store", x, v>> /\ phase' = "reap"
      BY <2>1 DEF BeginReap
    <2>3. field[x] \in alive /\ field[x] # NULL  BY <1>4 DEF DropReaps, Counts
    <2>4. AfterInv'
      <3>1. <<>> \in Seq(Values) /\ <<"store", x, v>> \in Afters  BY <1>3, EmptySeq DEF Afters
      <3> QED  BY <1>1, <2>1, <2>2, <2>3, <3>1 DEF AfterInv, Nothing
    <2> DEFINE op == <<"store", x, v>>
    <2>5. op[1] \in {"store", "delete"} /\ op[2] = x /\ BeginReap(Decrement(Table, field[x]), field[x], op)
      BY <2>1
    <2> HIDE DEF op
    <2> QED  BY <1>1, <1>3, <1>4, <2>1, <2>4, <2>5, DropReapKeeps
  <1>5. CASE ~DropReaps(field[x])
    <2>1. PICK z \in DecrementRef(Table, field[x], phase) : StoreRest(z, x, v)  BY <1>5 DEF Store
    <2>2. UNCHANGED <<pins, phase, adding, after, running>>  BY <1>5 DEF Store
    <2>3. /\ TabInv(z, alive, <<>>) /\ CountsAre(z.rc, alive \ z.sticky, [field EXCEPT ![x] = NULL])
          /\ ZeroKnown(z, alive \ condemned) /\ Unpinned(z)
      BY <1>1, <1>3, DropKeeps
    <2>4. phase' \in {"run", "collect"} /\ (condemned # {} => phase' = "collect")
      BY <1>1, <1>2, <2>2 DEF HeapInv
    <2>5. Idle'  BY <1>1, <2>2, StaysIdle DEF frame
    <2> QED  BY <1>1, <1>2, <2>1, <2>2, <2>3, <2>4, <2>5, StoreRestKeeps
  <1> QED  BY <1>4, <1>5

\* An explicit delete.
LEMMA DeleteKeeps ==
  ASSUME IndInv, NEW o \in Objects, Delete(o)
  PROVE  IndInv'
  <1>1. phase # "reap" /\ o \in stack /\ UNCHANGED <<condemned, locals>> /\ \A x \in Holders \ {o} : field[x] # o
    BY DEF Delete, ProgramRuns
  <1>2. pins = <<>> /\ adding = NULL /\ after = Nothing /\ HeapInv  BY <1>1, Calm
  <1>3. o \in Holders /\ field[o] \in Values  BY <1>2 DEF HeapInv, Holders
  <1>4. CASE DropReaps(field[o])
    <2>1. /\ UNCHANGED <<alive, field, stack>>
          /\ BeginReap(Decrement(Table, field[o]), field[o], <<"delete", o, NULL>>)
      BY <1>4 DEF Delete
    <2>2. pins' = <<>> /\ adding' = field[o] /\ after' = <<"delete", o, NULL>> /\ phase' = "reap"
      BY <2>1 DEF BeginReap
    <2>3. field[o] \in alive /\ field[o] # NULL  BY <1>4 DEF DropReaps, Counts
    <2>4. AfterInv'
      <3>1. <<>> \in Seq(Values) /\ <<"delete", o, NULL>> \in Afters  BY EmptySeq DEF Afters
      <3> QED  BY <1>1, <2>1, <2>2, <2>3, <3>1 DEF AfterInv, Nothing
    <2> DEFINE op == <<"delete", o, NULL>>
    <2>5. op[1] \in {"store", "delete"} /\ op[2] = o /\ BeginReap(Decrement(Table, field[o]), field[o], op)
      BY <2>1
    <2> HIDE DEF op
    <2> QED  BY <1>1, <1>3, <1>4, <2>1, <2>4, <2>5, DropReapKeeps
  <1>5. CASE ~DropReaps(field[o])
    <2>1. PICK z \in DecrementRef(Table, field[o], phase) : DeleteRest(z, o)  BY <1>5 DEF Delete
    <2>2. UNCHANGED <<pins, phase, adding, after, running>>  BY <1>5 DEF Delete
    <2>3. /\ TabInv(z, alive, <<>>) /\ CountsAre(z.rc, alive \ z.sticky, [field EXCEPT ![o] = NULL])
          /\ ZeroKnown(z, alive \ condemned) /\ Unpinned(z)
      BY <1>1, <1>3, DropKeeps
    <2>4. phase' \in {"run", "collect"} /\ (condemned # {} => phase' = "collect")
      BY <1>1, <1>2, <2>2 DEF HeapInv
    <2>5. Idle'  BY <1>1, <2>2, StaysIdle DEF frame
    <2> QED  BY <1>1, <1>2, <2>1, <2>2, <2>3, <2>4, <2>5, DeleteRestKeeps
  <1> QED  BY <1>4, <1>5

\* StickRCObject.
LEMMA StickStepKeeps ==
  ASSUME IndInv, NEW o \in Objects, Stick(o)
  PROVE  IndInv'
  <1> DEFINE w == Stuck(Table, o)
  <1>1. /\ phase # "reap" /\ o \in stack /\ Becomes(w)
        /\ UNCHANGED <<alive, field, stack, pins, phase, condemned, adding, after, frame>>
    BY DEF Stick, ProgramRuns, Stuck
  <1>2. /\ pins = <<>> /\ adding = NULL /\ after = Nothing /\ Unpinned(Table)
        /\ TabInv(Table, alive, <<>>) /\ CountsAre(rc, alive \ sticky, field)
        /\ ZeroKnown(Table, alive \ condemned) /\ HeapInv
    BY <1>1, Calm
  <1>3. o \in alive  BY <1>1, <1>2 DEF HeapInv
  <1>4. /\ TabInv(w, alive, <<>>) /\ w.rc = Table.rc /\ w.sticky = Table.sticky \cup {o}
        /\ \A E : ZeroKnown(Table, E) => ZeroKnown(w, E)
        /\ Unpinned(Table) => Unpinned(w)
    <2>1. TabInv(Table, alive, <<>>) /\ o \in alive /\ w = Stuck(Table, o)  BY <1>2, <1>3
    <2> HIDE DEF w
    <2> QED  BY ONLY <2>1, StickKeeps
  <1> HIDE DEF w
  <1>5. w \in Tables  BY <1>4 DEF TabInv
  <1>6. Table' = w /\ rc' = w.rc /\ sticky' = w.sticky  BY <1>1, <1>5, BecomesTable
  <1>7. HeapInv'  BY <1>1, <1>2 DEF HeapInv
  <1>8. CountsAre(rc', alive' \ sticky', field')  BY <1>1, <1>2, <1>4, <1>6, TableFields DEF CountsAre
  <1>9. Idle'  BY <1>1, StaysIdle
  <1> QED  BY <1>1, <1>2, <1>4, <1>6, <1>7, <1>8, <1>9, Settle

\* ReapZCT starts.
LEMMA ReapZCTKeeps ==
  ASSUME IndInv, ReapZCT
  PROVE  IndInv'
  <1>1. /\ phase = "run" /\ UNCHANGED <<alive, field, stack, condemned, locals>> /\ BeginReap(Table, NULL, Nothing)
    BY DEF ReapZCT
  <1>2. /\ TabInv(Table, alive, <<>>) /\ CountsAre(rc, alive \ sticky, field)
        /\ ZeroKnown(Table, alive \ condemned) /\ HeapInv /\ Idle
    BY <1>1, Calm
  <1>3. phase' = "reap" /\ pins' = <<>> /\ adding' = NULL /\ after' = Nothing  BY <1>1 DEF BeginReap
  <1>4. HeapInv'
    <2>1. condemned = {}  BY <1>1, <1>2 DEF HeapInv
    <2> QED  BY <1>1, <1>2, <1>3, <2>1 DEF HeapInv
  <1>5. AfterInv'
    <2>1. <<>> \in Seq(Values) /\ Nothing \in Afters  BY EmptySeq DEF Afters
    <2> QED  BY <1>3, <2>1 DEF AfterInv, Nothing
  <1>6. Counted' = field  BY <1>1, <1>3 DEF Counted, Nothing
  <1>7. TabInv(Table, alive', <<>>) /\ CountsAre(Table.rc, alive' \ Table.sticky, Counted')
    BY <1>1, <1>2, <1>6, TableFields
  <1>8. ZeroKnown(Table, alive' \ (condemned' \cup {NULL}))  BY <1>1, <1>2 DEF ZeroKnown
  <1> QED  BY <1>1, <1>2, <1>4, <1>5, <1>7, <1>8, BeginReapKeeps

\* Between the calls of a reap.
LEMMA LoopFacts ==
  ASSUME IndInv, Reaping
  PROVE  /\ phase = "reap" /\ running = NULL /\ locals = {}
         /\ ZeroKnown(Table, alive \ (condemned \cup {adding}))
  <1>1. phase = "reap" /\ running = NULL /\ locals = {}  BY DEF IndInv, Reaping, FrameInv
  <1>2. ZeroKnown(Table, alive \ (condemned \cup {adding, running}))  BY DEF IndInv
  <1> QED  BY <1>1, <1>2, ZCTAssumption DEF ZeroKnown

\* A step of the reap's loop that frees nothing.
LEMMA MoveKeeps ==
  ASSUME IndInv, Reaping, UNCHANGED <<alive, field, stack, phase, condemned, adding, after, frame>>,
         NEW w, Becomes(w), TabInv(w, alive, pins'), w.rc = rc, w.sticky = sticky, PinInv',
         adding # NULL => w.idx[adding] = 0, ZeroKnown(w, alive \ (condemned \cup {adding}))
  PROVE  IndInv'
  <1>1. HeapInv /\ AfterInv /\ AddInv /\ CountsAre(rc, alive \ sticky, Counted)  BY DEF IndInv
  <1>2. w \in Tables /\ pins' \in Seq(Values)  BY DEF TabInv
  <1>3. Table' = w /\ rc' = w.rc /\ sticky' = w.sticky /\ idx' = w.idx  BY <1>2, BecomesTable
  <1>4. HeapInv'  BY <1>1 DEF HeapInv
  <1>5. AfterInv'  BY <1>1, <1>2, LoopFacts DEF AfterInv
  <1>6. AddInv'  BY <1>1, <1>3 DEF AddInv
  <1>7. Counted' = Counted  BY DEF Counted
  <1>8. CountsAre(rc', alive' \ sticky', Counted')  BY <1>1, <1>3, <1>7
  <1>9. TabInv(Table', alive', pins') /\ ZeroKnown(Table', alive' \ (condemned' \cup {adding', running'}))
    BY <1>3 DEF ZeroKnown
  <1>10. FrameInv'  BY LoopFacts, ZCTAssumption DEF FrameInv, frame
  <1> QED  BY <1>4, <1>5, <1>6, <1>8, <1>9, <1>10, Assemble

\* The last entry, if it is an object.
LEMMA LastEntry ==
  ASSUME IndInv, phase = "reap", zct # <<>>, Last(zct) # NULL
  PROVE  LET o == Last(zct) IN
         /\ o \in alive /\ o \in Objects /\ idx[o] # 0 /\ rc[o] = 0 /\ o \notin sticky
         /\ o # adding /\ ~Sits(pins, idx, o)
  <1> DEFINE o == Last(zct)
  <1>1. TabInv(Table, alive, pins) /\ AddInv  BY DEF IndInv
  <1>2. /\ zct \in Seq(Values) /\ Len(zct) \in Nat /\ DOMAIN zct = 1..Len(zct) /\ alive \in SUBSET Objects
    <2>1. /\ Table.zct \in Seq(Values) /\ Len(Table.zct) \in Nat /\ DOMAIN Table.zct = 1..Len(Table.zct)
      BY <1>1, TabFacts
    <2>2. alive \in SUBSET Objects  BY <1>1 DEF TabInv
    <2> QED  BY <2>1, <2>2, TableFields
  <1>3. o = zct[Len(zct)] /\ Len(zct) \in DOMAIN zct /\ Len(zct) # 0
    <2>1. Len(zct) \in Nat \ {0} /\ Last(zct) = zct[Len(zct)]  BY <1>2, FrontFacts
    <2> QED  BY <1>2, <2>1
  <1>4. o \in alive /\ idx[o] = Len(zct)
    <2>1. Entries(zct, idx, alive)  BY <1>1, TableFields DEF TabInv
    <2> QED  BY <1>3, <2>1 DEF Entries
  <1>5. Sits(zct, idx, o)  BY <1>3, <1>4 DEF Sits
  <1>6. ~Sits(pins, idx, o) /\ rc[o] = 0 /\ o \notin sticky
    <2>1. /\ ~(Sits(Table.zct, Table.idx, o) /\ Sits(pins, Table.idx, o))
          /\ Table.rc[o] = 0 /\ o \notin Table.sticky
      <3>1. Table.idx[o] # 0  BY <1>3, <1>4, TableFields
      <3> QED  BY <1>1, <1>4, <3>1 DEF TabInv
    <2> QED  BY <1>5, <2>1, TableFields
  <1>7. o # adding  BY <1>1, <1>3, <1>4, ZCTAssumption DEF AddInv
  <1> QED  BY <1>2, <1>3, <1>4, <1>6, <1>7

LEMMA PoppedFields ==
  ASSUME TabInv(Table, alive, pins), zct # <<>>
  PROVE  /\ Popped \in Tables /\ Popped.rc = rc /\ Popped.sticky = sticky /\ Popped.idx = idx
         /\ Popped.pinned = pinned /\ Popped.zct = Front(zct) /\ Popped.missed = missed
         /\ Popped.segs = IF Len(zct) = (segs - 1) * SegCap THEN segs - 1 ELSE segs
  <1>1. Table \in Tables /\ Fit(Len(Table.zct), Table.segs)  BY DEF TabInv
  <1>2. zct \in Seq(Values) /\ segs \in Nat \ {0} /\ Fit(Len(zct), segs)
    <2>1. Table.zct \in Seq(Values) /\ Table.segs \in Nat \ {0}  BY <1>1 DEF Tables
    <2> QED  BY <1>1, <2>1, TableFields
  <1>3. Front(zct) \in Seq(Values) /\ Len(zct) \in Nat \ {0}  BY <1>2, FrontFacts
  <1>4. (IF Len(zct) = (segs - 1) * SegCap THEN segs - 1 ELSE segs) \in Nat \ {0}
    BY <1>2, <1>3, FitFacts
  <1> DEFINE f == Front(zct)
             s == IF Len(zct) = (segs - 1) * SegCap THEN segs - 1 ELSE segs
  <1>5. Popped = [Table EXCEPT !.zct = f, !.segs = s]  BY TableFields DEF Popped
  <1>6. f \in Seq(Values) /\ s \in Nat \ {0}  BY <1>3, <1>4
  <1> HIDE DEF f, s
  <1>7. /\ Popped \in Tables /\ Popped.rc = Table.rc /\ Popped.sticky = Table.sticky /\ Popped.idx = Table.idx
        /\ Popped.pinned = Table.pinned /\ Popped.zct = f /\ Popped.missed = Table.missed /\ Popped.segs = s
    BY <1>1, <1>5, <1>6 DEF Tables
  <1> QED  BY <1>7, TableFields DEF f, s

\* An entry that Remove has cleared.
LEMMA PopNullKeeps ==
  ASSUME IndInv, PopNull
  PROVE  IndInv'
  <1>1. /\ Reaping /\ phase = "reap" /\ zct # <<>> /\ Last(zct) = NULL /\ Becomes(Popped)
        /\ UNCHANGED <<alive, field, stack, pins, phase, condemned, adding, after, frame>>
    BY DEF PopNull, Reaping
  <1>2. /\ TabInv(Table, alive, pins) /\ PinInv /\ AddInv
        /\ ZeroKnown(Table, alive \ (condemned \cup {adding}))
    BY <1>1, LoopFacts DEF IndInv
  <1>3. /\ Popped \in Tables /\ Popped.rc = rc /\ Popped.sticky = sticky /\ Popped.idx = idx
        /\ Popped.pinned = pinned /\ Popped.zct = Front(zct) /\ Popped.missed = missed
        /\ Popped.segs = IF Len(zct) = (segs - 1) * SegCap THEN segs - 1 ELSE segs
    BY <1>1, <1>2, PoppedFields
  <1>4. TabInv(Popped, alive, pins)
    <2>1. Table.missed \subseteq alive  BY <1>2 DEF TabInv
    <2> QED  BY <1>1, <1>2, <1>3, <2>1, TableFields, PopKeeps
  <1>5. idx' = idx /\ pinned' = pinned  BY <1>1, <1>3 DEF Becomes
  <1>6. PinInv'  BY <1>1, <1>2, <1>5 DEF PinInv, Sits
  <1>7. ZeroKnown(Popped, alive \ (condemned \cup {adding}))  BY <1>2, <1>3, TableFields DEF ZeroKnown
  <1>8. adding # NULL => Popped.idx[adding] = 0  BY <1>2, <1>3 DEF AddInv
  <1>9. TabInv(Popped, alive, pins')  BY <1>1, <1>4
  <1> QED  BY <1>1, <1>3, <1>6, <1>7, <1>8, <1>9, MoveKeeps

\* PinObject.
LEMMA PinObjectKeeps ==
  ASSUME IndInv, PinObject
  PROVE  IndInv'
  <1> DEFINE o == Last(zct)
             list == IF Len(pins) % SegCap = 0 THEN Append(pins, NULL) ELSE pins
             p == [Popped EXCEPT !.idx[o] = 0]
             moved == [Popped EXCEPT !.idx[o] = Len(list) + 1, !.pinned = @ \ {o}]
             dropped == [Miss(Popped, o) EXCEPT !.idx[o] = 0]
  <1>1. /\ Reaping /\ phase = "reap" /\ zct # <<>> /\ o \in pinned
        /\ UNCHANGED <<alive, field, stack, phase, condemned, adding, after, frame>>
        /\ \/ pins' = Append(list, o) /\ Becomes(moved)
           \/ pins' = pins /\ Becomes(dropped)
    BY DEF PinObject, Reaping
  <1>2. /\ TabInv(Table, alive, pins) /\ PinInv /\ AddInv /\ HeapInv /\ AfterInv
        /\ ZeroKnown(Table, alive \ (condemned \cup {adding}))
    BY <1>1, LoopFacts DEF IndInv
  <1>3. pinned \subseteq alive /\ alive \in SUBSET Objects /\ missed \subseteq alive /\ NULL \notin Objects
    BY <1>2, TableFields, ZCTAssumption DEF TabInv
  <1>4. o # NULL  BY <1>1, <1>3
  <1>5. o \in alive /\ o \in Objects /\ idx[o] # 0 /\ rc[o] = 0 /\ o \notin sticky /\ o # adding
    BY <1>1, <1>4, LastEntry
  <1>6. /\ Popped \in Tables /\ Popped.rc = rc /\ Popped.sticky = sticky /\ Popped.idx = idx
        /\ Popped.pinned = pinned /\ Popped.zct = Front(zct) /\ Popped.missed = missed
        /\ Popped.segs = IF Len(zct) = (segs - 1) * SegCap THEN segs - 1 ELSE segs
    BY <1>1, <1>2, PoppedFields
  <1>7. Popped.idx \in [Objects -> Nat] /\ Popped.pinned \in SUBSET Objects /\ Popped.missed \in SUBSET Objects
    BY <1>6 DEF Tables
  <1>8. \A q \in Objects : q \in alive \ (condemned \cup {adding}) /\ q \notin sticky /\ rc[q] = 0 =>
                            idx[q] # 0 \/ q \in missed
    BY <1>2, TableFields DEF ZeroKnown
  <1> HIDE DEF o
  <1>9. CASE pins' = Append(list, o) /\ Becomes(moved)
    <2>1. /\ p \in Tables /\ p.rc = rc /\ p.sticky = sticky /\ p.idx = [idx EXCEPT ![o] = 0]
          /\ p.pinned = pinned /\ p.zct = Front(zct) /\ p.missed = missed /\ p.segs = Popped.segs
      BY <1>5, <1>6, <1>7 DEF Tables
    <2>2. TabInv(p, alive, pins)
      <3> HIDE DEF p
      <3> QED  BY <1>1, <1>2, <1>3, <1>4, <1>6, <2>1, TableFields, PopKeeps DEF o
    <2>3. list \in {pins, Append(pins, NULL)}  OBVIOUS
    <2> HIDE DEF list
    <2>4. Len(list) \in Nat
      <3>1. pins \in Seq(Values) /\ NULL \in Values  BY <1>2 DEF AfterInv, Values
      <3>2. list \in Seq(Values)  BY <2>3, <3>1, AppendProperties
      <3> QED  BY <3>2, LenProperties
    <2>5. /\ moved \in Tables /\ moved.rc = p.rc /\ moved.sticky = p.sticky /\ moved.zct = p.zct
          /\ moved.segs = p.segs /\ moved.pinned = pinned \ {o} /\ moved.missed = p.missed
          /\ moved.idx = [idx EXCEPT ![o] = Len(list) + 1]
      <3>1. Len(list) + 1 \in Nat /\ Popped.pinned \ {o} \in SUBSET Objects  BY <1>7, <2>4
      <3>2. Popped \in Tables /\ Popped.idx = idx /\ Popped.pinned = pinned /\ o \in Objects  BY <1>5, <1>6
      <3> QED  BY <1>6, <2>1, <3>1, <3>2 DEF Tables
    <2>6. idx \in [Objects -> Nat]  BY <1>6, <1>7
    <2>7. p.rc[o] = 0 /\ o \notin p.sticky /\ p.idx[o] = 0 /\ \A q \in Objects \ {o} : p.idx[q] = idx[q]
      BY <1>5, <2>1, <2>6
    <2>8. moved.pinned \subseteq p.pinned  BY <2>1, <2>5
    <2>9. moved.idx[o] = Len(list) + 1 /\ \A q \in Objects \ {o} : moved.idx[q] = idx[q]  BY <1>5, <2>5, <2>6
    <2> HIDE DEF p, moved
    <2>10. /\ TabInv(moved, alive, Append(list, o)) /\ Append(list, o) \in Seq(Values)
           /\ Len(Append(list, o)) = Len(list) + 1
           /\ Append(list, o)[Len(list) + 1] = o
           /\ \A i \in 1..Len(list) : Append(list, o)[i] = list[i]
           /\ \A i \in 1..Len(list) : list[i] # NULL => i \in 1..Len(pins) /\ list[i] = pins[i]
           /\ \A i \in 1..Len(pins) : i \in 1..Len(list) /\ list[i] = pins[i]
      <3>1. Pushes(p, moved, alive, pins, list, o)  BY <1>5, <2>2, <2>3, <2>5, <2>7, <2>8, <2>9 DEF Pushes
      <3> QED  BY ONLY <3>1, PushKeeps
    <2>11. /\ idx' = moved.idx /\ pinned' = pinned \ {o} /\ pins' = Append(list, o)
      BY <1>9, <2>5 DEF Becomes
    <2>12. DOMAIN pins' = 1..(Len(list) + 1) /\ DOMAIN pins = 1..Len(pins)
      <3>1. pins \in Seq(Values)  BY <1>2 DEF AfterInv
      <3> QED  BY <2>10, <2>11, <3>1, LenProperties
    <2>13. \A i \in DOMAIN pins' : pins'[i] \notin pinned'
      <3> SUFFICES ASSUME NEW i \in 1..(Len(list) + 1) PROVE pins'[i] \notin pinned \ {o}
        BY <2>11, <2>12
      <3>1. CASE i = Len(list) + 1  BY <2>10, <2>11, <3>1
      <3>2. CASE i # Len(list) + 1
        <4>1. i \in 1..Len(list)  BY <2>4, <3>2
        <4>2. pins'[i] = list[i]  BY <2>10, <2>11, <4>1
        <4>3. CASE list[i] = NULL  BY <1>3, <4>2, <4>3
        <4>4. CASE list[i] # NULL
          <5>1. i \in DOMAIN pins /\ list[i] = pins[i]  BY <2>10, <2>12, <4>1, <4>4
          <5> QED  BY <1>2, <4>2, <5>1 DEF PinInv
        <4> QED  BY <4>3, <4>4
      <3> QED  BY <3>1, <3>2
    <2>14. ASSUME NEW q \in stack \cup ({adding} \ {NULL}) PROVE q \in pinned' \/ Sits(pins', idx', q)
      <3>1. q \in Objects /\ (q \in pinned \/ Sits(pins, idx, q))
        BY <1>1, <1>2, <1>3 DEF PinInv, HeapInv, AfterInv
      <3>2. CASE q = o
        <4>1. Len(list) + 1 \in 1..(Len(list) + 1)  BY <2>4
        <4> QED  BY <2>9, <2>10, <2>11, <2>12, <3>2, <4>1 DEF Sits
      <3>3. CASE q # o /\ q \in pinned  BY <2>11, <3>3
      <3>4. CASE q # o /\ Sits(pins, idx, q)
        <4>1. idx[q] \in 1..Len(pins) /\ pins[idx[q]] = q /\ idx'[q] = idx[q]
          BY <2>9, <2>11, <2>12, <3>1, <3>4 DEF Sits
        <4>2. idx[q] \in 1..Len(list) /\ list[idx[q]] = q  BY <2>10, <4>1
        <4>3. pins'[idx[q]] = q /\ idx[q] \in 1..(Len(list) + 1)  BY <2>4, <2>10, <2>11, <4>2
        <4> QED  BY <2>12, <4>1, <4>3 DEF Sits
      <3> QED  BY <3>1, <3>2, <3>3, <3>4
    <2>15. PinInv'  BY <1>1, <2>13, <2>14 DEF PinInv
    <2>16. Len(list) + 1 # 0  BY <2>4
    <2>17. ZeroKnown(moved, alive \ (condemned \cup {adding}))
      BY <1>8, <2>1, <2>5, <2>9, <2>16 DEF ZeroKnown
    <2>18. adding # NULL => moved.idx[adding] = 0
      <3>1. adding # NULL => adding \in Objects  BY <1>2, <1>3 DEF AfterInv
      <3> QED  BY <1>2, <1>5, <2>9, <3>1 DEF AddInv
    <2>19. /\ Becomes(moved) /\ TabInv(moved, alive, pins') /\ moved.rc = rc /\ moved.sticky = sticky
      BY <1>9, <2>1, <2>5, <2>10
    <2> QED  BY <1>1, <2>15, <2>17, <2>18, <2>19, MoveKeeps
  <1>10. CASE pins' = pins /\ Becomes(dropped)
    <2>1. /\ dropped \in Tables /\ dropped.rc = rc /\ dropped.sticky = sticky
          /\ dropped.idx = [idx EXCEPT ![o] = 0] /\ dropped.pinned = pinned /\ dropped.zct = Front(zct)
          /\ dropped.missed = missed \cup {o} /\ dropped.segs = Popped.segs
      <3>1. Popped.missed \cup {o} \in SUBSET Objects  BY <1>5, <1>7
      <3> QED  BY <1>5, <1>6, <1>7, <3>1 DEF Tables, Miss
    <2> HIDE DEF dropped
    <2>2. TabInv(dropped, alive, pins)
      <3>1. dropped.missed \subseteq alive  BY <1>3, <1>5, <2>1
      <3> QED  BY <1>1, <1>2, <1>4, <1>6, <2>1, <3>1, TableFields, PopKeeps DEF o
    <2>3. idx \in [Objects -> Nat]  BY <1>6, <1>7
    <2>4. \A q \in Objects \ {o} : dropped.idx[q] = idx[q]  BY <1>5, <2>1, <2>3
    <2>5. idx' = dropped.idx /\ pinned' = pinned  BY <1>10, <2>1 DEF Becomes
    <2>6. ASSUME NEW q \in stack \cup ({adding} \ {NULL}) PROVE q \in pinned \/ Sits(pins, dropped.idx, q)
      <3>1. q \in Objects /\ (q \in pinned \/ Sits(pins, idx, q))
        BY <1>1, <1>2, <1>3 DEF PinInv, HeapInv, AfterInv
      <3>2. q # o => dropped.idx[q] = idx[q]  BY <2>4, <3>1
      <3> QED  BY <1>1, <3>1, <3>2 DEF Sits
    <2>7. PinInv'  BY <1>1, <1>2, <1>10, <2>5, <2>6 DEF PinInv
    <2>8. ZeroKnown(dropped, alive \ (condemned \cup {adding}))
      BY <1>8, <2>1, <2>4 DEF ZeroKnown
    <2>9. adding # NULL => dropped.idx[adding] = 0
      <3>1. adding # NULL => adding \in Objects  BY <1>2, <1>3 DEF AfterInv
      <3> QED  BY <1>2, <1>5, <2>4, <3>1 DEF AddInv
    <2>10. /\ Becomes(dropped) /\ TabInv(dropped, alive, pins') /\ dropped.rc = rc /\ dropped.sticky = sticky
      BY <1>10, <2>1, <2>2
    <2> QED  BY <1>1, <2>7, <2>8, <2>9, <2>10, MoveKeeps
  <1> QED  BY <1>1, <1>9, <1>10

\* What the reaper takes for garbage is not on the stack, does not wait to be
\* added, and no field points to it.
LEMMA ReapedIsGarbage ==
  ASSUME IndInv, phase = "reap", zct # <<>>, Last(zct) \notin pinned \cup {NULL}
  PROVE  LET o == Last(zct) IN
         /\ o \notin stack /\ o # adding /\ \A x \in Holders : field[x] # o
         /\ Counted \in [Holders -> Values] /\ Counted[o] = field[o]
         /\ after[1] \in {"store", "delete"} => after[2] \in Holders \ {o}
  <1> DEFINE o == Last(zct)
  <1>1. /\ o \in alive /\ o \in Objects /\ idx[o] # 0 /\ rc[o] = 0 /\ o \notin sticky
        /\ o # adding /\ ~Sits(pins, idx, o)
    BY LastEntry
  <1> HIDE DEF o
  <1>2. HeapInv /\ AfterInv /\ PinInv /\ TabInv(Table, alive, pins) /\ CountsAre(rc, alive \ sticky, Counted)
    BY DEF IndInv
  <1>3. o \notin stack  BY <1>1, <1>2 DEF PinInv, o
  <1>4. field \in [Holders -> Values] /\ o \in Holders /\ NULL \in Values /\ o # Root
    BY <1>1, <1>2, ZCTAssumption DEF HeapInv, Holders, Values
  <1>5. after[1] \in {"store", "delete"} => after[2] \in Holders \ {o}
    <2>1. stack \subseteq Objects  BY <1>2 DEF HeapInv
    <2> QED  BY <1>2, <1>3, <1>4, <2>1 DEF AfterInv, Holders
  <1>6. /\ Counted \in [Holders -> Values]
        /\ \A x \in Holders : Counted[x] = field[x] \/ (after[1] \in {"store", "delete"} /\ x = after[2])
    BY <1>4, <1>5 DEF Counted
  <1>7. \A x \in Holders : Counted[x] # o
    <2>1. CountsAre(Table.rc, alive \ Table.sticky, Counted) /\ o \in alive \ Table.sticky /\ Table.rc[o] = 0
      BY <1>1, <1>2, TableFields
    <2> QED  BY <1>2, <1>4, <1>6, <2>1, CountedCounts
  <1>8. \A x \in Holders : field[x] # o
    <2> SUFFICES ASSUME NEW x \in Holders, field[x] = o PROVE FALSE  OBVIOUS
    <2>1. after[1] \in {"store", "delete"} /\ x = after[2]  BY <1>6, <1>7
    <2>2. field[x] = adding  BY <1>2, <2>1 DEF AfterInv
    <2> QED  BY <1>1, <2>2
  <1> QED  BY <1>1, <1>3, <1>4, <1>5, <1>6, <1>8 DEF o

\* DecrementRef does not touch an object whose count is zero already.
LEMMA ZeroStays ==
  ASSUME NEW ps, NEW z, TabInv(z, alive, ps), NEW o \in Values, NEW mode,
         NEW w \in DecrementRef(z, o, mode), NEW q \in Objects, z.rc[q] = 0, z.idx[q] = 0
  PROVE  w.rc[q] = 0 /\ w.idx[q] = 0
  <1>1. CASE Counts(z, o)
    <2>1. q # o
      <3>1. z.rc[o] > 0  BY <1>1 DEF Counts
      <3> QED  BY <3>1
    <2>2. w.rc = [z.rc EXCEPT ![o] = z.rc[o] - 1] /\ w.idx[q] = z.idx[q]  BY <1>1, <2>1, DecrementRefKeeps
    <2>3. z.rc \in [Objects -> Nat]
      <3>1. z \in Tables  BY DEF TabInv
      <3> QED  BY <3>1 DEF Tables
    <2> QED  BY <2>1, <2>2, <2>3
  <1>2. CASE ~Counts(z, o)
    <2>1. w = z  BY <1>2 DEF DecrementRef
    <2> QED  BY <2>1
  <1> QED  BY <1>1, <1>2

\* The reap takes the last entry: an object that only the reap knows of.
LEMMA ReapObjectKeeps ==
  ASSUME IndInv, ReapObject
  PROVE  IndInv'
  <1> DEFINE o == Last(zct)
             p == [Popped EXCEPT !.idx[o] = 0]
  <1>1. /\ Reaping /\ phase = "reap" /\ zct # <<>> /\ o \notin pinned /\ o # NULL
        /\ Becomes(p) /\ running' = o
        /\ UNCHANGED <<alive, field, stack, pins, phase, condemned, adding, after, locals>>
    BY DEF ReapObject, Reaping
  <1>2. locals = {} /\ ZeroKnown(Table, alive \ (condemned \cup {adding}))  BY <1>1, LoopFacts
  <1>3. /\ TabInv(Table, alive, pins) /\ PinInv /\ AddInv /\ HeapInv /\ AfterInv
        /\ CountsAre(rc, alive \ sticky, Counted)
    BY DEF IndInv
  <1>4. o \in alive /\ o \in Objects /\ idx[o] # 0 /\ rc[o] = 0 /\ o \notin sticky /\ o # adding
    BY <1>1, LastEntry
  <1>5. o \notin stack /\ \A x \in Holders : field[x] # o  BY <1>1, ReapedIsGarbage
  <1>6. /\ Popped \in Tables /\ Popped.rc = rc /\ Popped.sticky = sticky /\ Popped.idx = idx
        /\ Popped.pinned = pinned /\ Popped.zct = Front(zct) /\ Popped.missed = missed
        /\ Popped.segs = IF Len(zct) = (segs - 1) * SegCap THEN segs - 1 ELSE segs
    BY <1>1, <1>3, PoppedFields
  <1>7. Popped.idx \in [Objects -> Nat]  BY <1>6 DEF Tables
  <1>8. /\ p \in Tables /\ p.rc = rc /\ p.sticky = sticky /\ p.idx = [idx EXCEPT ![o] = 0]
        /\ p.pinned = pinned /\ p.zct = Front(zct) /\ p.missed = missed /\ p.segs = Popped.segs
    BY <1>4, <1>6, <1>7 DEF Tables
  <1> HIDE DEF p
  <1>9. TabInv(p, alive, pins)
    <2>1. p.missed \subseteq alive  BY <1>3, <1>8, TableFields DEF TabInv
    <2> QED  BY <1>1, <1>3, <1>6, <1>8, <2>1, TableFields, PopKeeps
  <1>10. p.idx[o] = 0 /\ \A q \in Objects \ {o} : p.idx[q] = idx[q]  BY <1>4, <1>6, <1>7, <1>8
  <1>11. Table' = p /\ rc' = p.rc /\ sticky' = p.sticky /\ idx' = p.idx /\ pinned' = p.pinned
    BY <1>1, <1>8, BecomesTable
  <1> HIDE DEF o
  <1>12. HeapInv' /\ AfterInv'  BY <1>1, <1>3 DEF HeapInv, AfterInv
  <1>13. AddInv'
    <2>1. adding # NULL => adding \in Objects \ {o}  BY <1>3, <1>4 DEF AfterInv, HeapInv
    <2> QED  BY <1>1, <1>3, <1>8, <1>10, <1>11, <2>1 DEF AddInv
  <1>14. PinInv'
    <2>1. ASSUME NEW q \in stack \cup ({adding} \ {NULL}) PROVE q \in pinned' \/ Sits(pins, idx', q)
      <3>1. q \in Objects \ {o} /\ (q \in pinned \/ Sits(pins, idx, q))
        BY <1>1, <1>3, <1>4, <1>5 DEF PinInv, HeapInv, AfterInv
      <3>2. idx'[q] = idx[q]  BY <1>10, <1>11, <3>1
      <3> QED  BY <1>8, <1>11, <3>1, <3>2 DEF Sits
    <2> QED  BY <1>1, <1>3, <1>8, <1>11, <2>1 DEF PinInv
  <1>15. FrameInv'
    <2>1. after[1] = "delete" => after[2] \notin locals'  BY <1>1, <1>2
    <2> QED  BY <1>1, <1>2, <1>4, <1>5, <1>8, <1>10, <1>11, <2>1 DEF FrameInv
  <1>16. ZeroKnown(Table', alive' \ (condemned' \cup {adding', running'}))
    BY <1>1, <1>2, <1>8, <1>10, <1>11, TableFields DEF ZeroKnown
  <1>17. TabInv(Table', alive', pins') /\ CountsAre(rc', alive' \ sticky', Counted')
    <2>1. Counted' = Counted  BY <1>1 DEF Counted
    <2> QED  BY <1>1, <1>3, <1>8, <1>9, <1>11, <2>1
  <1> QED  BY <1>12, <1>13, <1>14, <1>15, <1>16, <1>17, Assemble

\* Code that a reap runs.
LEMMA CodeFacts ==
  ASSUME IndInv, running # NULL
  PROVE  /\ phase = "reap" /\ condemned = {} /\ alive \in SUBSET Objects /\ NULL \notin Objects /\ Root \notin Objects
         /\ HeapInv /\ AfterInv /\ AddInv /\ PinInv /\ FrameInv /\ TabInv(Table, alive, pins)
         /\ CountsAre(rc, alive \ sticky, Counted) /\ ZeroKnown(Table, alive \ {adding, running})
         /\ field \in [Holders -> Values] /\ Counted \in [Holders -> Values]
         /\ \A x \in Holders : field[x] \in alive \cup {NULL}
         /\ after[1] \in {"store", "delete"} => after[2] \in stack \cup {Root} /\ after[2] \in Holders
  <1>1. /\ HeapInv /\ AfterInv /\ AddInv /\ PinInv /\ FrameInv /\ TabInv(Table, alive, pins)
        /\ CountsAre(rc, alive \ sticky, Counted) /\ ZeroKnown(Table, alive \ (condemned \cup {adding, running}))
    BY DEF IndInv
  <1>2. phase = "reap" /\ condemned = {}  BY <1>1 DEF FrameInv, HeapInv
  <1>3. ZeroKnown(Table, alive \ {adding, running})  BY <1>1, <1>2 DEF ZeroKnown
  <1>4. field \in [Holders -> Values] /\ \A x \in Holders : field[x] \in alive \cup {NULL}
    BY <1>1, <1>2 DEF HeapInv
  <1>5. after[1] \in {"store", "delete"} => after[2] \in stack \cup {Root} /\ after[2] \in Holders
    BY <1>1 DEF AfterInv, HeapInv, Holders
  <1>6. Counted \in [Holders -> Values]  BY <1>4, <1>5 DEF Counted, Values
  <1> QED  BY <1>1, <1>2, <1>3, <1>4, <1>5, <1>6, ZCTAssumption DEF HeapInv

\* The end of a destructor: the object is gone.
LEMMA DestroyObjectKeeps ==
  ASSUME IndInv, DestroyObject, Careful
  PROVE  IndInv'
  <1> DEFINE o == running
             E == alive \ {adding, running}
  <1>1. /\ o \in Objects /\ alive' = alive \ {o} /\ field' = [field EXCEPT ![o] = NULL]
        /\ running' = NULL /\ locals' = {} /\ stack' = stack
        /\ UNCHANGED <<pins, phase, condemned, adding, after>>
    BY DEF DestroyObject, LeaveFrame
  <1>2. PICK z \in DecrementRef(Table, field[o], "reap") : Becomes(Destroyed(z, o))  BY DEF DestroyObject
  <1>0. o # NULL  BY <1>1, ZCTAssumption
  <1>3. /\ phase = "reap" /\ condemned = {} /\ alive \in SUBSET Objects /\ NULL \notin Objects /\ Root \notin Objects
        /\ HeapInv /\ AfterInv /\ AddInv /\ PinInv /\ FrameInv /\ TabInv(Table, alive, pins)
        /\ CountsAre(rc, alive \ sticky, Counted) /\ ZeroKnown(Table, E)
        /\ field \in [Holders -> Values] /\ Counted \in [Holders -> Values]
        /\ \A x \in Holders : field[x] \in alive \cup {NULL}
        /\ after[1] \in {"store", "delete"} => after[2] \in stack \cup {Root} /\ after[2] \in Holders
    BY <1>0, CodeFacts
  <1>4. /\ o \in alive /\ o \notin stack /\ o # adding /\ \A x \in Holders : field[x] # o
        /\ rc[o] = 0 /\ idx[o] = 0 /\ o \notin sticky
    BY <1>1, <1>3, ZCTAssumption DEF FrameInv
  <1>5. after[1] \in {"store", "delete"} => after[2] \in Holders \ {o}  BY <1>1, <1>3, <1>4
  <1>6. o \in Holders /\ NULL \in Values /\ field[o] \in Values /\ field[o] # o /\ Counted[o] = field[o]
    <2>1. o \in Holders  BY <1>1 DEF Holders
    <2> QED  BY <1>3, <1>4, <1>5, <2>1 DEF Values, Counted
  <1> HIDE DEF o
  <1>7. /\ TabInv(z, alive, pins) /\ z.sticky = sticky
        /\ Counts(Table, field[o]) => z.rc = [Table.rc EXCEPT ![field[o]] = Table.rc[field[o]] - 1]
        /\ ~Counts(Table, field[o]) => z.rc = Table.rc
        /\ \A q \in Objects : q # field[o] \/ idx[q] # 0 => z.idx[q] = idx[q]
        /\ z.pinned = pinned
        /\ \A F : ZeroKnown(Table, F) => ZeroKnown(z, F)
    <2>1. InReap("reap")  BY DEF InReap
    <2>2. TabInv(Table, alive, pins) /\ field[o] \in Values /\ z \in DecrementRef(Table, field[o], "reap")
      BY <1>2, <1>3, <1>6
    <2>3. /\ TabInv(z, alive, pins) /\ z.sticky = Table.sticky
          /\ Counts(Table, field[o]) => z.rc = [Table.rc EXCEPT ![field[o]] = Table.rc[field[o]] - 1]
          /\ ~Counts(Table, field[o]) => z.rc = Table.rc
          /\ \A q \in Objects : q # field[o] \/ Table.idx[q] # 0 => z.idx[q] = Table.idx[q]
          /\ z.pinned = Table.pinned
          /\ \A F : ZeroKnown(Table, F) => ZeroKnown(z, F)
      BY ONLY <2>1, <2>2, DecrementRefKeeps
    <2> QED  BY <2>3, TableFields
  <1>8. \A q \in Objects : rc[q] = 0 /\ idx[q] = 0 => z.rc[q] = 0 /\ z.idx[q] = 0
    <2> SUFFICES ASSUME NEW q \in Objects, rc[q] = 0, idx[q] = 0 PROVE z.rc[q] = 0 /\ z.idx[q] = 0  OBVIOUS
    <2>1. Table.rc[q] = 0 /\ Table.idx[q] = 0  BY TableFields
    <2> QED  BY <1>2, <1>3, <1>6, <2>1, ZeroStays
  <1> DEFINE w == Destroyed(z, o)
  <1>9. /\ TabInv(w, alive \ {o}, pins) /\ w.sticky = z.sticky \ {o}
        /\ \A q \in Objects \ {o} : w.rc[q] = z.rc[q]
        /\ w.pinned = z.pinned \ {o} /\ \A q \in Objects \ {o} : w.idx[q] = z.idx[q]
        /\ \A F : ZeroKnown(z, F) => ZeroKnown(w, F \ {o})
    <2>1. Removable(z, alive, pins, o)  BY <1>1, <1>4, <1>7, <1>8 DEF Removable
    <2>2. TabInv(w, alive \ {o}, pins) /\ Without(z, w, o)  BY ONLY <2>1, DestroyedKeeps
    <2> HIDE DEF w
    <2> QED  BY <2>2 DEF Without
  <1> HIDE DEF w
  <1>10. w \in Tables /\ Becomes(w)  BY <1>2, <1>9 DEF TabInv, w
  <1>11. Table' = w /\ rc' = w.rc /\ sticky' = w.sticky /\ idx' = w.idx /\ pinned' = w.pinned
    BY <1>10, BecomesTable
  <1>12. HeapInv'
    <2>1. field' \in [Holders -> Values] /\ field'[o] = NULL /\ \A x \in Holders \ {o} : field'[x] = field[x]
      BY <1>1, <1>3, <1>6
    <2>2. \A x \in Holders : field'[x] \in (alive \ {o}) \cup {NULL}  BY <1>3, <1>4, <2>1
    <2>3. \A q \in Objects \ (alive \ {o}) : field'[q] = NULL  BY <1>3, <2>1 DEF HeapInv, Holders
    <2> QED  BY <1>1, <1>3, <1>4, <2>1, <2>2, <2>3 DEF HeapInv
  <1>13. AfterInv'
    <2>1. adding \in alive' \cup {NULL}  BY <1>1, <1>3, <1>4 DEF AfterInv
    <2>2. after[1] \in {"store", "delete"} => field'[after[2]] = field[after[2]]  BY <1>1, <1>3, <1>5
    <2>3. after[1] = "delete" => \A x \in Holders \ {after[2]} : field'[x] # after[2]
      <3>1. after[1] = "delete" => after[2] # NULL
        <4>1. NULL \notin stack  BY <1>3 DEF HeapInv
        <4> QED  BY <1>3, <4>1 DEF AfterInv
      <3>2. \A x \in Holders : field'[x] = NULL \/ field'[x] = field[x]  BY <1>1, <1>3
      <3> QED  BY <1>3, <3>1, <3>2 DEF AfterInv
    <2> QED  BY <1>1, <1>3, <2>1, <2>2, <2>3 DEF AfterInv
  <1>14. AddInv'
    <2> SUFFICES ASSUME adding # NULL PROVE rc'[adding] = 0 /\ idx'[adding] = 0 /\ adding \notin sticky'
      BY <1>1 DEF AddInv
    <2>1. adding \in Objects \ {o} /\ rc[adding] = 0 /\ idx[adding] = 0 /\ adding \notin sticky
      BY <1>3, <1>4 DEF AfterInv, AddInv
    <2>2. z.rc[adding] = 0 /\ z.idx[adding] = 0  BY <1>8, <2>1
    <2> QED  BY <1>7, <1>9, <1>11, <2>1, <2>2
  <1>15. PinInv'
    <2>1. \A i \in DOMAIN pins : pins[i] \notin pinned'  BY <1>3, <1>7, <1>9, <1>11 DEF PinInv
    <2>2. ASSUME NEW q \in stack \cup ({adding} \ {NULL}) PROVE q \in pinned' \/ Sits(pins, idx', q)
      <3>1. q \in Objects \ {o} /\ (q \in pinned \/ Sits(pins, idx, q))
        BY <1>3, <1>4 DEF PinInv, HeapInv, AfterInv
      <3>2. CASE q \in pinned  BY <1>7, <1>9, <1>11, <3>1, <3>2
      <3>3. CASE Sits(pins, idx, q)
        <4>1. idx[q] # 0
          <5>1. pins \in Seq(Values)  BY <1>3 DEF AfterInv
          <5>2. \A i \in DOMAIN pins : i # 0  BY <5>1, LenProperties
          <5> QED  BY <3>3, <5>2 DEF Sits
        <4>2. idx'[q] = idx[q]  BY <1>7, <1>9, <1>11, <3>1, <4>1
        <4> QED  BY <3>3, <4>2 DEF Sits
      <3> QED  BY <3>1, <3>2, <3>3
    <2> QED  BY <1>1, <1>3, <2>1, <2>2 DEF PinInv
  <1>16. FrameInv'  BY <1>1, <1>3 DEF FrameInv
  <1>17. CountsAre(rc', alive' \ sticky', Counted')
    <2> DEFINE g == [Counted EXCEPT ![o] = NULL]
    <2>1. CountsAre(z.rc, alive \ sticky, g)
      <3>1. /\ TabInv(Table, alive, pins) /\ Counted \in [Holders -> Values] /\ o \in Holders
            /\ CountsAre(Table.rc, alive \ Table.sticky, Counted)
            /\ Counts(Table, Counted[o]) => z.rc = [Table.rc EXCEPT ![Counted[o]] = Table.rc[Counted[o]] - 1]
            /\ ~Counts(Table, Counted[o]) => z.rc = Table.rc
        BY <1>3, <1>6, <1>7, TableFields
      <3>2. CountsAre(z.rc, alive \ Table.sticky, g)  BY <3>1, DropExact
      <3> QED  BY <3>2, TableFields
    <2>2. Counted' = g
      <3>1. g \in [Holders -> Values] /\ g[o] = NULL /\ \A x \in Holders \ {o} : g[x] = Counted[x]
        BY <1>3, <1>6
      <3> HIDE DEF g
      <3>2. field' = [field EXCEPT ![o] = NULL]  BY <1>1
      <3>3. CASE after[1] \in {"store", "delete"}
        <4>1. Counted' = [field' EXCEPT ![after[2]] = NULL] /\ Counted = [field EXCEPT ![after[2]] = NULL]
          BY <1>1, <3>3 DEF Counted
        <4>2. after[2] \in Holders \ {o}  BY <1>5, <3>3
        <4> QED  BY <1>3, <1>6, <3>1, <3>2, <4>1, <4>2
      <3>4. CASE ~(after[1] \in {"store", "delete"})
        <4>1. Counted' = field' /\ Counted = field  BY <1>1, <3>4 DEF Counted
        <4> QED  BY <1>3, <1>6, <3>1, <3>2, <4>1
      <3> QED  BY <3>3, <3>4
    <2> HIDE DEF g
    <2>3. \A q \in alive' \ sticky' : q \in alive \ sticky /\ rc'[q] = z.rc[q]
      BY <1>1, <1>3, <1>7, <1>9, <1>11
    <2> QED  BY <2>1, <2>2, <2>3 DEF CountsAre
  <1>18. ZeroKnown(Table', alive' \ (condemned' \cup {adding', running'}))
    <2>1. ZeroKnown(w, E \ {o})  BY <1>3, <1>7, <1>9
    <2>2. alive' \ (condemned' \cup {adding', running'}) = E \ {o}  BY <1>1, <1>3 DEF o
    <2> QED  BY <1>11, <2>1, <2>2
  <1>19. TabInv(Table', alive', pins')  BY <1>1, <1>9, <1>11
  <1> QED  BY <1>12, <1>13, <1>14, <1>15, <1>16, <1>17, <1>18, <1>19, Assemble

\* prereap() returns.
LEMMA CallbackReturnsKeeps ==
  ASSUME IndInv, CallbackReturns, Careful
  PROVE  IndInv'
  <1>1. /\ running = Callback /\ running' = NULL /\ locals' = {} /\ stack' = stack
        /\ UNCHANGED <<alive, field, pins, phase, condemned, adding, after>> /\ UNCHANGED tableVars
    BY DEF CallbackReturns, LeaveFrame
  <1>2. running # NULL /\ Callback \notin Objects  BY <1>1, ZCTAssumption
  <1>3. /\ phase = "reap" /\ condemned = {} /\ alive \in SUBSET Objects /\ NULL \notin Objects
        /\ HeapInv /\ AfterInv /\ AddInv /\ PinInv /\ FrameInv /\ TabInv(Table, alive, pins)
        /\ CountsAre(rc, alive \ sticky, Counted) /\ ZeroKnown(Table, alive \ {adding, running})
    BY <1>2, CodeFacts
  <1>4. Table' = Table /\ rc' = rc /\ sticky' = sticky /\ idx' = idx /\ pinned' = pinned  BY <1>1, SameTable
  <1>5. HeapInv' /\ AfterInv' /\ AddInv'  BY <1>1, <1>3, <1>4 DEF HeapInv, AfterInv, AddInv
  <1>6. PinInv'  BY <1>1, <1>3, <1>4 DEF PinInv, Sits
  <1>7. FrameInv'  BY <1>1, <1>3 DEF FrameInv
  <1>8. Counted' = Counted  BY <1>1 DEF Counted
  <1>9. ZeroKnown(Table', alive' \ (condemned' \cup {adding', running'}))
    BY <1>1, <1>2, <1>3, <1>4 DEF ZeroKnown
  <1>10. TabInv(Table', alive', pins') /\ CountsAre(rc', alive' \ sticky', Counted')  BY <1>1, <1>3, <1>4, <1>8
  <1> QED  BY <1>5, <1>6, <1>7, <1>9, <1>10, Assemble

\* Code in a reap loads a pointer.
LEMMA DestructorLoadKeeps ==
  ASSUME IndInv, NEW x, DestructorLoad(x)
  PROVE  IndInv'
  <1>1. /\ running \in Builders \cup {Callback} /\ x \in InReach /\ field[x] # NULL /\ locals' = locals \cup {field[x]}
        /\ UNCHANGED <<alive, field, stack, pins, phase, condemned, adding, after, running>> /\ UNCHANGED tableVars
    BY DEF DestructorLoad, RunsCode
  <1>2. running # NULL  BY <1>1, ZCTAssumption
  <1>3. /\ phase = "reap" /\ condemned = {} /\ alive \in SUBSET Objects /\ NULL \notin Objects /\ Root \notin Objects
        /\ HeapInv /\ AfterInv /\ AddInv /\ PinInv /\ FrameInv /\ TabInv(Table, alive, pins)
        /\ CountsAre(rc, alive \ sticky, Counted) /\ ZeroKnown(Table, alive \ {adding, running})
        /\ \A y \in Holders : field[y] \in alive \cup {NULL}
    BY <1>2, CodeFacts
  <1>4. x \in Holders /\ field[x] \in alive
    <2>1. locals \subseteq Objects  BY <1>3 DEF FrameInv
    <2> QED  BY <1>1, <1>3, <2>1 DEF InReach, Holders
  <1>5. after[1] = "delete" => field[x] # after[2]
    <2> SUFFICES ASSUME after[1] = "delete" PROVE field[x] # after[2]  OBVIOUS
    <2>1. after[2] \in stack /\ after[2] \notin locals /\ \A y \in Holders \ {after[2]} : field[y] # after[2]
      BY <1>3 DEF AfterInv, FrameInv
    <2>2. after[2] # Root /\ (running \in Objects => after[2] # running)
      BY <1>3, <2>1 DEF FrameInv, HeapInv
    <2> QED  BY <1>1, <1>4, <2>1, <2>2 DEF InReach
  <1>6. running \in Objects => field[x] # running  BY <1>3, <1>4 DEF FrameInv
  <1>7. Table' = Table /\ rc' = rc /\ sticky' = sticky /\ idx' = idx /\ pinned' = pinned  BY <1>1, SameTable
  <1>8. HeapInv' /\ AfterInv' /\ AddInv'  BY <1>1, <1>3, <1>7 DEF HeapInv, AfterInv, AddInv
  <1>9. PinInv'  BY <1>1, <1>3, <1>7 DEF PinInv, Sits
  <1>10. FrameInv'  BY <1>1, <1>2, <1>3, <1>4, <1>5, <1>6, <1>7 DEF FrameInv
  <1>11. Counted' = Counted  BY <1>1 DEF Counted
  <1>12. ZeroKnown(Table', alive' \ (condemned' \cup {adding', running'}))
    BY <1>1, <1>3, <1>7 DEF ZeroKnown
  <1>13. TabInv(Table', alive', pins') /\ CountsAre(rc', alive' \ sticky', Counted')  BY <1>1, <1>3, <1>7, <1>11
  <1> QED  BY <1>8, <1>9, <1>10, <1>12, <1>13, Assemble

\* Code in a reap allocates: the object is listed, but not pinned.
LEMMA DestructorNewKeeps ==
  ASSUME IndInv, NEW o \in Objects, DestructorNew(o)
  PROVE  IndInv'
  <1>1. /\ running \in Builders \cup {Callback} /\ o \notin alive
        /\ alive' = alive \cup {o} /\ locals' = locals \cup {o}
        /\ UNCHANGED <<field, stack, pins, phase, condemned, adding, after, running>>
    BY DEF DestructorNew, RunsCode
  <1>2. PICK w \in Add(Table, o, "reap") : Becomes(w)  BY DEF DestructorNew
  <1>3. running # NULL  BY <1>1, ZCTAssumption
  <1>4. /\ phase = "reap" /\ condemned = {} /\ alive \in SUBSET Objects /\ NULL \notin Objects /\ Root \notin Objects
        /\ HeapInv /\ AfterInv /\ AddInv /\ PinInv /\ FrameInv /\ TabInv(Table, alive, pins)
        /\ CountsAre(rc, alive \ sticky, Counted) /\ ZeroKnown(Table, alive \ {adding, running})
        /\ field \in [Holders -> Values] /\ Counted \in [Holders -> Values]
        /\ \A x \in Holders : field[x] \in alive \cup {NULL}
        /\ after[1] \in {"store", "delete"} => after[2] \in stack \cup {Root} /\ after[2] \in Holders
    BY <1>3, CodeFacts
  <1>5. TabInv(Table, alive', pins) /\ rc[o] = 0 /\ idx[o] = 0 /\ o \notin sticky
    <2>1. rc[o] = 0 /\ idx[o] = 0 /\ o \notin sticky  BY <1>1, <1>4, TableFields DEF TabInv
    <2>2. alive \subseteq alive' /\ alive' \in SUBSET Objects  BY <1>1, <1>4
    <2>3. Entries(zct, idx, alive') /\ Entries(pins, idx, alive')
      BY <1>4, <2>2, TableFields DEF TabInv, Entries
    <2>4. \A p \in alive' : idx[p] # 0 => p \in alive  BY <1>1, <2>1
    <2> QED  BY <1>1, <1>4, <2>1, <2>2, <2>3, <2>4, TableFields DEF TabInv
  <1>6. CountsAre(rc, alive' \ sticky, Counted)
    <2>1. \A x \in Holders : Counted[x] # o
      <3>1. \A x \in Holders : field[x] # o  BY <1>1, <1>4
      <3>2. \A x \in Holders : Counted[x] = field[x] \/ Counted[x] = NULL  BY <1>4 DEF Counted
      <3> QED  BY <1>4, <3>1, <3>2
    <2>2. Refs(Counted, o) = {}  BY <2>1 DEF Refs
    <2>3. rc[o] = Cardinality(Refs(Counted, o))  BY <1>5, <2>2, FS_EmptySet
    <2> QED  BY <1>1, <1>4, <2>3 DEF CountsAre
  <1>7. /\ TabInv(w, alive', pins) /\ w.rc = rc /\ w.sticky = sticky
        /\ w.idx[o] # 0 \/ o \in w.missed
        /\ missed \subseteq w.missed /\ \A p \in Objects \ {o} : w.idx[p] = idx[p]
        /\ w.pinned = pinned
    <2>1. o \in alive' /\ Table.rc[o] = 0 /\ o \notin Table.sticky /\ Table.idx[o] = 0 /\ InReap("reap")
      BY <1>1, <1>5, TableFields DEF InReap
    <2>2. /\ TabInv(w, alive', pins) /\ w.rc = Table.rc /\ w.sticky = Table.sticky
          /\ w.idx[o] # 0 \/ o \in w.missed
          /\ Table.missed \subseteq w.missed /\ \A p \in Objects \ {o} : w.idx[p] = Table.idx[p]
          /\ InReap("reap") => w.pinned = Table.pinned
      BY <1>2, <1>5, <2>1, AddKeeps
    <2> QED  BY <2>1, <2>2, TableFields
  <1>8. w \in Tables  BY <1>7 DEF TabInv
  <1>9. Table' = w /\ rc' = w.rc /\ sticky' = w.sticky /\ idx' = w.idx /\ pinned' = w.pinned
    BY <1>2, <1>8, BecomesTable
  <1>10. HeapInv'  BY <1>1, <1>4 DEF HeapInv
  <1>11. AfterInv'  BY <1>1, <1>4 DEF AfterInv
  <1>12. AddInv'
    <2>1. adding # NULL => adding \in Objects \ {o}  BY <1>1, <1>4 DEF AfterInv
    <2> QED  BY <1>1, <1>4, <1>7, <1>9, <2>1 DEF AddInv
  <1>13. PinInv'
    <2>1. ASSUME NEW q \in stack \cup ({adding} \ {NULL}) PROVE q \in pinned' \/ Sits(pins, idx', q)
      <3>1. q \in Objects \ {o} /\ (q \in pinned \/ Sits(pins, idx, q))
        BY <1>1, <1>4 DEF PinInv, HeapInv, AfterInv
      <3>2. idx'[q] = idx[q]  BY <1>7, <1>9, <3>1
      <3> QED  BY <1>7, <1>9, <3>1, <3>2 DEF Sits
    <2> QED  BY <1>1, <1>4, <1>7, <1>9, <2>1 DEF PinInv
  <1>14. FrameInv'
    <2>1. running \in alive' \cup {Callback, NULL} /\ locals' \subseteq alive'  BY <1>1, <1>4 DEF FrameInv
    <2>2. after[1] = "delete" => after[2] \notin locals'
      <3>1. after[1] = "delete" => after[2] \in alive  BY <1>4 DEF AfterInv, HeapInv
      <3> QED  BY <1>1, <1>4, <3>1 DEF FrameInv
    <2>3. ASSUME running \in Objects
          PROVE  /\ running \notin stack \cup locals' \cup {adding} /\ \A x \in Holders : field[x] # running
                 /\ rc'[running] = 0 /\ idx'[running] = 0 /\ running \notin sticky'
      <3>1. running \in Objects \ {o}
        <4>1. running # NULL /\ running # Callback  BY <2>3, ZCTAssumption
        <4> QED  BY <1>1, <1>4, <2>3, <4>1 DEF FrameInv
      <3> QED  BY <1>1, <1>4, <1>7, <1>9, <2>3, <3>1 DEF FrameInv
    <2> QED  BY <1>1, <1>3, <1>4, <2>1, <2>2, <2>3 DEF FrameInv
  <1>15. ZeroKnown(Table', alive' \ (condemned' \cup {adding', running'}))
    BY <1>1, <1>4, <1>7, <1>9, TableFields DEF ZeroKnown
  <1>16. TabInv(Table', alive', pins') /\ CountsAre(rc', alive' \ sticky', Counted')
    <2>1. Counted' = Counted  BY <1>1 DEF Counted
    <2> QED  BY <1>1, <1>6, <1>7, <1>9, <2>1
  <1> QED  BY <1>10, <1>11, <1>12, <1>13, <1>14, <1>15, <1>16, Assemble

\* Code in a reap stores a pointer, out of the way of the reap.
LEMMA DestructorStoreKeeps ==
  ASSUME IndInv, NEW x, NEW v, DestructorStore(x, v), Careful
  PROVE  IndInv'
  <1>1. /\ running \in Builders \cup {Callback} /\ x \in InReach /\ v \in locals \cup {NULL} /\ KeepsOut(x, v)
        /\ UNCHANGED <<pins, phase, condemned, adding, after, running, locals>>
    BY DEF DestructorStore, RunsCode, frame
  <1>2. PICK z \in DecrementRef(Table, field[x], "reap") : StoreRest(z, x, v)  BY DEF DestructorStore
  <1>3. running # NULL  BY <1>1, ZCTAssumption
  <1>4. /\ phase = "reap" /\ condemned = {} /\ alive \in SUBSET Objects /\ NULL \notin Objects /\ Root \notin Objects
        /\ HeapInv /\ AfterInv /\ AddInv /\ PinInv /\ FrameInv /\ TabInv(Table, alive, pins)
        /\ CountsAre(rc, alive \ sticky, Counted) /\ ZeroKnown(Table, alive \ {adding, running})
        /\ field \in [Holders -> Values] /\ Counted \in [Holders -> Values]
        /\ \A y \in Holders : field[y] \in alive \cup {NULL}
        /\ after[1] \in {"store", "delete"} => after[2] \in stack \cup {Root} /\ after[2] \in Holders
    BY <1>3, CodeFacts
  <1>5. /\ x \in Holders /\ field[x] \in Values /\ v \in alive \cup {NULL} /\ v \in Values
        /\ (v # NULL => v \in alive) /\ (x \in Objects => x \in alive)
    <2>1. locals \subseteq alive /\ (running \in Objects => running \in alive)
      BY <1>4, ZCTAssumption DEF FrameInv
    <2>2. x \in Holders /\ (x \in Objects => x \in alive)  BY <1>1, <1>4, <2>1 DEF InReach, Holders
    <2> QED  BY <1>1, <1>4, <2>1, <2>2 DEF Values
  <1>6. /\ after[1] \in {"store", "delete"} => x # after[2]
        /\ v # adding \/ v = NULL
        /\ v # NULL => \A i \in DOMAIN pins : pins[i] # v
        /\ Counted[x] = field[x]
    <2>1. /\ after[1] \in {"store", "delete"} => x # after[2]
          /\ v # NULL => v \notin Range(pins) \cup {adding}
      BY <1>1 DEF KeepsOut
    <2>2. Counted[x] = field[x]  BY <1>4, <1>5, <2>1 DEF Counted
    <2> QED  BY <2>1, <2>2 DEF Range
  <1>7. /\ TabInv(z, alive, pins) /\ z.sticky = sticky
        /\ Counts(Table, field[x]) => z.rc = [Table.rc EXCEPT ![field[x]] = Table.rc[field[x]] - 1]
        /\ ~Counts(Table, field[x]) => z.rc = Table.rc
        /\ \A q \in Objects : q # field[x] \/ idx[q] # 0 => z.idx[q] = idx[q]
        /\ z.pinned = pinned
        /\ \A F : ZeroKnown(Table, F) => ZeroKnown(z, F)
    <2>1. InReap("reap")  BY DEF InReap
    <2>2. TabInv(Table, alive, pins) /\ field[x] \in Values /\ z \in DecrementRef(Table, field[x], "reap")
      BY <1>2, <1>4, <1>5
    <2>3. /\ TabInv(z, alive, pins) /\ z.sticky = Table.sticky
          /\ Counts(Table, field[x]) => z.rc = [Table.rc EXCEPT ![field[x]] = Table.rc[field[x]] - 1]
          /\ ~Counts(Table, field[x]) => z.rc = Table.rc
          /\ \A q \in Objects : q # field[x] \/ Table.idx[q] # 0 => z.idx[q] = Table.idx[q]
          /\ z.pinned = Table.pinned
          /\ \A F : ZeroKnown(Table, F) => ZeroKnown(z, F)
      BY ONLY <2>1, <2>2, DecrementRefKeeps
    <2> QED  BY <2>3, TableFields
  <1>8. \A q \in Objects : rc[q] = 0 /\ idx[q] = 0 => z.rc[q] = 0 /\ z.idx[q] = 0
    <2> SUFFICES ASSUME NEW q \in Objects, rc[q] = 0, idx[q] = 0 PROVE z.rc[q] = 0 /\ z.idx[q] = 0  OBVIOUS
    <2>1. Table.rc[q] = 0 /\ Table.idx[q] = 0  BY TableFields
    <2> QED  BY <1>2, <1>4, <1>5, <2>1, ZeroStays
  <1> DEFINE w == IncrementRef(z, v)
             f == [Counted EXCEPT ![x] = NULL]
  <1>9. v # NULL => ~Sits(pins, z.idx, v)  BY <1>6 DEF Sits
  <1>10. /\ TabInv(w, alive, pins) /\ w.pinned = z.pinned /\ w.sticky \subseteq z.sticky \cup {v}
         /\ v = NULL \/ v \in z.sticky => w = z
         /\ v # NULL /\ v \notin z.sticky => w.rc = [z.rc EXCEPT ![v] = z.rc[v] + 1]
         /\ \A p \in Objects \ {v} : w.idx[p] = z.idx[p]
         /\ \A E : ZeroKnown(z, E) => ZeroKnown(w, E)
    BY <1>5, <1>7, <1>9, IncrementRefKeeps
  <1>11. CountsAre(w.rc, alive \ w.sticky, [f EXCEPT ![x] = v])
    <2>1. f \in [Holders -> Values] /\ f[x] = NULL  BY <1>4, <1>5 DEF Values
    <2>2. CountsAre(z.rc, alive \ z.sticky, f)
      <3>1. /\ TabInv(Table, alive, pins) /\ Counted \in [Holders -> Values] /\ x \in Holders
            /\ CountsAre(Table.rc, alive \ Table.sticky, Counted)
            /\ Counts(Table, Counted[x]) => z.rc = [Table.rc EXCEPT ![Counted[x]] = Table.rc[Counted[x]] - 1]
            /\ ~Counts(Table, Counted[x]) => z.rc = Table.rc
        BY <1>4, <1>5, <1>6, <1>7, TableFields
      <3>2. CountsAre(z.rc, alive \ Table.sticky, f)  BY <3>1, DropExact
      <3> QED  BY <1>7, <3>2, TableFields
    <2> HIDE DEF f
    <2> QED  BY <1>5, <1>7, <1>9, <2>1, <2>2, TakeExact
  <1> HIDE DEF w
  <1>12. \A q \in Objects \ {v} : rc[q] = 0 /\ idx[q] = 0 /\ q \notin sticky =>
            w.rc[q] = 0 /\ w.idx[q] = 0 /\ q \notin w.sticky
    <2> SUFFICES ASSUME NEW q \in Objects \ {v}, rc[q] = 0, idx[q] = 0, q \notin sticky
                 PROVE  w.rc[q] = 0 /\ w.idx[q] = 0 /\ q \notin w.sticky
      OBVIOUS
    <2>1. z.rc[q] = 0 /\ z.idx[q] = 0  BY <1>8
    <2>2. z.rc \in [Objects -> Nat]
      <3>1. z \in Tables  BY <1>7 DEF TabInv
      <3> QED  BY <3>1 DEF Tables
    <2>3. w.rc[q] = 0  BY <1>10, <2>1, <2>2
    <2> QED  BY <1>7, <1>10, <2>1, <2>3
  <1>13. /\ field' = [field EXCEPT ![x] = v] /\ Becomes(w) /\ alive' = alive /\ stack' = stack
    BY <1>2 DEF StoreRest, w
  <1>14. w \in Tables  BY <1>10 DEF TabInv
  <1>15. Table' = w /\ rc' = w.rc /\ sticky' = w.sticky /\ idx' = w.idx /\ pinned' = w.pinned
    BY <1>13, <1>14, BecomesTable
  <1>16. field' \in [Holders -> Values] /\ field'[x] = v /\ \A y \in Holders \ {x} : field'[y] = field[y]
    BY <1>4, <1>5, <1>13
  <1>17. HeapInv'
    <2>1. \A y \in Holders : field'[y] \in alive \cup {NULL}  BY <1>4, <1>5, <1>16
    <2>2. \A p \in Objects \ alive : field'[p] = NULL  BY <1>4, <1>5, <1>16 DEF HeapInv, Holders
    <2> QED  BY <1>1, <1>4, <1>13, <1>16, <2>1, <2>2 DEF HeapInv
  <1>18. AfterInv'
    <2>1. after[1] \in {"store", "delete"} => field'[after[2]] = field[after[2]]  BY <1>4, <1>6, <1>16
    <2>2. after[1] = "delete" => \A y \in Holders \ {after[2]} : field'[y] # after[2]
      <3> SUFFICES ASSUME after[1] = "delete", NEW y \in Holders \ {after[2]} PROVE field'[y] # after[2]  OBVIOUS
      <3>1. field[y] # after[2] /\ after[2] \in stack /\ after[2] \notin locals  BY <1>4 DEF AfterInv, FrameInv
      <3>2. after[2] # NULL  BY <1>4, <3>1 DEF HeapInv
      <3> QED  BY <1>1, <1>16, <3>1, <3>2
    <2> QED  BY <1>1, <1>4, <1>13, <2>1, <2>2 DEF AfterInv
  <1>19. AddInv'
    <2>1. adding # NULL => adding \in Objects \ {v}  BY <1>4, <1>6 DEF AfterInv
    <2> QED  BY <1>1, <1>4, <1>12, <1>15, <2>1 DEF AddInv
  <1>20. PinInv'
    <2>1. pinned' = pinned  BY <1>7, <1>10, <1>15
    <2>2. ASSUME NEW q \in stack \cup ({adding} \ {NULL}) PROVE q \in pinned' \/ Sits(pins, idx', q)
      <3>1. q \in Objects /\ (q \in pinned \/ Sits(pins, idx, q))
        BY <1>4 DEF PinInv, HeapInv, AfterInv
      <3>2. CASE q \in pinned  BY <2>1, <3>2
      <3>3. CASE Sits(pins, idx, q)
        <4>1. idx[q] # 0
          <5>1. pins \in Seq(Values)  BY <1>4 DEF AfterInv
          <5>2. \A i \in DOMAIN pins : i # 0  BY <5>1, LenProperties
          <5> QED  BY <3>3, <5>2 DEF Sits
        <4>2. q # v  BY <1>4, <1>6, <3>1, <3>3 DEF Sits
        <4>3. idx'[q] = idx[q]  BY <1>7, <1>10, <1>15, <3>1, <4>1, <4>2
        <4> QED  BY <3>3, <4>3 DEF Sits
      <3> QED  BY <3>1, <3>2, <3>3
    <2> QED  BY <1>1, <1>4, <1>13, <2>1, <2>2 DEF PinInv
  <1>21. FrameInv'
    <2>1. ASSUME running \in Objects
          PROVE  /\ running \notin stack \cup locals \cup {adding} /\ \A y \in Holders : field'[y] # running
                 /\ rc'[running] = 0 /\ idx'[running] = 0 /\ running \notin sticky'
      <3>1. /\ running \notin stack \cup locals \cup {adding} /\ \A y \in Holders : field[y] # running
            /\ rc[running] = 0 /\ idx[running] = 0 /\ running \notin sticky
        BY <1>4, <2>1 DEF FrameInv
      <3>2. running # v  BY <1>1, <1>3, <3>1
      <3>3. \A y \in Holders : field'[y] # running  BY <1>16, <3>1, <3>2
      <3>4. rc'[running] = 0 /\ idx'[running] = 0 /\ running \notin sticky'
        BY <1>12, <1>15, <2>1, <3>1, <3>2
      <3> QED  BY <3>1, <3>3, <3>4
    <2> QED  BY <1>1, <1>4, <1>13, <2>1 DEF FrameInv
  <1>22. Counted' = [f EXCEPT ![x] = v]
    <2>1. CASE after[1] \in {"store", "delete"}
      <3>1. Counted' = [field' EXCEPT ![after[2]] = NULL] /\ Counted = [field EXCEPT ![after[2]] = NULL]
        BY <1>1, <2>1 DEF Counted
      <3>2. [f EXCEPT ![x] = v] = [Counted EXCEPT ![x] = v]  BY <1>4
      <3>3. x # after[2] /\ after[2] \in Holders  BY <1>4, <1>6, <2>1
      <3> HIDE DEF f
      <3> QED  BY <1>4, <1>5, <1>13, <3>1, <3>2, <3>3
    <2>2. CASE ~(after[1] \in {"store", "delete"})
      <3>1. Counted' = field' /\ Counted = field  BY <1>1, <2>2 DEF Counted
      <3> QED  BY <1>4, <1>13, <3>1
    <2> QED  BY <2>1, <2>2
  <1> HIDE DEF f
  <1>23. CountsAre(rc', alive' \ sticky', Counted')  BY <1>11, <1>13, <1>15, <1>22
  <1>24. ZeroKnown(Table', alive' \ (condemned' \cup {adding', running'}))
    <2>1. ZeroKnown(w, alive \ {adding, running})  BY <1>4, <1>7, <1>10
    <2>2. alive' \ (condemned' \cup {adding', running'}) = alive \ {adding, running}  BY <1>1, <1>4, <1>13
    <2> QED  BY <1>15, <2>1, <2>2
  <1>25. TabInv(Table', alive', pins')  BY <1>1, <1>10, <1>13, <1>15
  <1> QED  BY <1>17, <1>18, <1>19, <1>20, <1>21, <1>23, <1>24, <1>25, Assemble

\* The table that a reap leaves.
LEMMA UsePinningKeeps ==
  ASSUME IndInv, phase = "reap", zct = <<>>
  PROVE  LET u == UsePinningMemory IN
         /\ TabInv(u, alive, <<>>) /\ Unpinned(u) /\ u.rc = rc /\ u.sticky = sticky /\ u.idx = idx
         /\ u.missed = missed
  <1> DEFINE u == UsePinningMemory
             d == (Len(pins) + SegCap - 1) \div SegCap
  <1>1. TabInv(Table, alive, pins) /\ PinInv /\ pins \in Seq(Values)  BY DEF IndInv, AfterInv
  <1>2. Table \in Tables  BY <1>1 DEF TabInv
  <1>3. /\ u \in Tables /\ u.rc = rc /\ u.sticky = sticky /\ u.idx = idx /\ u.pinned = pinned
        /\ u.missed = missed /\ u.zct = pins /\ (pins # <<>> => u.segs = d) /\ (pins = <<>> => u.segs = segs)
    <2>1. CASE pins = <<>>
      <3>1. u = Table  BY <2>1 DEF UsePinningMemory
      <3> QED  BY <1>2, <2>1, <3>1, TableFields
    <2>2. CASE pins # <<>>
      <3>1. Len(pins) \in Nat \ {0}  BY <1>1, <2>2, EmptySeq, LenProperties
      <3>2. d \in Nat \ {0}  BY <3>1, FitDiv
      <3>3. u = [Table EXCEPT !.zct = pins, !.segs = d]  BY <2>2 DEF UsePinningMemory
      <3> HIDE DEF d, u
      <3>4. /\ u \in Tables /\ u.rc = Table.rc /\ u.sticky = Table.sticky /\ u.idx = Table.idx
            /\ u.pinned = Table.pinned /\ u.missed = Table.missed /\ u.zct = pins /\ u.segs = d
        BY <1>1, <1>2, <3>2, <3>3 DEF Tables
      <3> QED  BY <2>2, <3>4, TableFields
    <2> QED  BY <2>1, <2>2
  <1> HIDE DEF u
  <1>4. TabInv(u, alive, <<>>) /\ Unpinned(u)
    <2>1. \A i \in DOMAIN pins : pins[i] \notin Table.pinned  BY <1>1, TableFields DEF PinInv
    <2> QED  BY <1>1, <1>3, <2>1, TableFields, UsePinsKeeps
  <1> QED  BY <1>3, <1>4 DEF u

\* The end of a reap and of the operation in the middle of which it ran.
LEMMA EndReapKeeps ==
  ASSUME IndInv, EndReap
  PROVE  IndInv'
  <1> DEFINE u == UsePinningMemory
             v == [u EXCEPT !.budget = 1]
  <1>1. /\ phase = "reap" /\ zct = <<>> /\ phase' = "run" /\ pins' = <<>> /\ adding' = NULL
        /\ after' = Nothing /\ condemned' = condemned /\ Reaping /\ UNCHANGED frame
    BY DEF EndReap, Reaping
  <1>2. PICK z \in IF adding = NULL THEN {u} ELSE Add(v, adding, "run") :
          CASE after[1] = "store"  -> StoreRest(z, after[2], after[3])
            [] after[1] = "delete" -> DeleteRest(z, after[2])
            [] OTHER -> Becomes(z) /\ UNCHANGED <<alive, field, stack>>
    BY DEF EndReap
  <1>3. /\ HeapInv /\ AfterInv /\ AddInv /\ CountsAre(rc, alive \ sticky, Counted)
        /\ ZeroKnown(Table, alive \ (condemned \cup {adding})) /\ Idle'
    BY <1>1, LoopFacts DEF IndInv, Idle, frame
  <1>4. /\ TabInv(u, alive, <<>>) /\ Unpinned(u) /\ u.rc = rc /\ u.sticky = sticky /\ u.idx = idx
        /\ u.missed = missed
    BY <1>1, UsePinningKeeps
  <1> HIDE DEF u
  <1>5. condemned = {} /\ condemned' = {}  BY <1>1, <1>3 DEF HeapInv
  <1>6. \A q \in Objects : q \in alive \ {adding} /\ q \notin sticky /\ rc[q] = 0 => idx[q] # 0 \/ q \in missed
    BY <1>3, <1>5, TableFields DEF ZeroKnown
  <1>7. TabInv(z, alive, <<>>) /\ Unpinned(z) /\ z.rc = rc /\ z.sticky = sticky /\ ZeroKnown(z, alive \ condemned)
    <2>1. CASE adding = NULL
      <3>1. z = u  BY <1>2, <2>1
      <3> QED  BY <1>4, <1>5, <1>6, <2>1, <3>1, ZCTAssumption DEF ZeroKnown
    <2>2. CASE adding # NULL
      <3>1. u \in Tables  BY <1>4 DEF TabInv
      <3>2. /\ v \in Tables /\ v.rc = u.rc /\ v.sticky = u.sticky /\ v.idx = u.idx /\ v.pinned = u.pinned
            /\ v.zct = u.zct /\ v.segs = u.segs /\ v.missed = u.missed
        <4>1. 1 \in 0..1  OBVIOUS
        <4> QED  BY <3>1, <4>1 DEF Tables
      <3> HIDE DEF v
      <3>3. TabInv(v, alive, <<>>)  BY <1>4, <3>2 DEF TabInv
      <3>4. z \in Add(v, adding, "run")  BY <1>2, <2>2
      <3>5. adding \in alive /\ v.rc[adding] = 0 /\ adding \notin v.sticky /\ v.idx[adding] = 0
        BY <1>3, <1>4, <2>2, <3>2 DEF AfterInv, AddInv
      <3>6. /\ TabInv(z, alive, <<>>) /\ z.rc = v.rc /\ z.sticky = v.sticky
            /\ z.idx[adding] # 0 \/ adding \in z.missed
            /\ v.missed \subseteq z.missed /\ \A q \in Objects \ {adding} : z.idx[q] = v.idx[q]
            /\ z.pinned \subseteq v.pinned /\ (~InReap("run") /\ z.idx[adding] # 0 => adding \notin z.pinned)
        BY <3>3, <3>4, <3>5, AddKeeps
      <3>7. Unpinned(z)
        <4>1. ~InReap("run")  BY DEF InReap
        <4> QED  BY <1>4, <3>2, <3>6, <4>1 DEF Unpinned
      <3>8. ZeroKnown(z, alive \ condemned)  BY <1>4, <1>5, <1>6, <3>2, <3>6 DEF ZeroKnown
      <3> QED  BY <1>4, <3>2, <3>6, <3>7, <3>8
    <2> QED  BY <2>1, <2>2
  <1>8. /\ phase' \in {"run", "collect"} /\ (condemned # {} => phase' = "collect")
        /\ CountsAre(z.rc, alive \ z.sticky, Counted)
    BY <1>1, <1>3, <1>5, <1>7
  <1>9. CASE after[1] = "store"
    <2>1. StoreRest(z, after[2], after[3])  BY <1>2, <1>9
    <2>2. Counted = [field EXCEPT ![after[2]] = NULL]  BY <1>9 DEF Counted
    <2>3. after[2] \in stack \cup {Root} /\ after[3] \in stack \cup {NULL}  BY <1>3, <1>9 DEF AfterInv
    <2> DEFINE x == after[2]
               y == after[3]
    <2>4. /\ StoreRest(z, x, y) /\ x \in stack \cup {Root} /\ y \in stack \cup {NULL}
          /\ CountsAre(z.rc, alive \ z.sticky, [field EXCEPT ![x] = NULL])
      BY <1>8, <2>1, <2>2, <2>3
    <2> HIDE DEF x, y
    <2> QED  BY <1>1, <1>3, <1>7, <1>8, <2>4, StoreRestKeeps
  <1>10. CASE after[1] = "delete"
    <2>1. DeleteRest(z, after[2])  BY <1>2, <1>10
    <2>2. Counted = [field EXCEPT ![after[2]] = NULL]  BY <1>10 DEF Counted
    <2>3. after[2] \in stack /\ \A x \in Holders \ {after[2]} : field[x] # after[2]
      BY <1>3, <1>10 DEF AfterInv
    <2> DEFINE o == after[2]
    <2>4. /\ DeleteRest(z, o) /\ o \in stack /\ \A x \in Holders \ {o} : field[x] # o
          /\ CountsAre(z.rc, alive \ z.sticky, [field EXCEPT ![o] = NULL])
      BY <1>8, <2>1, <2>2, <2>3
    <2> HIDE DEF o
    <2> QED  BY <1>1, <1>3, <1>7, <1>8, <2>4, DeleteRestKeeps
  <1>11. CASE after[1] # "store" /\ after[1] # "delete"
    <2>1. Becomes(z) /\ UNCHANGED <<alive, field, stack>>  BY <1>2, <1>11
    <2>2. Counted = field  BY <1>11 DEF Counted
    <2>3. z \in Tables  BY <1>7 DEF TabInv
    <2>4. Table' = z /\ rc' = z.rc /\ sticky' = z.sticky  BY <2>1, <2>3, BecomesTable
    <2>5. HeapInv'  BY <1>1, <1>3, <1>5, <2>1 DEF HeapInv
    <2>6. CountsAre(rc', alive' \ sticky', field')  BY <1>8, <2>1, <2>2, <2>4
    <2>7. TabInv(Table', alive', <<>>) /\ ZeroKnown(Table', alive' \ condemned') /\ Unpinned(Table')
      BY <1>1, <1>7, <2>1, <2>4
    <2>8. phase' # "reap" /\ pins' = <<>> /\ adding' = NULL /\ after' = Nothing /\ Idle'  BY <1>1, <1>3
    <2> QED  BY <2>5, <2>6, <2>7, <2>8, Settle
  <1> QED  BY <1>9, <1>10, <1>11

\* The marks cover what the program can reach.
LEMMA SweepKeeps ==
  ASSUME IndInv, Sweep
  PROVE  IndInv'
  <1>1. /\ phase = "run" /\ phase' = "collect"
        /\ UNCHANGED <<alive, field, stack, tableVars, pins, adding, after, frame>>
    BY DEF Sweep
  <1>2. PICK M \in SUBSET alive : /\ stack \cup ({field[Root]} \ {NULL}) \subseteq M
                                  /\ \A o \in M : field[o] \in M \cup {NULL}
                                  /\ condemned' = alive \ M
    BY DEF Sweep
  <1>3. /\ pins = <<>> /\ adding = NULL /\ after = Nothing /\ Unpinned(Table)
        /\ TabInv(Table, alive, <<>>) /\ CountsAre(rc, alive \ sticky, field)
        /\ ZeroKnown(Table, alive \ condemned) /\ HeapInv
    BY <1>1, Calm
  <1>4. condemned = {} /\ alive \ condemned' = M  BY <1>1, <1>2, <1>3 DEF HeapInv
  <1>5. HeapInv'
    <2>1. \A x \in Holders \ condemned' : field[x] \in M \cup {NULL}
      <3> SUFFICES ASSUME NEW x \in Holders, x \notin alive \ M PROVE field[x] \in M \cup {NULL}
        BY <1>2
      <3>1. CASE x \in M  BY <1>2, <3>1
      <3>2. CASE x = Root  BY <1>2, <3>2
      <3>3. CASE x \in Objects \ alive  BY <1>3, <3>3 DEF HeapInv
      <3> QED  BY <3>1, <3>2, <3>3 DEF Holders
    <2> QED  BY <1>1, <1>2, <1>3, <1>4, <2>1 DEF HeapInv
  <1>6. Table' = Table /\ rc' = rc /\ sticky' = sticky  BY <1>1, SameTable
  <1>7. ZeroKnown(Table', alive' \ condemned')  BY <1>1, <1>2, <1>3, <1>4, <1>6 DEF ZeroKnown
  <1>8. phase' # "reap"  BY <1>1
  <1>9. Idle'  BY <1>1, StaysIdle DEF frame
  <1> QED  BY <1>1, <1>3, <1>5, <1>6, <1>7, <1>8, <1>9, Settle

\* The destructor of an unmarked object.
LEMMA FinalizeKeeps ==
  ASSUME IndInv, NEW o \in Objects, Finalize(o)
  PROVE  IndInv'
  <1>1. /\ phase = "collect" /\ o \in condemned /\ alive' = alive \ {o} /\ condemned' = condemned \ {o}
        /\ field' = [field EXCEPT ![o] = NULL] /\ UNCHANGED <<stack, pins, phase, adding, after, frame>>
    BY DEF Finalize
  <1>2. PICK z \in DecrementRef(Table, field[o], "collect") : Becomes(Destroyed(z, o))  BY DEF Finalize
  <1>3. /\ pins = <<>> /\ adding = NULL /\ after = Nothing /\ Unpinned(Table) /\ HeapInv
    BY <1>1, Calm
  <1>4. o \in Holders /\ phase # "reap" /\ o \in alive  BY <1>1, <1>3 DEF Holders, HeapInv
  <1>5. /\ TabInv(z, alive, <<>>) /\ CountsAre(z.rc, alive \ z.sticky, [field EXCEPT ![o] = NULL])
        /\ ZeroKnown(z, alive \ condemned) /\ Unpinned(z)
    <2>1. z \in DecrementRef(Table, field[o], phase)  BY <1>1, <1>2
    <2> QED  BY <1>4, <2>1, DropKeeps
  <1> DEFINE w == Destroyed(z, o)
  <1>6. Removable(z, alive, <<>>, o)  BY <1>4, <1>5 DEF Removable
  <1>7. TabInv(w, alive \ {o}, <<>>) /\ Without(z, w, o)  BY ONLY <1>6, DestroyedKeeps
  <1> HIDE DEF w
  <1>8. /\ w.sticky = z.sticky \ {o} /\ \A p \in Objects \ {o} : w.rc[p] = z.rc[p]
        /\ ZeroKnown(w, (alive \ condemned) \ {o}) /\ Unpinned(w)
    BY <1>5, <1>7 DEF Without
  <1>9. w \in Tables /\ Becomes(w)  BY <1>2, <1>7 DEF TabInv, w
  <1>10. Table' = w /\ rc' = w.rc /\ sticky' = w.sticky  BY <1>9, BecomesTable
  <1>11. alive' \ condemned' = alive \ condemned /\ (alive \ condemned) \ {o} = alive \ condemned
    BY <1>1
  <1>12. HeapInv'
    <2>1. field \in [Holders -> Values] /\ NULL \in Values  BY <1>3 DEF HeapInv, Values
    <2>2. field' \in [Holders -> Values] /\ field'[o] = NULL /\ \A x \in Holders \ {o} : field'[x] = field[x]
      BY <1>1, <1>4, <2>1
    <2>3. \A x \in Holders \ condemned' : field'[x] \in (alive \ condemned) \cup {NULL}
      BY <1>1, <1>3, <2>2 DEF HeapInv
    <2>4. \A q \in Objects \ alive' : field'[q] = NULL  BY <1>1, <1>3, <2>2 DEF HeapInv, Holders
    <2>5. alive' \subseteq Objects /\ condemned' \subseteq alive' /\ stack \subseteq alive \ condemned
      BY <1>1, <1>3 DEF HeapInv
    <2> QED  BY <1>1, <1>11, <2>2, <2>3, <2>4, <2>5 DEF HeapInv
  <1>13. CountsAre(rc', alive' \ sticky', field')
    <2>1. alive \in SUBSET Objects  BY <1>5 DEF TabInv
    <2>2. \A p \in alive' \ sticky' : p \in alive \ z.sticky /\ rc'[p] = z.rc[p]
      BY <1>1, <1>8, <1>10, <2>1
    <2> QED  BY <1>1, <1>5, <2>2 DEF CountsAre
  <1>14. TabInv(Table', alive', <<>>) /\ ZeroKnown(Table', alive' \ condemned') /\ Unpinned(Table')
    BY <1>1, <1>7, <1>8, <1>10, <1>11
  <1>15. Idle'  BY <1>1, StaysIdle
  <1> QED  BY <1>1, <1>3, <1>4, <1>12, <1>13, <1>14, <1>15, Settle

LEMMA EndCollectingKeeps ==
  ASSUME IndInv, EndCollecting
  PROVE  IndInv'
  <1>1. /\ phase = "collect" /\ condemned = {} /\ phase' = "run"
        /\ UNCHANGED <<alive, field, stack, tableVars, pins, condemned, adding, after, frame>>
    BY DEF EndCollecting
  <1>2. /\ pins = <<>> /\ adding = NULL /\ after = Nothing /\ Unpinned(Table)
        /\ TabInv(Table, alive, <<>>) /\ CountsAre(rc, alive \ sticky, field)
        /\ ZeroKnown(Table, alive \ condemned) /\ HeapInv
    BY <1>1, Calm
  <1>3. HeapInv'  BY <1>1, <1>2 DEF HeapInv
  <1>4. Table' = Table /\ rc' = rc /\ sticky' = sticky  BY <1>1, SameTable
  <1>5. phase' # "reap"  BY <1>1
  <1>6. Idle'  BY <1>1, StaysIdle
  <1> QED  BY <1>1, <1>2, <1>3, <1>4, <1>5, <1>6, Settle
-----------------------------------------------------------------------------
(***************************************************************************)
(* Theorems.                                                               *)
(***************************************************************************)
LEMMA InitInv == Init => IndInv
  <1> SUFFICES ASSUME Init PROVE IndInv  OBVIOUS
  <1>1. /\ alive = {} /\ stack = {} /\ field = [x \in Holders |-> NULL] /\ condemned = {} /\ phase = "run"
        /\ rc = [o \in Objects |-> 0] /\ idx = [o \in Objects |-> 0]
        /\ sticky = {} /\ pinned = {} /\ missed = {} /\ zct = <<>> /\ segs = 1 /\ budget = 0
        /\ pins = <<>> /\ adding = NULL /\ after = Nothing /\ running = NULL /\ locals = {}
    BY DEF Init
  <1>2. <<>> \in Seq(Values) /\ Len(<<>>) = 0 /\ DOMAIN (<<>>) = {}  BY EmptySeq
  <1>3. HeapInv  BY <1>1 DEF HeapInv, Values, Holders
  <1>4. AfterInv /\ AddInv
    <2>1. Nothing \in Afters  BY DEF Afters
    <2> QED  BY <1>1, <1>2, <2>1 DEF AfterInv, AddInv, Nothing
  <1>5. Table \in Tables
    <2>1. segs \in Nat \ {0} /\ budget \in 0..1  BY <1>1
    <2> QED  BY <1>1, <1>2, <2>1 DEF Table, Tables
  <1>6. Fit(Len(zct), segs)
    <2>1. SegCap \in Nat  BY ZCTAssumption
    <2> QED  BY <1>1, <1>2, <2>1 DEF Fit
  <1>7. \A o \in Objects : rc[o] = 0 /\ idx[o] = 0  BY <1>1
  <1>8. 0 < StickyAt /\ 0 <= StickyAt  BY ZCTAssumption
  <1>9. TabInv(Table, alive, pins)
    <2>1. Entries(zct, idx, alive) /\ Entries(pins, idx, alive)  BY <1>1, <1>2 DEF Entries
    <2> QED  BY <1>1, <1>2, <1>5, <1>6, <1>7, <1>8, <2>1, TableFields DEF TabInv
  <1>10. PinInv
    <2>1. Unpinned(Table)  BY <1>1, TableFields DEF Unpinned
    <2> QED  BY <1>1, <1>2, <2>1 DEF PinInv
  <1>11. CountsAre(rc, alive \ sticky, Counted) /\ ZeroKnown(Table, alive \ (condemned \cup {adding, running}))
    BY <1>1 DEF CountsAre, ZeroKnown
  <1>12. FrameInv  BY <1>1, ZCTAssumption DEF FrameInv, Nothing
  <1> QED  BY <1>3, <1>4, <1>9, <1>10, <1>11, <1>12 DEF IndInv

LEMMA StutterKeeps == IndInv /\ UNCHANGED vars => IndInv'
  <1> SUFFICES ASSUME IndInv, UNCHANGED vars PROVE IndInv'  OBVIOUS
  <1>1. /\ UNCHANGED <<alive, field, stack, pins, phase, condemned, adding, after, running, locals>>
        /\ UNCHANGED tableVars
    BY DEF vars, frame
  <1>2. Table' = Table /\ rc' = rc /\ sticky' = sticky /\ idx' = idx /\ pinned' = pinned  BY <1>1, SameTable
  <1>3. /\ HeapInv /\ AfterInv /\ AddInv /\ PinInv /\ FrameInv /\ TabInv(Table, alive, pins)
        /\ CountsAre(rc, alive \ sticky, Counted) /\ ZeroKnown(Table, alive \ (condemned \cup {adding, running}))
    BY DEF IndInv
  <1>4. HeapInv'  BY <1>1, <1>3 DEF HeapInv
  <1>5. AfterInv'  BY <1>1, <1>3 DEF AfterInv
  <1>6. AddInv'  BY <1>1, <1>2, <1>3 DEF AddInv
  <1>7. PinInv'  BY <1>1, <1>2, <1>3 DEF PinInv, Sits, Unpinned
  <1>8. Counted' = Counted  BY <1>1 DEF Counted
  <1>9. /\ TabInv(Table', alive', pins') /\ CountsAre(rc', alive' \ sticky', Counted')
        /\ ZeroKnown(Table', alive' \ (condemned' \cup {adding', running'}))
    BY <1>1, <1>2, <1>3, <1>8
  <1>10. FrameInv'  BY <1>1, <1>2, <1>3 DEF FrameInv
  <1> QED  BY <1>4, <1>5, <1>6, <1>7, <1>9, <1>10, Assemble

LEMMA NextInv == Careful /\ IndInv /\ [Next]_vars => IndInv'
  <1> SUFFICES ASSUME Careful, IndInv, [Next]_vars PROVE IndInv'  OBVIOUS
  <1>1. ASSUME NEW o \in Objects, NewObject(o) PROVE IndInv'  BY <1>1, NewObjectKeeps
  <1>2. ASSUME NEW o \in Objects, Forget(o) PROVE IndInv'  BY <1>2, LoadKeeps
  <1>3. ASSUME NEW o \in Objects, Delete(o) PROVE IndInv'  BY <1>3, DeleteKeeps
  <1>4. ASSUME NEW o \in Objects, Stick(o) PROVE IndInv'  BY <1>4, StickStepKeeps
  <1>5. ASSUME NEW x \in Holders, Load(x) PROVE IndInv'  BY <1>5, LoadKeeps
  <1>6. ASSUME NEW x \in Holders, NEW v \in Objects \cup {NULL}, Store(x, v) PROVE IndInv'
    BY <1>6, StoreKeeps
  <1>7. ASSUME NEW o \in Objects, Finalize(o) PROVE IndInv'  BY <1>7, FinalizeKeeps
  <1>8. Program => IndInv'  BY <1>1, <1>2, <1>3, <1>4, <1>5, <1>6 DEF Program
  <1>9. ReapStep => IndInv'
    BY PopNullKeeps, PinObjectKeeps, ReapObjectKeeps, DestroyObjectKeeps, CallbackReturnsKeeps, EndReapKeeps
    DEF ReapStep
  <1>10. ASSUME NEW o \in Objects, DestructorNew(o) PROVE IndInv'  BY <1>10, DestructorNewKeeps
  <1>11. ASSUME NEW x \in Holders, DestructorLoad(x) PROVE IndInv'  BY <1>11, DestructorLoadKeeps
  <1>12. ASSUME NEW x \in Holders, NEW v \in Objects \cup {NULL}, DestructorStore(x, v) PROVE IndInv'
    BY <1>12, DestructorStoreKeeps
  <1>13. CodeInReap => IndInv'  BY <1>10, <1>11, <1>12 DEF CodeInReap
  <1>14. Collection => IndInv'  BY <1>7, SweepKeeps, EndCollectingKeeps DEF Collection
  <1> QED  BY <1>8, <1>9, <1>13, <1>14, ReapZCTKeeps, StutterKeeps DEF Next

\* Every state of deferred reference counting satisfies the inductive invariant, if the
\* code that a reap calls keeps out of its way.
THEOREM Invariance == Careful => (Spec => []IndInv)
  <1> SUFFICES ASSUME Careful PROVE Spec => []IndInv  OBVIOUS
  <1>1. IndInv /\ [Next]_vars => IndInv'  BY NextInv
  <1> QED  BY <1>1, InitInv, PTL DEF Spec

\* The count of an object that is not sticky is the number of counted fields that point
\* to it, whatever reap or sweep runs in the middle of a store or delete, and whatever
\* careful code allocates, loads and stores inside the reap.
THEOREM CountExactHolds == Careful => (Spec => []CountExact)
  <1> SUFFICES ASSUME Careful PROVE Spec => []CountExact  OBVIOUS
  <1>1. IndInv => CountExact
    <2> SUFFICES ASSUME IndInv, NEW o \in alive \ sticky
                 PROVE  rc[o] = Cardinality(References(o)) - BeingDropped(o)
      BY DEF CountExact
    <2>1. HeapInv /\ AfterInv /\ rc[o] = Cardinality(Refs(Counted, o))  BY DEF IndInv, CountsAre
    <2>2. References(o) = Refs(field, o) /\ Cardinality(Refs(field, o)) \in Nat
      BY RefsFinite DEF References, Refs
    <2>3. o \in Objects /\ o # NULL  BY <2>1, ZCTAssumption DEF HeapInv
    <2>4. CASE after[1] \in {"store", "delete"}
      <3>1. Counted = [field EXCEPT ![after[2]] = NULL] /\ field[after[2]] = adding
        BY <2>1, <2>4 DEF Counted, AfterInv
      <3>2. after[2] \in Holders /\ field \in [Holders -> Values]
        BY <2>1, <2>4 DEF HeapInv, AfterInv, Holders
      <3>3. Clears(field, after[2], Counted)  BY <3>1, <3>2 DEF Clears
      <3>4. /\ adding = o => Cardinality(Refs(field, o)) = Cardinality(Refs(Counted, o)) + 1
            /\ adding # o => Cardinality(Refs(Counted, o)) = Cardinality(Refs(field, o))
        BY <2>3, <3>1, <3>3, CountDrop
      <3>5. Cardinality(Refs(Counted, o)) \in Nat  BY RefsFinite
      <3> QED  BY <2>1, <2>2, <2>4, <3>4, <3>5 DEF BeingDropped
    <2>5. CASE ~(after[1] \in {"store", "delete"})
      BY <2>1, <2>2, <2>5 DEF Counted, BeingDropped
    <2> QED  BY <2>4, <2>5
  <1>2. Spec => []IndInv  BY Invariance
  <1> QED  BY <1>1, <1>2, PTL

\* An object with count zero is known to the next reap, unless the table had no room for it,
\* if the code that a reap calls keeps out of its way.
THEOREM ZeroListedHolds == Careful => (Spec => []ZeroListed)
  <1> SUFFICES ASSUME Careful PROVE Spec => []ZeroListed  OBVIOUS
  <1>1. IndInv => ZeroListed
    <2> SUFFICES ASSUME IndInv PROVE ZeroListed  OBVIOUS
    <2>1. alive \subseteq Objects /\ ZeroKnown(Table, alive \ (condemned \cup {adding, running}))
      BY DEF IndInv, HeapInv
    <2> QED  BY <2>1, TableFields DEF ZeroListed, ZeroKnown
  <1>2. Spec => []IndInv  BY Invariance
  <1> QED  BY <1>1, <1>2, PTL
-----------------------------------------------------------------------------
(***************************************************************************)
(* The bounds of the table.  GrowPinningMemory does not ask whether the    *)
(* table may grow, and the link of each block of the pin list takes an     *)
(* entry: the bound holds where all objects, pinned, would fit.            *)
(***************************************************************************)
PinListFits == Cardinality(Objects) <= MaxSegs * (SegCap - 1)

\* The table of w has as many blocks as that of z.
SameSegs(z, w) == "segs" \in DOMAIN w /\ w.segs = z.segs

LEMMA SegsKept ==
  ASSUME NEW z, "segs" \in DOMAIN z, NEW o
  PROVE  /\ SameSegs(z, RemoveIfListed(z, o)) /\ SameSegs(z, IncrementRef(z, o))
         /\ SameSegs(z, Destroyed(z, o)) /\ SameSegs(z, Stuck(z, o))
  <1>1. ASSUME NEW y, "segs" \in DOMAIN y PROVE SameSegs(y, RemoveIfListed(y, o))
    BY <1>1 DEF SameSegs, RemoveIfListed, RemoveFromZCT
  <1>2. ASSUME NEW y, SameSegs(z, y) PROVE SameSegs(z, RemoveIfListed(y, o))
    BY <1>1, <1>2 DEF SameSegs
  <1>3. SameSegs(z, RemoveIfListed(z, o))  BY <1>1
  <1>4. SameSegs(z, IncrementRef(z, o))
    <2> DEFINE d == [z EXCEPT !.rc[o] = @ + 1, !.missed = @ \ {o}]
    <2>1. SameSegs(z, d)  BY DEF SameSegs
    <2>2. SameSegs(z, [d EXCEPT !.sticky = @ \cup {o}])
      <3> HIDE DEF d
      <3> QED  BY <2>1 DEF SameSegs
    <2>3. SameSegs(z, RemoveIfListed(d, o))  BY <1>2, <2>1
    <2>4. SameSegs(z, z)  BY DEF SameSegs
    <2> QED  BY <2>2, <2>3, <2>4 DEF IncrementRef
  <1> DEFINE r == RemoveIfListed(z, o)
  <1>5. SameSegs(z, [r EXCEPT !.rc[o] = 0, !.sticky = @ \ {o}, !.pinned = @ \ {o}, !.missed = @ \ {o}])
    <2>1. SameSegs(z, r)  BY <1>3
    <2> HIDE DEF r
    <2> QED  BY <2>1 DEF SameSegs
  <1>6. SameSegs(z, [r EXCEPT !.sticky = @ \cup {o}, !.missed = @ \ {o}])
    <2>1. SameSegs(z, r)  BY <1>3
    <2> HIDE DEF r
    <2> QED  BY <2>1 DEF SameSegs
  <1> QED  BY <1>3, <1>4, <1>5, <1>6 DEF Destroyed, Stuck

\* AddSlow keeps to ZCT_CAPACITY.
LEMMA AddSegs ==
  ASSUME NEW A, NEW ps, NEW z, TabInv(z, A, ps), NEW o \in Objects, NEW mode, NEW w \in Add(z, o, mode),
         z.segs <= MaxSegs
  PROVE  w.segs <= MaxSegs
  <1>1. z \in Tables /\ o \in Objects /\ z.segs \in Nat \ {0} /\ Len(z.zct) \in Nat /\ Fit(Len(z.zct), z.segs)
    <2>1. A \in SUBSET Objects /\ Fit(Len(z.zct), z.segs)  BY DEF TabInv
    <2> QED  BY <2>1, TabFacts
  <1>2. CASE w = Miss(z, o)  BY <1>1, <1>2, MissFields
  <1>3. CASE w = Enter(z, o, mode)  BY <1>1, <1>3, EnterFields
  <1>4. CASE w = Enter(Grow(z), o, mode) /\ ~Room(z) /\ CanGrow(z)
    <2> DEFINE y == Grow(z)
    <2>1. y \in Tables /\ y.segs = z.segs + 1 /\ w = Enter(y, o, mode)  BY <1>1, <1>4, GrowFields
    <2> HIDE DEF y
    <2>2. w.segs = z.segs + 1
      <3>1. y \in Tables /\ o \in Objects /\ w = Enter(y, o, mode)  BY <2>1
      <3>2. w.segs = y.segs  BY ONLY <3>1, EnterFields
      <3> QED  BY <2>1, <3>2
    <2>3. Len(z.zct) = z.segs * SegCap /\ Len(z.zct) + SegCap <= MaxSegs * SegCap
      BY <1>1, <1>4, FitFacts DEF Room, CanGrow
    <2>4. z.segs + 1 <= MaxSegs
      <3> DEFINE s == z.segs
      <3>1. s \in Nat /\ SegCap \in Nat /\ SegCap >= 2 /\ MaxSegs \in Nat  BY <1>1, ZCTAssumption
      <3>2. s * SegCap + SegCap <= MaxSegs * SegCap  BY <2>3
      <3> HIDE DEF s
      <3>3. CASE s >= MaxSegs
        <4>1. PICK d \in Nat : s = MaxSegs + d  BY <3>1, <3>3
        <4>2. s * SegCap = MaxSegs * SegCap + d * SegCap /\ d * SegCap \in Nat /\ MaxSegs * SegCap \in Nat
          BY <3>1, <4>1
        <4> QED  BY <3>1, <3>2, <4>2
      <3> QED  BY <3>1, <3>3 DEF s
    <2> QED  BY <2>2, <2>4
  <1> QED  BY <1>2, <1>3, <1>4 DEF Add

LEMMA DecrementRefSegs ==
  ASSUME NEW ps, NEW z, TabInv(z, alive, ps), NEW o, NEW mode, NEW w \in DecrementRef(z, o, mode),
         z.segs <= MaxSegs
  PROVE  w.segs <= MaxSegs
  <1>1. CASE ~Counts(z, o)
    <2>1. w = z  BY <1>1 DEF DecrementRef
    <2> QED  BY <2>1
  <1>2. CASE Counts(z, o)
    <2>1. o \in alive /\ z.rc[o] > 0 /\ z \in Tables /\ alive \in SUBSET Objects  BY <1>2 DEF Counts, TabInv
    <2>2. Decrement(z, o).segs = z.segs  BY <2>1, DecrementFields
    <2>3. TabInv(Decrement(z, o), alive, ps) /\ z.idx[o] = 0  BY <2>1, DecrementKeeps
    <2>4. CASE z.rc[o] > 1  BY <1>2, <2>2, <2>4 DEF DecrementRef
    <2>5. CASE ~(z.rc[o] > 1)
      <3>1. w \in Add(Decrement(z, o), o, mode)  BY <1>2, <2>5 DEF DecrementRef
      <3> DEFINE y == Decrement(z, o)
      <3>2. TabInv(y, alive, ps) /\ o \in Objects /\ w \in Add(y, o, mode) /\ y.segs <= MaxSegs
        BY <2>1, <2>2, <2>3, <3>1
      <3> HIDE DEF y
      <3> QED  BY <3>2, AddSegs
    <2> QED  BY <2>4, <2>5
  <1> QED  BY <1>1, <1>2

\* Blocks of the pin list: b of them hold k objects and n entries.
Blocks(n, k, b) == n = k + b /\ n <= b * SegCap /\ (b # 0 => (b - 1) * SegCap + 2 <= n)

LEMMA BlocksFit ==
  ASSUME NEW n \in Nat, NEW k \in Nat, NEW b \in Nat, Blocks(n, k, b), k <= MaxSegs * (SegCap - 1)
  PROVE  n <= MaxSegs * SegCap
  <1> DEFINE c == SegCap
             m == MaxSegs
  <1>1. c \in Nat /\ c >= 2 /\ m \in Nat /\ m >= 1  BY ZCTAssumption
  <1>2. n = k + b /\ n <= b * c /\ (b # 0 => (b - 1) * c + 2 <= n) /\ k <= m * (c - 1)  BY DEF Blocks
  <1> HIDE DEF c, m
  <1>3. b <= m
    <2> SUFFICES ASSUME b > m PROVE FALSE  BY <1>1
    <2>1. PICK d \in Nat : b = m + 1 + d  BY <1>1
    <2>2. /\ (b - 1) * c = m * c + d * c /\ m * (c - 1) = m * c - m /\ d * c \in Nat /\ m * c \in Nat
          /\ d * c >= d
      <3>1. PICK e \in Nat : c = 1 + e  BY <1>1
      <3>2. d * c = d + d * e /\ d * e \in Nat  BY <3>1
      <3>3. (b - 1) * c = m * c + d * c /\ m * (c - 1) = m * c - m /\ d * c \in Nat /\ m * c \in Nat
        <4>1. b - 1 = m + d  BY <1>1, <2>1
        <4>2. (m + d) * c = m * c + d * c /\ m * (c - 1) = m * c - m  BY <1>1
        <4> QED  BY <1>1, <4>1, <4>2
      <3> QED  BY <3>2, <3>3
    <2>3. b # 0  BY <1>1, <2>1
    <2> QED  BY <1>1, <1>2, <2>1, <2>2, <2>3
  <1>4. b * c <= m * c
    <2>1. PICK d \in Nat : m = b + d  BY <1>1, <1>3
    <2>2. m * c = b * c + d * c /\ d * c \in Nat /\ b * c \in Nat  BY <1>1, <2>1
    <2> QED  BY <2>2
  <1>5. b * c \in Nat /\ m * c \in Nat  BY <1>1
  <1> QED  BY <1>2, <1>4, <1>5 DEF c, m

\* PinObject adds an object, and a link where the last block is full.
LEMMA BlocksGrow ==
  ASSUME NEW n \in Nat, NEW k \in Nat, NEW b \in Nat, Blocks(n, k, b)
  PROVE  /\ n % SegCap = 0 => Blocks(n + 2, k + 1, b + 1)
         /\ n % SegCap # 0 => Blocks(n + 1, k + 1, b)
  <1> DEFINE c == SegCap
             q == n \div c
             r == n % c
  <1>1. c \in Nat /\ c >= 2  BY ZCTAssumption
  <1>2. n = c * q + r /\ r \in 0..(c - 1) /\ q \in Int  BY <1>1
  <1>3. n = k + b /\ n <= b * c /\ (b # 0 => (b - 1) * c + 2 <= n)  BY DEF Blocks
  <1> HIDE DEF c, q, r
  <1>4. /\ (b - 1) * c = b * c - c /\ (b + 1) * c = b * c + c /\ ((b + 1) - 1) * c = b * c /\ b * c \in Nat
        /\ c * q = q * c
    BY <1>1, <1>2
  <1>5. CASE r = 0
    <2>1. n = b * c
      <3>1. CASE b = 0  BY <1>1, <1>3, <1>4, <3>1
      <3>2. CASE b # 0
        <4>1. q = b
          <5>1. CASE q < b
            <6>1. PICK d \in Nat : b = q + 1 + d  BY <1>2, <5>1
            <6>2. b * c = q * c + c + d * c /\ d * c \in Nat  BY <1>1, <1>2, <6>1
            <6> QED  BY <1>1, <1>2, <1>3, <1>4, <1>5, <3>2, <6>2
          <5>2. CASE q > b
            <6>1. PICK d \in Nat : q = b + 1 + d  BY <1>2, <5>2
            <6>2. q * c = b * c + c + d * c /\ d * c \in Nat  BY <1>1, <1>2, <6>1
            <6> QED  BY <1>1, <1>2, <1>3, <1>4, <1>5, <6>2
          <5> QED  BY <1>2, <5>1, <5>2
        <4> QED  BY <1>2, <1>4, <1>5, <4>1
      <3> QED  BY <3>1, <3>2
    <2>2. n + 2 = (k + 1) + (b + 1) /\ n + 2 <= (b + 1) * c /\ ((b + 1) - 1) * c + 2 <= n + 2
      BY <1>1, <1>3, <1>4, <2>1
    <2> QED  BY <1>5, <2>2 DEF Blocks, c, r
  <1>6. CASE r # 0
    <2>1. n # b * c
      <3> SUFFICES ASSUME n = b * c PROVE FALSE  OBVIOUS
      <3>1. CASE q < b
        <4>1. PICK d \in Nat : b = q + 1 + d  BY <1>2, <3>1
        <4>2. b * c = q * c + c + d * c /\ d * c \in Nat  BY <1>1, <1>2, <4>1
        <4> QED  BY <1>1, <1>2, <1>4, <4>2
      <3>2. CASE q >= b
        <4>1. PICK d \in Nat : q = b + d  BY <1>2, <3>2
        <4>2. q * c = b * c + d * c /\ d * c \in Nat  BY <1>1, <1>2, <4>1
        <4> QED  BY <1>1, <1>2, <1>4, <1>6, <4>2
      <3> QED  BY <1>2, <3>1, <3>2
    <2>2. n + 1 = (k + 1) + b /\ n + 1 <= b * c /\ (b # 0 => (b - 1) * c + 2 <= n + 1)
      BY <1>1, <1>3, <1>4, <2>1
    <2> QED  BY <1>6, <2>2 DEF Blocks, c, r
  <1> QED  BY <1>5, <1>6 DEF c, r

\* The blocks of the table and of the pin list.
Pinned == Range(pins) \ {NULL}
BoundInv == segs <= MaxSegs /\ \E b \in Nat : Blocks(Len(pins), Cardinality(Pinned), b)

LEMMA PinnedCount ==
  ASSUME IndInv
  PROVE  /\ pins \in Seq(Values) /\ Len(pins) \in Nat /\ IsFiniteSet(Pinned) /\ Cardinality(Pinned) \in Nat
         /\ Cardinality(Pinned) <= Cardinality(Objects) /\ Cardinality(Objects) \in Nat
  <1>1. pins \in Seq(Values)  BY DEF IndInv, AfterInv
  <1>2. Len(pins) \in Nat /\ DOMAIN pins = 1..Len(pins)  BY <1>1, LenProperties
  <1>3. \A i \in DOMAIN pins : pins[i] \in Values  BY <1>1, <1>2, ElementOfSeq
  <1>4. Pinned \subseteq Objects  BY <1>3 DEF Pinned, Range, Values
  <1>5. IsFiniteSet(Objects)  BY ZCTAssumption
  <1> QED  BY <1>1, <1>2, <1>4, <1>5, FS_Subset, FS_CardinalityType

\* The pin list is no longer than the table may be.
LEMMA PinsFit ==
  ASSUME IndInv, BoundInv, PinListFits
  PROVE  Len(pins) <= MaxSegs * SegCap
  <1>1. /\ Len(pins) \in Nat /\ Cardinality(Pinned) \in Nat
        /\ Cardinality(Pinned) <= Cardinality(Objects) /\ Cardinality(Objects) \in Nat
    BY PinnedCount
  <1>2. PICK b \in Nat : Blocks(Len(pins), Cardinality(Pinned), b)  BY DEF BoundInv
  <1>3. MaxSegs * (SegCap - 1) \in Nat
    <2>1. SegCap - 1 \in Nat /\ MaxSegs \in Nat  BY ZCTAssumption
    <2> QED  BY <2>1
  <1>4. Cardinality(Pinned) <= MaxSegs * (SegCap - 1)  BY <1>1, <1>3 DEF PinListFits
  <1> QED  BY <1>1, <1>2, <1>4, BlocksFit

LEMMA BoundFrom ==
  ASSUME BoundInv, segs' <= MaxSegs, pins' = pins \/ pins' = <<>>
  PROVE  BoundInv'
  <1>1. CASE pins' = pins  BY <1>1 DEF BoundInv, Pinned
  <1>2. CASE pins' = <<>>
    <2>1. Pinned' = {} /\ Len(pins') = 0  BY <1>2, EmptySeq DEF Pinned, Range
    <2>2. Cardinality(Pinned') = 0  BY <2>1, FS_EmptySet
    <2>3. Blocks(0, 0, 0)
      <3>1. SegCap \in Nat  BY ZCTAssumption
      <3> QED  BY <3>1 DEF Blocks
    <2>4. 0 \in Nat /\ Blocks(Len(pins'), Cardinality(Pinned'), 0)  BY <2>1, <2>2, <2>3
    <2>5. \E b \in Nat : Blocks(Len(pins'), Cardinality(Pinned'), b)  BY <2>4
    <2> QED  BY <2>5 DEF BoundInv
  <1> QED  BY <1>1, <1>2

\* A reap begins with the table as it is.
LEMMA BeginReapBound ==
  ASSUME BoundInv, NEW z, NEW o, NEW op, BeginReap(z, o, op), z \in Tables, z.segs <= MaxSegs
  PROVE  BoundInv'
  <1>1. PICK P : Becomes([z EXCEPT !.pinned = @ \cup P])  BY DEF BeginReap
  <1>2. segs' = z.segs /\ pins' = <<>>  BY <1>1 DEF BeginReap, Becomes, Tables
  <1> QED  BY <1>2, BoundFrom

LEMMA StoreRestBound ==
  ASSUME BoundInv, NEW z, z \in Tables, z.segs <= MaxSegs, pins' = pins \/ pins' = <<>>,
         NEW x, NEW v, StoreRest(z, x, v) \/ DeleteRest(z, x)
  PROVE  BoundInv'
  <1>1. "segs" \in DOMAIN z  BY DEF Tables
  <1>2. /\ SameSegs(z, IncrementRef(z, v)) /\ SameSegs(z, Destroyed(z, x))  BY <1>1, SegsKept
  <1>3. segs' = z.segs  BY <1>2 DEF StoreRest, DeleteRest, Becomes, SameSegs
  <1> QED  BY <1>3, BoundFrom

\* The drop of a store or delete, with a reap or without.
LEMMA DropBound ==
  ASSUME IndInv, BoundInv, NEW o, NEW x, NEW v, NEW op,
         \/ DropReaps(o) /\ BeginReap(Decrement(Table, o), o, op)
         \/ /\ \E z \in DecrementRef(Table, o, phase) : StoreRest(z, x, v) \/ DeleteRest(z, x)
            /\ pins' = pins
  PROVE  BoundInv'
  <1>0. TabInv(Table, alive, pins) /\ alive \in SUBSET Objects /\ Table.segs <= MaxSegs
    BY TableFields DEF IndInv, BoundInv, TabInv
  <1>1. CASE DropReaps(o) /\ BeginReap(Decrement(Table, o), o, op)
    <2>1. o \in Objects /\ Table.rc[o] > 0 /\ Table \in Tables  BY <1>0, <1>1 DEF DropReaps, Counts, TabInv
    <2> DEFINE z == Decrement(Table, o)
    <2>2. z \in Tables /\ z.segs = Table.segs  BY <2>1, DecrementFields
    <2>3. BeginReap(z, o, op)  BY <1>1
    <2> HIDE DEF z
    <2> QED  BY <1>0, <2>2, <2>3, BeginReapBound
  <1>2. CASE /\ \E z \in DecrementRef(Table, o, phase) : StoreRest(z, x, v) \/ DeleteRest(z, x)
             /\ pins' = pins
    <2>1. PICK z \in DecrementRef(Table, o, phase) : StoreRest(z, x, v) \/ DeleteRest(z, x)  BY <1>2
    <2>2. z.segs <= MaxSegs  BY <1>0, DecrementRefSegs
    <2>3. z \in Tables
      <3>1. CASE Counts(Table, o)
        <4>1. o \in Values  BY <1>0, <3>1 DEF Counts, Values
        <4>2. TabInv(z, alive, pins)  BY <1>0, <4>1, DecrementRefKeeps
        <4> QED  BY <4>2 DEF TabInv
      <3>2. CASE ~Counts(Table, o)  BY <1>0, <3>2 DEF DecrementRef, TabInv
      <3> QED  BY <3>1, <3>2
    <2> QED  BY <1>2, <2>1, <2>2, <2>3, StoreRestBound
  <1> QED  BY <1>1, <1>2

LEMMA NewObjectBound ==
  ASSUME IndInv, BoundInv, NEW o \in Objects, NewObject(o)
  PROVE  BoundInv'
  <1>0. TabInv(Table, alive, pins) /\ Table \in Tables /\ Table.segs <= MaxSegs
    BY TableFields DEF IndInv, BoundInv, TabInv
  <1>1. CASE MustReap(Table)
    <2>1. BeginReap(Table, o, <<"new", NULL, NULL>>)  BY <1>1 DEF NewObject
    <2> QED  BY <1>0, <2>1, BeginReapBound
  <1>2. CASE ~MustReap(Table)
    <2>1. PICK z \in Add(Table, o, phase) : Becomes(z)  BY <1>2 DEF NewObject
    <2>2. z.segs <= MaxSegs  BY <1>0, AddSegs
    <2>3. segs' = z.segs /\ pins' = pins  BY <1>2, <2>1 DEF NewObject, Becomes
    <2> QED  BY <2>2, <2>3, BoundFrom
  <1> QED  BY <1>1, <1>2

\* PinObject: the blocks grow with the list.
LEMMA PinObjectBound ==
  ASSUME IndInv, BoundInv, PinObject
  PROVE  BoundInv'
  <1> DEFINE o == Last(zct)
             list == IF Len(pins) % SegCap = 0 THEN Append(pins, NULL) ELSE pins
  <1>0. /\ TabInv(Table, alive, pins) /\ segs \in Nat /\ MaxSegs \in Nat /\ segs <= MaxSegs
        /\ pinned \subseteq alive /\ alive \in SUBSET Objects
    <2>1. TabInv(Table, alive, pins)  BY DEF IndInv
    <2>2. Table.segs \in Nat \ {0}  BY <2>1, TabFacts
    <2> QED  BY <2>1, <2>2, TableFields, ZCTAssumption DEF TabInv, BoundInv
  <1>1. /\ phase = "reap" /\ zct # <<>> /\ o \in pinned
        /\ \/ /\ pins' = Append(list, o)
              /\ Becomes([Popped EXCEPT !.idx[o] = Len(list) + 1, !.pinned = @ \ {o}])
           \/ pins' = pins /\ Becomes([Miss(Popped, o) EXCEPT !.idx[o] = 0])
    BY DEF PinObject, Reaping
  <1>2. /\ Popped \in Tables
        /\ Popped.segs = IF Len(zct) = (segs - 1) * SegCap THEN segs - 1 ELSE segs
    BY <1>0, <1>1, PoppedFields
  <1>3. o # NULL /\ o \in Objects /\ ~Sits(pins, idx, o)
    <2>1. o # NULL  BY <1>0, <1>1, ZCTAssumption
    <2> QED  BY <1>1, <2>1, LastEntry
  <1>4. segs' = Popped.segs  BY <1>1, <1>2 DEF Becomes, Miss, Tables
  <1>5. segs' <= MaxSegs  BY <1>0, <1>2, <1>4
  <1>6. CASE pins' = pins  BY <1>5, <1>6, BoundFrom
  <1>7. CASE pins' = Append(list, o)
    <2>1. /\ pins \in Seq(Values) /\ Len(pins) \in Nat /\ IsFiniteSet(Pinned) /\ Cardinality(Pinned) \in Nat
      BY PinnedCount
    <2>2. DOMAIN pins = 1..Len(pins) /\ NULL \in Values /\ o \in Values
      BY <1>3, <2>1, LenProperties DEF Values
    <2>3. PICK b \in Nat : Blocks(Len(pins), Cardinality(Pinned), b)  BY DEF BoundInv
    <2>4. o \notin Pinned
      <3> SUFFICES ASSUME NEW i \in DOMAIN pins, pins[i] = o PROVE FALSE  BY DEF Pinned, Range
      <3>1. Entries(pins, idx, alive)  BY <1>0, TableFields DEF TabInv
      <3>2. idx[o] = i  BY <1>3, <3>1 DEF Entries
      <3> QED  BY <1>3, <3>2 DEF Sits
    <2> HIDE DEF o
    <2>5. ASSUME NEW s \in Seq(Values), NEW e \in Values
          PROVE  Range(Append(s, e)) = Range(s) \cup {e}
      <3>1. /\ Append(s, e) \in Seq(Values) /\ Len(Append(s, e)) = Len(s) + 1 /\ Len(s) \in Nat
            /\ Append(s, e)[Len(s) + 1] = e /\ \A i \in 1..Len(s) : Append(s, e)[i] = s[i]
        BY AppendProperties, LenProperties
      <3>2. DOMAIN s = 1..Len(s) /\ DOMAIN Append(s, e) = 1..(Len(s) + 1)  BY <3>1, LenProperties
      <3> DEFINE t == Append(s, e)
                 m == Len(s)
      <3>3. m \in Nat /\ DOMAIN s = 1..m /\ DOMAIN t = 1..(m + 1) /\ t[m + 1] = e /\ \A i \in 1..m : t[i] = s[i]
        BY <3>1, <3>2
      <3> HIDE DEF t, m
      <3>4. \A i \in 1..(m + 1) : i \in 1..m \/ i = m + 1  BY <3>3
      <3>5. m + 1 \in 1..(m + 1) /\ \A i \in 1..m : i \in 1..(m + 1)  BY <3>3
      <3>6. Range(t) = Range(s) \cup {e}  BY <3>3, <3>4, <3>5 DEF Range
      <3> QED  BY <3>6 DEF t
    <2>6. list \in Seq(Values) /\ Range(list) \ {NULL} = Pinned
          /\ Len(list) = IF Len(pins) % SegCap = 0 THEN Len(pins) + 1 ELSE Len(pins)
      <3>1. CASE Len(pins) % SegCap = 0
        <4>1. Append(pins, NULL) \in Seq(Values) /\ Len(Append(pins, NULL)) = Len(pins) + 1
          BY <2>1, <2>2, AppendProperties
        <4>2. Range(Append(pins, NULL)) = Range(pins) \cup {NULL}  BY <2>1, <2>2, <2>5
        <4> QED  BY <3>1, <4>1, <4>2 DEF Pinned
      <3>2. CASE Len(pins) % SegCap # 0  BY <2>1, <3>2 DEF Pinned
      <3> QED  BY <3>1, <3>2
    <2> HIDE DEF list
    <2>7. Pinned' = Pinned \cup {o}
      <3>1. Range(pins') = Range(list) \cup {o}  BY <1>7, <2>2, <2>5, <2>6
      <3> QED  BY <1>3, <2>6, <3>1 DEF Pinned, o
    <2>8. Cardinality(Pinned') = Cardinality(Pinned) + 1  BY <2>1, <2>4, <2>7, FS_AddElement DEF o
    <2>9. Len(pins') = Len(list) + 1  BY <1>7, <2>2, <2>6, AppendProperties
    <2>10. \E c \in Nat : Blocks(Len(pins'), Cardinality(Pinned'), c)
      <3>1. CASE Len(pins) % SegCap = 0
        <4>1. Len(pins') = Len(pins) + 2  BY <2>1, <2>6, <2>9, <3>1
        <4>2. Blocks(Len(pins) + 2, Cardinality(Pinned) + 1, b + 1)  BY <2>1, <2>3, <3>1, BlocksGrow
        <4>3. Blocks(Len(pins'), Cardinality(Pinned'), b + 1) /\ b + 1 \in Nat  BY <2>8, <4>1, <4>2
        <4> QED  BY <4>3
      <3>2. CASE Len(pins) % SegCap # 0
        <4>1. Len(pins') = Len(pins) + 1  BY <2>1, <2>6, <2>9, <3>2
        <4>2. Blocks(Len(pins) + 1, Cardinality(Pinned) + 1, b)  BY <2>1, <2>3, <3>2, BlocksGrow
        <4>3. Blocks(Len(pins'), Cardinality(Pinned'), b)  BY <2>8, <4>1, <4>2
        <4> QED  BY <4>3
      <3> QED  BY <3>1, <3>2
    <2> QED  BY <1>5, <2>10 DEF BoundInv
  <1> QED  BY <1>1, <1>6, <1>7

LEMMA ReapObjectBound ==
  ASSUME IndInv, BoundInv, ReapObject
  PROVE  BoundInv'
  <1>1. /\ zct # <<>> /\ pins' = pins /\ Becomes([Popped EXCEPT !.idx[Last(zct)] = 0])
        /\ TabInv(Table, alive, pins) /\ segs \in Nat /\ MaxSegs \in Nat /\ segs <= MaxSegs
    <2>1. TabInv(Table, alive, pins)  BY DEF IndInv
    <2>2. Table.segs \in Nat \ {0}  BY <2>1, TabFacts
    <2> QED  BY <2>1, <2>2, TableFields, ZCTAssumption DEF BoundInv, ReapObject
  <1>2. /\ Popped \in Tables
        /\ Popped.segs = IF Len(zct) = (segs - 1) * SegCap THEN segs - 1 ELSE segs
    BY <1>1, PoppedFields
  <1>3. segs' = Popped.segs  BY <1>1, <1>2 DEF Becomes, Tables
  <1>4. segs' <= MaxSegs  BY <1>1, <1>2, <1>3
  <1> QED  BY <1>1, <1>4, BoundFrom

\* A field gives up its reference, and the table may grow for what it pointed to.
LEMMA DropSegs ==
  ASSUME IndInv, BoundInv, NEW x \in Holders, NEW mode, NEW z \in DecrementRef(Table, field[x], mode)
  PROVE  z \in Tables /\ z.segs <= MaxSegs
  <1>1. TabInv(Table, alive, pins) /\ Table.segs <= MaxSegs  BY TableFields DEF IndInv, BoundInv
  <1>2. field[x] \in Values  BY DEF IndInv, HeapInv
  <1>3. TabInv(z, alive, pins)  BY <1>1, <1>2, DecrementRefKeeps
  <1> QED  BY <1>1, <1>3, DecrementRefSegs DEF TabInv

LEMMA DestroyObjectBound ==
  ASSUME IndInv, BoundInv, DestroyObject
  PROVE  BoundInv'
  <1>1. PICK z \in DecrementRef(Table, field[running], "reap") : Becomes(Destroyed(z, running))
    BY DEF DestroyObject
  <1>2. running \in Holders /\ pins' = pins  BY DEF DestroyObject, Holders
  <1>3. z \in Tables /\ z.segs <= MaxSegs  BY <1>1, <1>2, DropSegs
  <1>4. "segs" \in DOMAIN z  BY <1>3 DEF Tables
  <1>5. SameSegs(z, Destroyed(z, running))  BY <1>4, SegsKept
  <1>6. segs' = z.segs  BY <1>1, <1>5 DEF Becomes, SameSegs
  <1> QED  BY <1>2, <1>3, <1>6, BoundFrom

LEMMA CodeInReapBound ==
  ASSUME IndInv, BoundInv, CodeInReap
  PROVE  BoundInv'
  <1>1. TabInv(Table, alive, pins) /\ Table.segs <= MaxSegs  BY TableFields DEF IndInv, BoundInv
  <1>2. ASSUME NEW o \in Objects, DestructorNew(o) PROVE BoundInv'
    <2>1. PICK z \in Add(Table, o, "reap") : Becomes(z)  BY <1>2 DEF DestructorNew
    <2>2. z.segs <= MaxSegs  BY <1>1, AddSegs
    <2>3. segs' = z.segs /\ pins' = pins  BY <1>2, <2>1 DEF DestructorNew, Becomes
    <2> QED  BY <2>2, <2>3, BoundFrom
  <1>3. ASSUME NEW x \in Holders, DestructorLoad(x) PROVE BoundInv'
    <2>1. segs' = segs /\ pins' = pins  BY <1>3 DEF DestructorLoad, tableVars
    <2> QED  BY <1>1, <2>1, TableFields, BoundFrom
  <1>4. ASSUME NEW x \in Holders, NEW v, DestructorStore(x, v) PROVE BoundInv'
    <2>1. PICK z \in DecrementRef(Table, field[x], "reap") : StoreRest(z, x, v)  BY <1>4 DEF DestructorStore
    <2>2. z \in Tables /\ z.segs <= MaxSegs /\ pins' = pins  BY <1>4, DropSegs DEF DestructorStore
    <2> QED  BY <2>1, <2>2, StoreRestBound
  <1> QED  BY <1>2, <1>3, <1>4 DEF CodeInReap

LEMMA EndReapBound ==
  ASSUME IndInv, BoundInv, PinListFits, EndReap
  PROVE  BoundInv'
  <1> DEFINE u == UsePinningMemory
             v == [u EXCEPT !.budget = 1]
  <1>1. phase = "reap" /\ zct = <<>> /\ pins' = <<>>  BY DEF EndReap, Reaping
  <1>2. PICK z \in IF adding = NULL THEN {u} ELSE Add(v, adding, "run") :
          CASE after[1] = "store"  -> StoreRest(z, after[2], after[3])
            [] after[1] = "delete" -> DeleteRest(z, after[2])
            [] OTHER -> Becomes(z) /\ UNCHANGED <<alive, field, stack>>
    BY DEF EndReap
  <1>3. TabInv(u, alive, <<>>)  BY <1>1, UsePinningKeeps
  <1>4. u.segs <= MaxSegs
    <2>1. CASE pins = <<>>  BY <2>1, TableFields DEF UsePinningMemory, BoundInv
    <2>2. CASE pins # <<>>
      <3> DEFINE n == Len(pins)
                 c == SegCap
                 d == (n + c - 1) \div c
                 m == (n + c - 1) % c
      <3>1. Table \in Tables  BY DEF IndInv, TabInv
      <3>2. u.segs = d  BY <2>2, <3>1 DEF UsePinningMemory, Tables
      <3>3. n \in Nat /\ n <= MaxSegs * c /\ c \in Nat /\ c >= 2 /\ MaxSegs \in Nat
        BY PinnedCount, PinsFit, ZCTAssumption
      <3> HIDE DEF n, c, u
      <3>4. n + c - 1 \in Nat /\ d \in Int /\ m \in 0..(c - 1) /\ n + c - 1 = c * d + m  BY <3>3
      <3> HIDE DEF d, m
      <3>5. CASE d > MaxSegs
        <4>1. PICK e \in Nat : d = MaxSegs + 1 + e  BY <3>3, <3>4, <3>5
        <4>2. /\ c * d = MaxSegs * c + c + e * c /\ e * c \in Nat /\ MaxSegs * c \in Nat
          BY <3>3, <4>1
        <4> QED  BY <3>3, <3>4, <4>2
      <3> QED  BY <3>2, <3>3, <3>4, <3>5
    <2> QED  BY <2>1, <2>2
  <1> HIDE DEF u
  <1>5. z \in Tables /\ z.segs <= MaxSegs
    <2>1. CASE adding = NULL
      <3>1. z = u  BY <1>2, <2>1
      <3> QED  BY <1>3, <1>4, <3>1 DEF TabInv
    <2>2. CASE adding # NULL
      <3>1. u \in Tables  BY <1>3 DEF TabInv
      <3>2. /\ v \in Tables /\ v.rc = u.rc /\ v.sticky = u.sticky /\ v.idx = u.idx /\ v.pinned = u.pinned
            /\ v.zct = u.zct /\ v.segs = u.segs /\ v.missed = u.missed
        <4>1. 1 \in 0..1  OBVIOUS
        <4> QED  BY <3>1, <4>1 DEF Tables
      <3> HIDE DEF v
      <3>3. TabInv(v, alive, <<>>)  BY <1>3, <3>2 DEF TabInv
      <3>4. z \in Add(v, adding, "run")  BY <1>2, <2>2
      <3>5. /\ adding \in alive /\ adding \in Objects /\ v.rc[adding] = 0 /\ adding \notin v.sticky
            /\ v.idx[adding] = 0
        <4>1. u.rc = rc /\ u.sticky = sticky /\ u.idx = idx  BY <1>1, UsePinningKeeps DEF u
        <4> QED  BY <2>2, <3>2, <4>1 DEF IndInv, HeapInv, AfterInv, AddInv
      <3>6. TabInv(z, alive, <<>>)  BY <3>3, <3>4, <3>5, AddKeeps
      <3>7. z.segs <= MaxSegs  BY <1>4, <3>2, <3>3, <3>4, <3>5, AddSegs
      <3> QED  BY <3>6, <3>7 DEF TabInv
    <2> QED  BY <2>1, <2>2
  <1>6. CASE after[1] = "store" \/ after[1] = "delete"
    <2>1. StoreRest(z, after[2], after[3]) \/ DeleteRest(z, after[2])  BY <1>2, <1>6
    <2> QED  BY <1>1, <1>5, <2>1, StoreRestBound
  <1>7. CASE after[1] # "store" /\ after[1] # "delete"
    <2>1. segs' = z.segs  BY <1>2, <1>7 DEF Becomes
    <2> QED  BY <1>1, <1>5, <2>1, BoundFrom
  <1> QED  BY <1>6, <1>7

LEMMA NextBound == IndInv /\ BoundInv /\ PinListFits /\ [Next]_vars => BoundInv'
  <1> SUFFICES ASSUME IndInv, BoundInv, PinListFits, [Next]_vars PROVE BoundInv'  OBVIOUS
  <1>0. /\ TabInv(Table, alive, pins) /\ Table \in Tables /\ Table.segs <= MaxSegs
        /\ segs \in Nat /\ MaxSegs \in Nat /\ segs <= MaxSegs
    <2>1. TabInv(Table, alive, pins)  BY DEF IndInv
    <2>2. Table \in Tables /\ Table.segs \in Nat \ {0}  BY <2>1, TabFacts
    <2> QED  BY <2>1, <2>2, TableFields, ZCTAssumption DEF BoundInv
  <1>1. ASSUME NEW o \in Objects, NewObject(o) PROVE BoundInv'  BY <1>1, NewObjectBound
  <1>2. ASSUME NEW o \in Objects, Forget(o) PROVE BoundInv'
    BY <1>0, <1>2, BoundFrom DEF Forget, tableVars
  <1>3. ASSUME NEW o \in Objects, Delete(o) PROVE BoundInv'
    <2>1. \/ DropReaps(field[o]) /\ BeginReap(Decrement(Table, field[o]), field[o], <<"delete", o, NULL>>)
          \/ /\ \E z \in DecrementRef(Table, field[o], phase) : StoreRest(z, o, NULL) \/ DeleteRest(z, o)
             /\ pins' = pins
      BY <1>3 DEF Delete
    <2> QED  BY <2>1, DropBound
  <1>4. ASSUME NEW o \in Objects, Stick(o) PROVE BoundInv'
    <2>1. Becomes(Stuck(Table, o)) /\ pins' = pins  BY <1>4 DEF Stick, Stuck
    <2>2. SameSegs(Table, Stuck(Table, o))
      <3>1. "segs" \in DOMAIN Table  BY <1>0 DEF Tables
      <3> QED  BY <3>1, SegsKept
    <2>3. segs' <= MaxSegs  BY <1>0, <2>1, <2>2 DEF Becomes, SameSegs
    <2> QED  BY <2>1, <2>3, BoundFrom
  <1>5. ASSUME NEW x \in Holders, Load(x) PROVE BoundInv'
    BY <1>0, <1>5, BoundFrom DEF Load, tableVars
  <1>6. ASSUME NEW x \in Holders, NEW v \in Objects \cup {NULL}, Store(x, v) PROVE BoundInv'
    <2>1. \/ DropReaps(field[x]) /\ BeginReap(Decrement(Table, field[x]), field[x], <<"store", x, v>>)
          \/ /\ \E z \in DecrementRef(Table, field[x], phase) : StoreRest(z, x, v) \/ DeleteRest(z, x)
             /\ pins' = pins
      BY <1>6 DEF Store
    <2> QED  BY <2>1, DropBound
  <1>7. ASSUME NEW o \in Objects, Finalize(o) PROVE BoundInv'
    <2>1. PICK z \in DecrementRef(Table, field[o], "collect") : Becomes(Destroyed(z, o))
      BY <1>7 DEF Finalize
    <2>2. field[o] \in Values
      <3>1. field \in [Holders -> Values] /\ o \in Holders  BY DEF IndInv, HeapInv, Holders
      <3> QED  BY <3>1
    <2>3. z.segs <= MaxSegs  BY <1>0, DecrementRefSegs
    <2>4. TabInv(z, alive, pins)  BY <1>0, <2>2, DecrementRefKeeps
    <2>5. "segs" \in DOMAIN z  BY <2>4 DEF TabInv, Tables
    <2>6. SameSegs(z, Destroyed(z, o))  BY <2>5, SegsKept
    <2>7. segs' = z.segs /\ pins' = pins  BY <1>7, <2>1, <2>6 DEF Finalize, Becomes, SameSegs
    <2> QED  BY <2>3, <2>7, BoundFrom
  <1>8. ReapZCT => BoundInv'
    <2> SUFFICES ASSUME ReapZCT PROVE BoundInv'  OBVIOUS
    <2>1. BeginReap(Table, NULL, Nothing)  BY DEF ReapZCT
    <2> QED  BY <1>0, <2>1, BeginReapBound
  <1>9. PopNull => BoundInv'
    <2> SUFFICES ASSUME PopNull PROVE BoundInv'  OBVIOUS
    <2>1. zct # <<>> /\ Becomes(Popped) /\ pins' = pins  BY DEF PopNull
    <2>2. Popped.segs = IF Len(zct) = (segs - 1) * SegCap THEN segs - 1 ELSE segs
      BY <1>0, <2>1, PoppedFields
    <2>3. segs' <= MaxSegs  BY <1>0, <2>1, <2>2 DEF Becomes
    <2> QED  BY <2>1, <2>3, BoundFrom
  <1>10. ReapStep => BoundInv'
    <2>1. CallbackReturns => BoundInv'
      <3> SUFFICES ASSUME CallbackReturns PROVE BoundInv'  OBVIOUS
      <3>1. segs' = segs /\ pins' = pins  BY DEF CallbackReturns, tableVars
      <3> QED  BY <1>0, <3>1, BoundFrom
    <2> QED  BY <1>9, <2>1, PinObjectBound, ReapObjectBound, DestroyObjectBound, EndReapBound DEF ReapStep
  <1>11. Sweep \/ EndCollecting => BoundInv'
    BY <1>0, BoundFrom DEF Sweep, EndCollecting, tableVars
  <1>12. Program => BoundInv'  BY <1>1, <1>2, <1>3, <1>4, <1>5, <1>6 DEF Program
  <1>13. Collection => BoundInv'  BY <1>7, <1>11 DEF Collection
  <1>14. UNCHANGED vars => BoundInv'  BY <1>0, BoundFrom DEF vars, tableVars
  <1> QED  BY <1>8, <1>10, <1>12, <1>13, <1>14, CodeInReapBound DEF Next

\* Where all objects would fit the pin list, the blocks are never more than ZCT_CAPACITY
\* allows, if the code that a reap calls keeps out of its way.
THEOREM BoundHolds == PinListFits /\ Careful => (Spec => []BoundInv)
  <1> SUFFICES ASSUME PinListFits, Careful PROVE Spec => []BoundInv  OBVIOUS
  <1>1. Init => BoundInv
    <2> SUFFICES ASSUME Init PROVE BoundInv  OBVIOUS
    <2>1. segs = 1 /\ pins = <<>>  BY DEF Init
    <2>2. Pinned = {} /\ Len(pins) = 0  BY <2>1, EmptySeq DEF Pinned, Range
    <2>3. Cardinality(Pinned) = 0  BY <2>2, FS_EmptySet
    <2>4. Blocks(0, 0, 0)
      <3>1. SegCap \in Nat  BY ZCTAssumption
      <3> QED  BY <3>1 DEF Blocks
    <2>5. 0 \in Nat /\ Blocks(Len(pins), Cardinality(Pinned), 0)  BY <2>2, <2>3, <2>4
    <2>6. segs <= MaxSegs  BY <2>1, ZCTAssumption
    <2> QED  BY <2>5, <2>6 DEF BoundInv
  <1>2. IndInv /\ BoundInv /\ [Next]_vars => BoundInv'  BY NextBound
  <1>3. Spec => []IndInv  BY Invariance
  <1> QED  BY <1>1, <1>2, <1>3, PTL DEF Spec

\* The index of a listed object leads to its only entry, in the table or in the list that
\* replaces it, listed objects have count zero and are neither sticky nor, outside of a
\* reap, pinned, and table and list keep to ZCT_CAPACITY; if the code that a reap calls
\* keeps out of its way.
THEOREM TableExactHolds == PinListFits /\ Careful => (Spec => []TableExact)
  <1> SUFFICES ASSUME PinListFits, Careful PROVE Spec => []TableExact  OBVIOUS
  <1>1. IndInv /\ BoundInv => TableExact
    <2> SUFFICES ASSUME IndInv, BoundInv PROVE TableExact  OBVIOUS
    <2>1. HeapInv /\ AfterInv /\ PinInv /\ FrameInv /\ TabInv(Table, alive, pins)  BY DEF IndInv
    <2>2. /\ Entries(zct, idx, alive) /\ Entries(pins, idx, alive)
          /\ \A o \in alive : idx[o] # 0 => /\ Sits(zct, idx, o) \/ Sits(pins, idx, o)
                                            /\ ~(Sits(zct, idx, o) /\ Sits(pins, idx, o))
                                            /\ rc[o] = 0 /\ o \notin sticky
          /\ \A o \in Objects \ alive : idx[o] = 0
          /\ \A o \in Objects : rc[o] <= StickyAt
      BY <2>1, TableFields DEF TabInv
    <2>3. /\ zct \in Seq(Values) /\ Len(zct) \in Nat /\ DOMAIN zct = 1..Len(zct)
          /\ Len(pins) \in Nat /\ DOMAIN pins = 1..Len(pins) /\ segs \in Nat \ {0}
          /\ rc \in [Objects -> Nat] /\ idx \in [Objects -> Nat]
      BY <2>1, TabFacts, TableFields
    <2>4. ZctExact  BY <2>2 DEF ZctExact, Entries, Sits
    <2>5. ListedUnreferenced  BY <2>2 DEF ListedUnreferenced
    <2>6. ListedUnpinned  BY <2>1, TableFields DEF ListedUnpinned, PinInv, Unpinned, HeapInv
    <2> DEFINE cap == SegCap * MaxSegs
    <2>7. cap \in Nat /\ MaxSegs * SegCap = cap
      <3>1. SegCap \in Nat /\ MaxSegs \in Nat  BY ZCTAssumption
      <3> QED  BY <3>1
    <2>8. Len(zct) <= cap /\ Len(zct) \in (segs - 1) * SegCap .. segs * SegCap
      <3>1. Len(zct) \in (segs - 1) * SegCap .. segs * SegCap  BY <2>1, TableFields DEF TabInv, Fit
      <3>2. SegCap \in Nat /\ MaxSegs \in Nat /\ segs <= MaxSegs  BY ZCTAssumption DEF BoundInv
      <3>3. PICK d \in Nat : MaxSegs = segs + d  BY <2>3, <3>2
      <3>4. MaxSegs * SegCap = segs * SegCap + d * SegCap /\ d * SegCap \in Nat /\ segs * SegCap \in Nat
        BY <2>3, <3>2, <3>3
      <3>5. Len(zct) <= segs * SegCap
        <4>1. (segs - 1) * SegCap \in Int  BY <2>3, <3>2
        <4> QED  BY <2>3, <3>1, <3>4, <4>1
      <3> HIDE DEF cap
      <3> QED  BY <2>3, <2>7, <3>1, <3>4, <3>5
    <2>9. Len(pins) <= cap  BY <2>7, PinsFit
    <2> HIDE DEF cap
    <2>10. idx \in [Objects -> 0..cap]
      <3> SUFFICES ASSUME NEW o \in Objects PROVE idx[o] \in 0..cap  BY <2>3
      <3>1. CASE idx[o] = 0  BY <2>7, <3>1
      <3>2. CASE idx[o] # 0
        <4>1. idx[o] \in DOMAIN zct \/ idx[o] \in DOMAIN pins  BY <2>2, <3>2 DEF Sits
        <4> QED  BY <2>3, <2>7, <2>8, <2>9, <4>1
      <3> QED  BY <3>1, <3>2
    <2>11. rc \in [Objects -> 0..StickyAt]
      <3>1. StickyAt \in Nat  BY ZCTAssumption
      <3> QED  BY <2>2, <2>3, <3>1
    <2>12. \A s \in {zct, pins} : Len(s) <= cap /\ Range(s) \subseteq alive \cup {NULL}
      BY <2>2, <2>8, <2>9 DEF Range, Entries
    <2>13. TypeOK
      <3>1. sticky \subseteq alive /\ pinned \subseteq alive /\ missed \subseteq alive /\ budget \in 0..1
        BY <2>1, TableFields DEF TabInv, Tables
      <3>2. segs \in 1..MaxSegs  BY <2>3, ZCTAssumption DEF BoundInv
      <3>3. /\ alive \subseteq Objects /\ field \in [Holders -> Objects \cup {NULL}]
            /\ \A x \in Holders \ condemned : field[x] \in alive \cup {NULL}
            /\ stack \subseteq alive /\ phase \in {"run", "reap", "collect"} /\ condemned \subseteq alive
        BY <2>1 DEF HeapInv, Values
      <3>4. adding \in alive \cup {NULL} /\ after \in Afters  BY <2>1 DEF AfterInv
      <3>5. running \in alive \cup {Callback, NULL} /\ locals \subseteq alive  BY <2>1 DEF FrameInv
      <3> QED  BY <2>8, <2>10, <2>11, <2>12, <3>1, <3>2, <3>3, <3>4, <3>5 DEF TypeOK, cap
    <2> QED  BY <2>4, <2>5, <2>6, <2>13 DEF TableExact
  <1>2. (Spec => []IndInv) /\ (Spec => []BoundInv)  BY Invariance, BoundHolds
  <1> QED  BY <1>1, <1>2, PTL
-----------------------------------------------------------------------------
(***************************************************************************)
(* Counting implements Collector.                                          *)
(***************************************************************************)
\* The fields as the pointers of Collector.
Mem(f) == [x \in Holders |-> [i \in 1..2 |-> IF i = 1 THEN f[x] ELSE NULL]]

LEMMA MemTargets ==
  ASSUME NEW f, NEW x \in Holders
  PROVE  C!Targets(Mem(f), x) = {f[x]} \ {NULL}
  <1>1. 1 \in 1..2 /\ 2 \in 1..2 /\ \A i \in 1..2 : i = 1 \/ i = 2  OBVIOUS
  <1>2. \A i \in 1..2 : Mem(f)[x][i] = IF i = 1 THEN f[x] ELSE NULL  BY DEF Mem
  <1> QED  BY <1>1, <1>2 DEF C!Targets, C!Parts

\* What is reached lies in every set that holds what the stack and the root point to and
\* what its members point to.
LEMMA ReachedIn ==
  ASSUME NEW f, NEW s, NEW S \in SUBSET Objects, s \subseteq S,
         f[Root] \in S \cup {NULL}, \A o \in S : f[o] \in S \cup {NULL}
  PROVE  C!Reachable(Mem(f), s, {Root}) \subseteq S
  <1>1. C!Targets(Mem(f), Root) \subseteq S
    <2>1. Root \in Holders  BY DEF Holders
    <2> QED  BY <2>1, MemTargets
  <1>2. ASSUME NEW o \in S PROVE C!Targets(Mem(f), o) \subseteq S
    <2>1. o \in Holders  BY DEF Holders
    <2> QED  BY <2>1, MemTargets
  <1>3. C!Closed(Mem(f), s, {Root}, S)  BY <1>1, <1>2 DEF C!Closed
  <1> QED  BY <1>3 DEF C!Reachable

\* The marks of a sweep and the stack keep what can be reached.
LEMMA LiveSpared ==
  ASSUME HeapInv
  PROVE  C!Live \subseteq alive \ condemned
  <1>1. /\ alive \ condemned \in SUBSET Objects /\ stack \subseteq alive \ condemned
        /\ Root \in Holders \ condemned /\ alive \ condemned \subseteq Holders \ condemned
    BY ZCTAssumption DEF HeapInv, Holders
  <1>2. \A x \in Holders \ condemned : field[x] \in (alive \ condemned) \cup {NULL}  BY DEF HeapInv
  <1>3. C!Reachable(Mem(field), stack, {Root}) \subseteq alive \ condemned
    BY <1>1, <1>2, ReachedIn
  <1> QED  BY <1>3 DEF C!Live, Mem

\* A step that frees nothing is one of the program.
LEMMA MutateStep ==
  ASSUME HeapInv', alive \subseteq alive'
  PROVE  C!Mutate
  <1>1. alive' \subseteq Objects /\ stack' \subseteq alive' /\ field' \in [Holders -> Values]
    BY DEF HeapInv
  <1>2. \E new \in SUBSET (Objects \ alive) : alive' = alive \cup new
    <2>1. alive' \ alive \in SUBSET (Objects \ alive) /\ alive' = alive \cup (alive' \ alive)  BY <1>1
    <2> QED  BY <2>1
  <1>3. Mem(field') \in [Objects \cup {Root} -> [1..2 -> Objects \cup {NULL}]]
    <2> SUFFICES ASSUME NEW x \in Holders
                 PROVE  [i \in 1..2 |-> IF i = 1 THEN field'[x] ELSE NULL] \in [1..2 -> Objects \cup {NULL}]
      BY DEF Mem, Holders
    <2>1. field'[x] \in Objects \cup {NULL}  BY <1>1 DEF Values
    <2> QED  BY <2>1
  <1>4. C!Reachable(Mem(field'), stack', {Root}) \subseteq alive'
    <2>1. /\ alive' \ condemned' \in SUBSET Objects /\ stack' \subseteq alive' \ condemned'
          /\ Root \in Holders \ condemned' /\ alive' \ condemned' \subseteq Holders \ condemned'
      BY ZCTAssumption DEF HeapInv, Holders
    <2>2. \A x \in Holders \ condemned' : field'[x] \in (alive' \ condemned') \cup {NULL}  BY DEF HeapInv
    <2>3. C!Reachable(Mem(field'), stack', {Root}) \subseteq alive' \ condemned'
      BY <2>1, <2>2, ReachedIn
    <2> QED  BY <2>3
  <1> QED  BY <1>1, <1>2, <1>3, <1>4 DEF C!Mutate, C!Live, C!Parts, Mem

\* Destructors of a reap or a sweep are a collection of one object.
LEMMA CollectStep ==
  ASSUME HeapInv, NEW o \in alive, o \notin C!Live, alive' = alive \ {o}, stack' = stack,
         field' = [field EXCEPT ![o] = NULL]
  PROVE  C!Collect
  <1>1. field \in [Holders -> Values]  BY DEF HeapInv
  <1>2. \A x \in Holders \ {o} : Mem(field')[x] = Mem(field)[x]
    <2> SUFFICES ASSUME NEW x \in Holders \ {o} PROVE Mem(field')[x] = Mem(field)[x]  OBVIOUS
    <2>1. field'[x] = field[x]  BY <1>1
    <2> QED  BY <2>1 DEF Mem
  <1>3. {o} \in SUBSET (alive \ C!Live)  OBVIOUS
  <1>4. /\ alive' = alive \ {o} /\ \A x \in (Objects \cup {Root}) \ {o} : Mem(field')[x] = Mem(field)[x]
        /\ stack' = stack
    BY <1>2 DEF Holders
  <1> QED  BY <1>3, <1>4 DEF C!Collect, Mem

\* The delete of the program.
LEMMA DeleteStep ==
  ASSUME HeapInv, NEW o \in stack, NEW z, \A x \in Holders \ {o} : field[x] # o, DeleteRest(z, o)
  PROVE  C!Delete
  <1>1. /\ field \in [Holders -> Values] /\ alive' = alive \ {o} /\ stack' = stack \ {o}
        /\ field' = [field EXCEPT ![o] = NULL] /\ o \in Objects /\ o \in Holders /\ alive \subseteq Objects
    BY DEF HeapInv, DeleteRest, Holders
  <1>2. \A x \in (alive \cup {Root}) \ {o} : o \notin C!Targets(Mem(field), x)
    <2> SUFFICES ASSUME NEW x \in (alive \cup {Root}) \ {o} PROVE o \notin C!Targets(Mem(field), x)  OBVIOUS
    <2>1. x \in Holders \ {o}  BY <1>1 DEF Holders
    <2> QED  BY <2>1, MemTargets
  <1>3. Mem(field') = [Mem(field) EXCEPT ![o] = [i \in 1..2 |-> NULL]]
    <2>1. field'[o] = NULL /\ \A x \in Holders \ {o} : field'[x] = field[x]  BY <1>1
    <2>2. Mem(field')[o] = [i \in 1..2 |-> NULL]  BY <1>1, <2>1 DEF Mem
    <2>3. \A x \in Holders \ {o} : Mem(field')[x] = Mem(field)[x]  BY <2>1 DEF Mem
    <2>4. /\ Mem(field') = [x \in Holders |-> Mem(field')[x]]
          /\ Mem(field) = [x \in Holders |-> Mem(field)[x]]
      BY DEF Mem
    <2>5. \A x \in Holders : Mem(field')[x] = [Mem(field) EXCEPT ![o] = [i \in 1..2 |-> NULL]][x]
      BY <1>1, <2>2, <2>3, <2>4
    <2>6. /\ DOMAIN Mem(field') = Holders /\ DOMAIN [Mem(field) EXCEPT ![o] = [i \in 1..2 |-> NULL]] = Holders
      BY <2>4
    <2> QED  BY <2>4, <2>5, <2>6
  <1> QED  BY <1>1, <1>2, <1>3 DEF C!Delete, C!Parts, Mem

\* Every step is one of Collector, or leaves what Collector sees alone.
LEMMA StepRefines == Careful /\ IndInv /\ IndInv' /\ [Next]_vars => [C!Next]_C!vars
  <1> SUFFICES ASSUME Careful, IndInv, IndInv', [Next]_vars PROVE C!Next \/ UNCHANGED C!vars  OBVIOUS
  <1>0. HeapInv /\ HeapInv' /\ AfterInv /\ C!Live \subseteq alive \ condemned  BY LiveSpared DEF IndInv
  <1>1. CASE alive \subseteq alive'  BY <1>0, <1>1, MutateStep DEF C!Next
  <1>2. ASSUME NEW o \in Objects, Delete(o) PROVE C!Next \/ UNCHANGED C!vars
    <2>1. CASE DropReaps(field[o])
      <3>1. alive' = alive  BY <1>2, <2>1 DEF Delete
      <3> QED  BY <1>1, <3>1
    <2>2. CASE ~DropReaps(field[o])
      <3>1. PICK z \in DecrementRef(Table, field[o], phase) : DeleteRest(z, o)  BY <1>2, <2>2 DEF Delete
      <3>2. o \in stack /\ \A x \in Holders \ {o} : field[x] # o  BY <1>2 DEF Delete
      <3> QED  BY <1>0, <3>1, <3>2, DeleteStep DEF C!Next
    <2> QED  BY <2>1, <2>2
  <1>3. CASE EndReap
    <2>1. PICK z : CASE after[1] = "store"  -> StoreRest(z, after[2], after[3])
                     [] after[1] = "delete" -> DeleteRest(z, after[2])
                     [] OTHER -> Becomes(z) /\ UNCHANGED <<alive, field, stack>>
      BY <1>3 DEF EndReap
    <2>2. CASE after[1] = "delete"
      <3> DEFINE o == after[2]
      <3>1. DeleteRest(z, o) /\ o \in stack /\ \A x \in Holders \ {o} : field[x] # o
        BY <1>0, <2>1, <2>2 DEF AfterInv
      <3> HIDE DEF o
      <3> QED  BY <1>0, <3>1, DeleteStep DEF C!Next
    <2>3. CASE after[1] # "delete"
      <3>1. alive' = alive  BY <2>1, <2>3 DEF StoreRest
      <3> QED  BY <1>1, <3>1
    <2> QED  BY <2>2, <2>3
  <1>4. CASE DestroyObject
    <2> DEFINE o == running
    <2>1. /\ o \in Objects /\ alive' = alive \ {o} /\ field' = [field EXCEPT ![o] = NULL] /\ stack' = stack
      BY <1>4 DEF DestroyObject, LeaveFrame
    <2>2. /\ o \in alive /\ o \notin stack /\ \A x \in Holders : field[x] # o
          /\ \A x \in Holders : field[x] \in alive \cup {NULL}
      <3>1. running # NULL  BY <2>1, ZCTAssumption
      <3>2. FrameInv /\ \A x \in Holders : field[x] \in alive \cup {NULL}  BY <3>1, CodeFacts
      <3> QED  BY <2>1, <3>2, ZCTAssumption DEF FrameInv
    <2> HIDE DEF o
    <2>3. /\ alive \ {o} \in SUBSET Objects /\ stack \subseteq alive \ {o}
          /\ \A x \in Holders : field[x] \in (alive \ {o}) \cup {NULL}
      BY <1>0, <2>2 DEF HeapInv
    <2>4. C!Reachable(Mem(field), stack, {Root}) \subseteq alive \ {o}
      <3>1. /\ field[Root] \in (alive \ {o}) \cup {NULL}
            /\ \A x \in alive \ {o} : field[x] \in (alive \ {o}) \cup {NULL}
        BY <2>3 DEF Holders
      <3> QED  BY <2>3, <3>1, ReachedIn
    <2>5. o \notin C!Live  BY <2>4 DEF C!Live, Mem
    <2> QED  BY <1>0, <2>1, <2>2, <2>5, CollectStep DEF C!Next
  <1>5. ASSUME NEW o \in Objects, Finalize(o) PROVE C!Next \/ UNCHANGED C!vars
    <2>1. /\ o \in condemned /\ alive' = alive \ {o} /\ stack' = stack /\ field' = [field EXCEPT ![o] = NULL]
      BY <1>5 DEF Finalize
    <2>2. o \in alive /\ o \notin C!Live  BY <1>0, <2>1 DEF HeapInv
    <2> QED  BY <1>0, <2>1, <2>2, CollectStep DEF C!Next
  <1>6. ASSUME NEW o, NewObject(o) \/ Forget(o) \/ Stick(o) \/ Load(o) PROVE alive \subseteq alive'
    BY <1>6 DEF NewObject, Forget, Stick, Load
  <1>7. ASSUME NEW x, NEW v, Store(x, v) PROVE alive \subseteq alive'
    BY <1>7 DEF Store, StoreRest
  <1>8. \/ ReapZCT \/ PopNull \/ PinObject \/ ReapObject \/ CallbackReturns \/ CodeInReap
        \/ Sweep \/ EndCollecting \/ UNCHANGED vars
        => alive \subseteq alive'
    <2>1. CodeInReap => alive \subseteq alive'
      BY DEF CodeInReap, DestructorNew, DestructorLoad, DestructorStore, StoreRest
    <2> QED  BY <2>1 DEF ReapZCT, PopNull, PinObject, ReapObject, CallbackReturns, Sweep, EndCollecting, vars
  <1>9. Program => C!Next \/ UNCHANGED C!vars  BY <1>1, <1>2, <1>6, <1>7 DEF Program
  <1>10. ReapStep => C!Next \/ UNCHANGED C!vars  BY <1>1, <1>3, <1>4, <1>8 DEF ReapStep
  <1>11. Collection => C!Next \/ UNCHANGED C!vars  BY <1>1, <1>5, <1>8 DEF Collection
  <1> QED  BY <1>1, <1>8, <1>9, <1>10, <1>11 DEF Next

\* Reference counting, reaps and sweeps implement Collector: objects disappear by a delete
\* of the program, or when the program cannot reach them, and the others stay as they are,
\* if the destructors and callbacks that a reap runs may allocate, load and store but keep
\* out of its way.
THEOREM RefinesCollector == Careful => (Spec => IsCollector)
  <1> SUFFICES ASSUME Careful PROVE Spec => IsCollector  OBVIOUS
  <1>1. Init => C!Init
    <2> SUFFICES ASSUME Init PROVE C!Init  OBVIOUS
    <2>1. alive = {} /\ stack = {} /\ field = [x \in Holders |-> NULL]  BY DEF Init
    <2>2. Mem(field) = [x \in Objects \cup {Root} |-> [i \in 1..2 |-> NULL]]  BY <2>1 DEF Mem, Holders
    <2> QED  BY <2>1, <2>2 DEF C!Init, C!Parts, Mem
  <1>2. Spec => []IndInv  BY Invariance
  <1>3. IndInv /\ IndInv' /\ [Next]_vars => [C!Next]_C!vars  BY StepRefines
  <1> QED  BY <1>1, <1>2, <1>3, PTL DEF Spec, IsCollector, C!Spec
=============================================================================
