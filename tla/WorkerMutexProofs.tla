------------------------- MODULE WorkerMutexProofs -------------------------
(***************************************************************************)
(* WorkerMutex for any set of workers and any nesting of locks:            *)
(* MutexExact, FullyReleased, CountsExact and HeadNotStranded.  The lists  *)
(* of wait records are injective sequences whose elements are exactly the  *)
(* workers inside Enter; what the monitors protect is stated for the time  *)
(* they are held as well.                                                  *)
(***************************************************************************)
EXTENDS WorkerMutex, FiniteSetTheorems, SequenceTheorems, TLAPS

\* Where a worker is while its record is in a list.
Queued == {"contend", "wait", "woken", "release", "check"}

\* The mutex itself: the operating system's mutex, the owner and the count.
LockInv ==
    /\ os.owner = NoWorker <=> os.depth = 0
    /\ ownerID = NoWorker => recursion = 0
    /\ OwnerExact
    /\ \A w \in Workers : hold[w] > 0 => pc[w] \in {"idle", "exit", "try"}
    /\ ~ReentrantTry => /\ os.owner = ownerID /\ os.depth <= 1
                        /\ \A w \in Workers : pc[w] = "try" => hold[w] = 0

\* The records in the lists and the holders of the monitors are where their
\* workers say.
ListInv ==
    /\ \A s \in States, w \in Workers : w \in Range(list[s]) <=> active[w] = s /\ pc[w] \in Queued
    /\ \A w \in Workers :
        /\ monitor["mutex"] = w <=> pc[w] = "contend"
        /\ monitor["cond"] = w <=> pc[w] \in {"release", "check"}
        /\ pc[w] = "contend" => active[w] = "mutex"
        /\ pc[w] \in {"release", "check"} => active[w] = "cond"
        /\ pc[w] \in {"wait", "woken"} => active[w] \in States

\* The record of the worker that has the monitor is not counted; a record that
\* is marked belongs to a worker that has been woken.
CountInv ==
    /\ \A s \in States :
        /\ waiterCount[s] = Len(list[s]) - (IF monitor[s] = NoWorker THEN 0 ELSE 1)
        /\ sigCount[s] = Cardinality({w \in Range(list[s]) : signaled[w]})
    /\ \A w \in Workers : signaled[w] => pc[w] = "woken"

\* Without a termination nobody is signalled, so a woken worker does contend.
CalmInv == Undisturbed => toSignal = {} /\ \A w \in Workers : ~signaled[w] /\ ~again[w]

\* HeadNotStranded, whoever has the monitor.
HeadInv ==
    (Undisturbed /\ os.owner = NoWorker /\ list["mutex"] # <<>>) =>
        \/ pc[Head(list["mutex"])] \in {"woken", "contend"}
        \/ \E w \in Workers : pc[w] \in {"notify", "release"}

IndInv == TypeOK /\ LockInv /\ ListInv /\ CountInv /\ CalmInv /\ HeadInv

-----------------------------------------------------------------------------
\* What is left of a sequence when one of its elements is taken out.
LEMMA RemoveAtFacts ==
  ASSUME NEW S, NEW s \in Seq(S), NEW k \in 1..Len(s)
  PROVE  /\ RemoveAt(s, k) \in Seq(S)
         /\ Len(RemoveAt(s, k)) = Len(s) - 1
         /\ \A j \in 1..(Len(s) - 1) : RemoveAt(s, k)[j] = IF j < k THEN s[j] ELSE s[j + 1]
  <1> DEFINE a == SubSeq(s, 1, k - 1)
             b == SubSeq(s, k + 1, Len(s))
  <1>1. Len(s) \in Nat /\ \A j \in 1..Len(s) : s[j] \in S  BY LenProperties, ElementOfSeq
  <1>2. /\ a \in Seq(S) /\ Len(a) = k - 1 /\ \A j \in 1..(k - 1) : a[j] = s[j]
    <2>1. \A j \in 1..(k - 1) : s[j] \in S  BY <1>1
    <2>2. k - 1 \in Int /\ 1 \in Int  BY <1>1
    <2>3. /\ a \in Seq(S) /\ Len(a) = IF 1 <= k - 1 THEN k - 1 - 1 + 1 ELSE 0
          /\ \A j \in 1..(k - 1 - 1 + 1) : a[j] = s[1 + j - 1]
      BY <2>1, <2>2, SubSeqProperties
    <2> QED  BY <2>3, <1>1
  <1>3. /\ b \in Seq(S) /\ Len(b) = Len(s) - k /\ \A j \in 1..(Len(s) - k) : b[j] = s[k + j]
    <2>1. \A j \in (k + 1)..Len(s) : s[j] \in S  BY <1>1
    <2>2. k + 1 \in Int /\ Len(s) \in Int  BY <1>1
    <2>3. /\ b \in Seq(S) /\ Len(b) = IF k + 1 <= Len(s) THEN Len(s) - (k + 1) + 1 ELSE 0
          /\ \A j \in 1..(Len(s) - (k + 1) + 1) : b[j] = s[k + 1 + j - 1]
      BY <2>1, <2>2, SubSeqProperties
    <2> QED  BY <2>3, <1>1
  <1> HIDE DEF a, b
  <1>4. /\ a \o b \in Seq(S) /\ Len(a \o b) = Len(a) + Len(b)
        /\ \A j \in 1..(Len(a) + Len(b)) : (a \o b)[j] = IF j <= Len(a) THEN a[j] ELSE b[j - Len(a)]
    BY <1>2, <1>3, ConcatProperties
  <1>5. RemoveAt(s, k) = a \o b  BY DEF RemoveAt, a, b
  <1>6. Len(a) + Len(b) = Len(s) - 1  BY <1>1, <1>2, <1>3
  <1>7. ASSUME NEW j \in 1..(Len(s) - 1)
        PROVE  RemoveAt(s, k)[j] = IF j < k THEN s[j] ELSE s[j + 1]
    <2>1. (a \o b)[j] = IF j <= k - 1 THEN a[j] ELSE b[j - (k - 1)]  BY <1>2, <1>4, <1>6
    <2>2. CASE j < k
      <3>1. j \in 1..(k - 1) /\ j <= k - 1  BY <2>2, <1>1
      <3> QED  BY <3>1, <2>1, <2>2, <1>2, <1>5
    <2>3. CASE ~(j < k)
      <3>1. j - (k - 1) \in 1..(Len(s) - k) /\ ~(j <= k - 1) /\ k + (j - (k - 1)) = j + 1  BY <2>3, <1>1
      <3>2. b[j - (k - 1)] = s[k + (j - (k - 1))]  BY <3>1, <1>3
      <3> QED  BY <3>1, <3>2, <2>1, <2>3, <1>5
    <2> QED  BY <2>2, <2>3
  <1> QED  BY <1>4, <1>5, <1>6, <1>7

\* The elements of a sequence are finitely many, and as many as it is long if
\* none occurs twice.
LEMMA RangeFacts ==
  ASSUME NEW S, NEW q \in Seq(S)
  PROVE  /\ IsFiniteSet(Range(q)) /\ Range(q) \subseteq S
         /\ Range(q) = {q[j] : j \in 1..Len(q)}
         /\ IsInjective(q) => Cardinality(Range(q)) = Len(q)
         /\ q # <<>> => Head(q) = q[1] /\ Len(q) >= 1
  <1>1. Len(q) \in Nat /\ DOMAIN q = 1..Len(q) /\ q \in [1..Len(q) -> S]  BY LenProperties
  <1>2. Range(q) = {q[j] : j \in 1..Len(q)}  BY <1>1 DEF Range
  <1>3. q \in Surjection(1..Len(q), Range(q))  BY <1>1, <1>2 DEF Surjection
  <1>4. IsFiniteSet(1..Len(q)) /\ Cardinality(1..Len(q)) = Len(q)
    <2>1. 1 \in Int /\ Len(q) \in Int  BY <1>1
    <2>2. IsFiniteSet(1..Len(q)) /\ Cardinality(1..Len(q)) = IF 1 > Len(q) THEN 0 ELSE Len(q) - 1 + 1
      BY <2>1, FS_Interval
    <2> QED  BY <1>1, <2>2
  <1>5. /\ IsFiniteSet(Range(q))
        /\ Cardinality(Range(q)) = Cardinality(1..Len(q)) <=> q \in Injection(1..Len(q), Range(q))
    BY <1>3, <1>4, FS_Surjection
  <1>6. IsInjective(q) => q \in Injection(1..Len(q), Range(q))  BY <1>3 DEF Injection, Surjection
  <1>7. Range(q) \subseteq S  BY <1>1, <1>2
  <1>8. q # <<>> => Head(q) = q[1] /\ Len(q) >= 1
    <2>1. q # <<>> => Len(q) \in Nat \ {0}  BY EmptySeq
    <2> QED  BY <2>1
  <1> QED  BY <1>2, <1>4, <1>5, <1>6, <1>7, <1>8

\* A record that was not in the list is added at the tail.
LEMMA AppendFacts ==
  ASSUME NEW S, NEW q \in Seq(S), NEW w \in S, w \notin Range(q), IsInjective(q)
  PROVE  /\ Append(q, w) \in Seq(S) /\ IsInjective(Append(q, w))
         /\ Len(Append(q, w)) = Len(q) + 1
         /\ Range(Append(q, w)) = Range(q) \cup {w}
         /\ Append(q, w) # <<>>
         /\ Head(Append(q, w)) = IF q = <<>> THEN w ELSE Head(q)
  <1> DEFINE a == Append(q, w)
  <1>1. Len(q) \in Nat /\ Range(q) = {q[j] : j \in 1..Len(q)}  BY LenProperties, RangeFacts
  <1>2. /\ a \in Seq(S) /\ a # <<>> /\ Len(a) = Len(q) + 1
        /\ \A j \in 1..Len(q) : a[j] = q[j]
        /\ a[Len(q) + 1] = w
    BY AppendProperties
  <1>3. DOMAIN a = 1..(Len(q) + 1) /\ DOMAIN q = 1..Len(q)  BY <1>2, LenProperties
  <1>4. Range(a) = {a[j] : j \in 1..(Len(q) + 1)}  BY <1>2, RangeFacts
  <1>h. Head(a) = IF q = <<>> THEN w ELSE Head(q)  BY HeadTailAppend
  <1> HIDE DEF a
  <1>5. Range(a) = Range(q) \cup {w}
    <2>1. ASSUME NEW x \in Range(a) PROVE x \in Range(q) \cup {w}
      <3>1. PICK j \in 1..(Len(q) + 1) : x = a[j]  BY <1>4
      <3>2. j \in 1..Len(q) \/ j = Len(q) + 1  BY <1>1
      <3> QED  BY <3>1, <3>2, <1>1, <1>2
    <2>2. ASSUME NEW x \in Range(q) PROVE x \in Range(a)
      <3>1. PICK j \in 1..Len(q) : x = q[j]  BY <1>1
      <3>2. j \in 1..(Len(q) + 1) /\ x = a[j]  BY <3>1, <1>1, <1>2
      <3> QED  BY <3>2, <1>4
    <2>3. Len(q) + 1 \in 1..(Len(q) + 1)  BY <1>1
    <2>4. w \in Range(a)  BY <2>3, <1>2, <1>4
    <2> QED  BY <2>1, <2>2, <2>4
  <1>6. IsInjective(a)
    <2> SUFFICES ASSUME NEW i \in 1..(Len(q) + 1), NEW j \in 1..(Len(q) + 1), a[i] = a[j]
                 PROVE  i = j
      BY <1>3 DEF IsInjective
    <2>1. CASE i \in 1..Len(q) /\ j \in 1..Len(q)
      <3>1. q[i] = q[j]  BY <2>1, <1>2
      <3> QED  BY <3>1, <2>1, <1>3 DEF IsInjective
    <2>2. CASE i \in 1..Len(q) /\ j = Len(q) + 1
      <3>1. q[i] = w /\ q[i] \in Range(q)  BY <2>2, <1>1, <1>2
      <3> QED  BY <3>1
    <2>3. CASE j \in 1..Len(q) /\ i = Len(q) + 1
      <3>1. q[j] = w /\ q[j] \in Range(q)  BY <2>3, <1>1, <1>2
      <3> QED  BY <3>1
    <2>4. CASE i = Len(q) + 1 /\ j = Len(q) + 1  BY <2>4
    <2> QED  BY <2>1, <2>2, <2>3, <2>4, <1>1
  <1> QED  BY <1>2, <1>5, <1>6, <1>h DEF a

\* A record that is in the list is unlinked.
LEMMA UnlinkFacts ==
  ASSUME NEW S, NEW q \in Seq(S), IsInjective(q), NEW k \in 1..Len(q)
  PROVE  /\ RemoveAt(q, k) \in Seq(S) /\ IsInjective(RemoveAt(q, k))
         /\ Len(RemoveAt(q, k)) = Len(q) - 1
         /\ Range(RemoveAt(q, k)) = Range(q) \ {q[k]}
         /\ q[k] \in Range(q) /\ q # <<>>
         /\ Head(q) # q[k] => RemoveAt(q, k) # <<>> /\ Head(RemoveAt(q, k)) = Head(q)
  <1> DEFINE r == RemoveAt(q, k)
  <1>1. /\ Len(q) \in Nat /\ Range(q) = {q[j] : j \in 1..Len(q)} /\ DOMAIN q = 1..Len(q)
    BY LenProperties, RangeFacts
  <1>2. /\ r \in Seq(S) /\ Len(r) = Len(q) - 1
        /\ \A j \in 1..(Len(q) - 1) : r[j] = IF j < k THEN q[j] ELSE q[j + 1]
    BY RemoveAtFacts
  <1> HIDE DEF r
  <1>3. DOMAIN r = 1..(Len(q) - 1) /\ Range(r) = {r[j] : j \in 1..(Len(q) - 1)}
    BY <1>2, LenProperties, RangeFacts
  <1>4. \A i, j \in 1..Len(q) : q[i] = q[j] => i = j  BY <1>1 DEF IsInjective
  <1>5. Range(r) = Range(q) \ {q[k]}
    <2>1. ASSUME NEW x \in Range(r) PROVE x \in Range(q) \ {q[k]}
      <3>1. PICK j \in 1..(Len(q) - 1) : x = r[j]  BY <1>3
      <3>2. PICK i \in 1..Len(q) : i # k /\ x = q[i]
        <4>1. CASE j < k
          <5>1. j \in 1..Len(q) /\ j # k /\ x = q[j]  BY <4>1, <3>1, <1>1, <1>2
          <5> QED  BY <5>1
        <4>2. CASE ~(j < k)
          <5>1. j + 1 \in 1..Len(q) /\ j + 1 # k /\ x = q[j + 1]  BY <4>2, <3>1, <1>1, <1>2
          <5> QED  BY <5>1
        <4> QED  BY <4>1, <4>2
      <3> QED  BY <3>2, <1>1, <1>4
    <2>2. ASSUME NEW x \in Range(q) \ {q[k]} PROVE x \in Range(r)
      <3>1. PICK i \in 1..Len(q) : x = q[i]  BY <1>1
      <3>2. CASE i < k
        <4>1. i \in 1..(Len(q) - 1) /\ x = r[i]  BY <3>1, <3>2, <1>1, <1>2
        <4> QED  BY <4>1, <1>3
      <3>3. CASE i > k
        <4>1. i - 1 \in 1..(Len(q) - 1) /\ ~(i - 1 < k) /\ i - 1 + 1 = i  BY <3>3, <1>1
        <4>2. x = r[i - 1]  BY <4>1, <3>1, <1>2
        <4> QED  BY <4>1, <4>2, <1>3
      <3> QED  BY <3>1, <3>2, <3>3, <1>1
    <2> QED  BY <2>1, <2>2
  <1>6. IsInjective(r)
    <2> SUFFICES ASSUME NEW i \in 1..(Len(q) - 1), NEW j \in 1..(Len(q) - 1), r[i] = r[j]
                 PROVE  i = j
      BY <1>3 DEF IsInjective
    <2> DEFINE up(n) == IF n < k THEN n ELSE n + 1
    <2>1. up(i) \in 1..Len(q) /\ up(j) \in 1..Len(q)  BY <1>1
    <2>2. q[up(i)] = q[up(j)]  BY <1>2
    <2>3. up(i) = up(j)  BY <2>1, <2>2, <1>4
    <2> QED  BY <2>3, <1>1
  <1>7. q[k] \in Range(q) /\ q # <<>>
    <2>1. Len(q) # 0  BY <1>1
    <2> QED  BY <2>1, <1>1, EmptySeq
  <1>8. Head(q) # q[k] => r # <<>> /\ Head(r) = Head(q)
    <2> SUFFICES ASSUME Head(q) # q[k] PROVE r # <<>> /\ Head(r) = Head(q)  OBVIOUS
    <2>1. Head(q) = q[1]  BY <1>7, RangeFacts
    <2>2. k # 1 /\ 1 \in 1..(Len(q) - 1) /\ 1 < k  BY <2>1, <1>1
    <2>3. r[1] = q[1] /\ Len(r) # 0  BY <2>2, <1>1, <1>2
    <2>4. r # <<>>  BY <2>3, EmptySeq
    <2> QED  BY <2>1, <2>3, <2>4, <1>2, RangeFacts
  <1> QED  BY <1>2, <1>5, <1>6, <1>7, <1>8 DEF r

-----------------------------------------------------------------------------
Places == {"idle", "contend", "wait", "woken", "exit", "exitDead", "exitAgain", "try",
           "notify", "release", "check", "reenter", "dead"}
Lists  == list \in [States -> Seq(Workers)] /\ \A s \in States : IsInjective(list[s])

\* What a step of w does to the others: at most, it wakes them up.
Others(w) == \A v \in Workers \ {w} : pc'[v] = pc[v] \/ (pc[v] = "wait" /\ pc'[v] = "woken")

\* The marked records of the list of s.
Marked(s) == {w \in Range(list[s]) : signaled[w]}

\* The two states.
LEMMA StatesFacts == "mutex" \in States /\ "cond" \in States /\ \A s \in States : s \in {"mutex", "cond"}
  BY DEF States

\* What the counts of a state are.
LEMMA CountFacts ==
  ASSUME IndInv, NEW t \in States
  PROVE  /\ waiterCount[t] = Len(list[t]) - (IF monitor[t] = NoWorker THEN 0 ELSE 1)
         /\ sigCount[t] = Cardinality(Marked(t))
  <1>1. CountInv  BY DEF IndInv
  <1> QED  BY <1>1 DEF CountInv, Marked

\* The list of s, its marked records and its first one.
LEMMA ListFacts ==
  ASSUME IndInv, NEW s \in States
  PROVE  /\ list[s] \in Seq(Workers) /\ IsInjective(list[s])
         /\ Len(list[s]) \in Nat /\ DOMAIN list[s] = 1..Len(list[s])
         /\ IsFiniteSet(Range(list[s])) /\ Range(list[s]) \subseteq Workers
         /\ Cardinality(Range(list[s])) = Len(list[s])
         /\ IsFiniteSet(Marked(s)) /\ Cardinality(Marked(s)) \in Nat
         /\ list[s] # <<>> => Head(list[s]) \in Range(list[s])
         /\ list[s] # <<>> <=> Len(list[s]) # 0
  <1>1. list[s] \in Seq(Workers) /\ IsInjective(list[s])  BY DEF IndInv, TypeOK
  <1>2. Len(list[s]) \in Nat /\ DOMAIN list[s] = 1..Len(list[s])  BY <1>1, LenProperties
  <1>3. /\ IsFiniteSet(Range(list[s])) /\ Range(list[s]) \subseteq Workers
        /\ Range(list[s]) = {list[s][j] : j \in 1..Len(list[s])}
        /\ Cardinality(Range(list[s])) = Len(list[s])
        /\ list[s] # <<>> => Head(list[s]) = list[s][1] /\ Len(list[s]) >= 1
    BY <1>1, RangeFacts
  <1>4. Marked(s) \subseteq Range(list[s])  BY DEF Marked
  <1>5. IsFiniteSet(Marked(s)) /\ Cardinality(Marked(s)) \in Nat
    BY <1>3, <1>4, FS_Subset, FS_CardinalityType
  <1>6. list[s] # <<>> => Head(list[s]) \in Range(list[s])
    <2>1. list[s] # <<>> => 1 \in 1..Len(list[s])  BY <1>2, <1>3
    <2> QED  BY <2>1, <1>3
  <1>7. list[s] # <<>> <=> Len(list[s]) # 0
    <2>1. list[s] # <<>> => Len(list[s]) # 0  BY <1>1, EmptySeq
    <2>2. list[s] = <<>> => Len(list[s]) = 0  BY EmptySeq
    <2> QED  BY <2>1, <2>2
  <1> QED  BY <1>1, <1>2, <1>3, <1>5, <1>6, <1>7

\* The first of the lockers has the monitor, or waits, or is back from it.
LEMMA HeadIs ==
  ASSUME IndInv, list["mutex"] # <<>>
  PROVE  /\ Head(list["mutex"]) \in Workers /\ Head(list["mutex"]) \in Range(list["mutex"])
         /\ active[Head(list["mutex"])] = "mutex"
         /\ pc[Head(list["mutex"])] \in {"contend", "wait", "woken"}
  <1>1. Head(list["mutex"]) \in Workers /\ Head(list["mutex"]) \in Range(list["mutex"])
    BY ListFacts, StatesFacts
  <1>2. active[Head(list["mutex"])] = "mutex" /\ pc[Head(list["mutex"])] \in Queued
    BY <1>1, StatesFacts DEF IndInv, ListInv
  <1> QED  BY <1>1, <1>2 DEF IndInv, ListInv, Queued

\* A step that leaves the lists and the monitors alone.
LEMMA PcKeeps ==
  ASSUME IndInv, NEW w \in Workers, Others(w),
         UNCHANGED <<list, monitor, waiterCount, sigCount, signaled>>,
         \A v \in Workers \ {w} : active'[v] = active[v],
         \/ pc[w] \notin Queued /\ pc'[w] \notin Queued
         \/ active'[w] = active[w] /\ pc'[w] = pc[w]
         \/ active'[w] = active[w] /\ pc[w] = "wait" /\ pc'[w] = "woken"
  PROVE  ListInv' /\ CountInv'
  <1>1. \A v \in Workers :
          \/ pc[v] \notin Queued /\ pc'[v] \notin Queued
          \/ active'[v] = active[v] /\ pc'[v] = pc[v]
          \/ active'[v] = active[v] /\ pc[v] = "wait" /\ pc'[v] = "woken"
    BY DEF Others
  <1>2. ListInv'  BY <1>1 DEF IndInv, ListInv, Queued
  <1>3. CountInv'  BY <1>1 DEF IndInv, CountInv, Queued
  <1> QED  BY <1>2, <1>3

\* The constructor of Enter.
LEMMA EnterKeeps ==
  ASSUME IndInv, NEW w \in Workers, NEW s \in States, pc[w] \notin Queued, EnterState(w, s), Others(w),
         pc'[w] = IF s = "mutex" THEN "contend" ELSE "release",
         UNCHANGED <<waiterCount, sigCount, signaled>>
  PROVE  /\ ListInv' /\ CountInv' /\ Lists'
         /\ monitor' \in [States -> Workers \cup {NoWorker}] /\ active' \in [Workers -> States \cup {"none"}]
         /\ \A t \in States \ {s} : list'[t] = list[t]
         /\ list'[s] # <<>> /\ Head(list'[s]) = IF list[s] = <<>> THEN w ELSE Head(list[s])
  <1>1. /\ monitor[s] = NoWorker /\ monitor' = [monitor EXCEPT ![s] = w]
        /\ active' = [active EXCEPT ![w] = s]
        /\ list' = [list EXCEPT ![s] = Append(@, w)]
    BY DEF EnterState
  <1>2. /\ list[s] \in Seq(Workers) /\ IsInjective(list[s]) /\ w \notin Range(list[s])
        /\ Len(list[s]) \in Nat
    BY ListFacts DEF IndInv, ListInv
  <1>3. list' = [list EXCEPT ![s] = list'[s]] /\ list'[s] = Append(list[s], w)
        /\ \A t \in States \ {s} : list'[t] = list[t]
    BY <1>1 DEF IndInv, TypeOK
  <1>4. /\ list'[s] \in Seq(Workers) /\ IsInjective(list'[s])
        /\ Len(list'[s]) = Len(list[s]) + 1
        /\ Range(list'[s]) = Range(list[s]) \cup {w}
        /\ list'[s] # <<>> /\ Head(list'[s]) = IF list[s] = <<>> THEN w ELSE Head(list[s])
    BY <1>2, <1>3, AppendFacts
  <1>5. Lists'
    <2>1. list \in [States -> Seq(Workers)] /\ \A t \in States : IsInjective(list[t])  BY DEF IndInv, TypeOK
    <2>2. list' \in [States -> Seq(Workers)]  BY <2>1, <1>3, <1>4
    <2>3. \A t \in States : IsInjective(list'[t])  BY <2>1, <1>3, <1>4
    <2> QED  BY <2>2, <2>3 DEF Lists
  <1>6. monitor' \in [States -> Workers \cup {NoWorker}] /\ active' \in [Workers -> States \cup {"none"}]
    BY <1>1 DEF IndInv, TypeOK
  <1>7. /\ monitor'[s] = w /\ \A t \in States \ {s} : monitor'[t] = monitor[t]
        /\ active'[w] = s /\ \A v \in Workers \ {w} : active'[v] = active[v]
        /\ w # NoWorker
    BY <1>1, WorkerMutexAssumption DEF IndInv, TypeOK
  <1>8. ListInv'
    <2>1. ASSUME NEW t \in States, NEW v \in Workers
          PROVE  v \in Range(list'[t]) <=> active'[v] = t /\ pc'[v] \in Queued
      <3>1. v \in Range(list[t]) <=> active[v] = t /\ pc[v] \in Queued  BY DEF IndInv, ListInv
      <3>2. CASE v = w  BY <3>1, <3>2, <1>3, <1>4, <1>7 DEF Queued
      <3>3. CASE v # w  BY <3>1, <3>3, <1>3, <1>4, <1>7 DEF Others, Queued
      <3> QED  BY <3>2, <3>3
    <2>2. ASSUME NEW v \in Workers
          PROVE  /\ monitor'["mutex"] = v <=> pc'[v] = "contend"
                 /\ monitor'["cond"] = v <=> pc'[v] \in {"release", "check"}
      <3>1. /\ monitor["mutex"] = v <=> pc[v] = "contend"
            /\ monitor["cond"] = v <=> pc[v] \in {"release", "check"}
            /\ v # NoWorker
        BY WorkerMutexAssumption DEF IndInv, ListInv
      <3>2. CASE v = w  BY <3>1, <3>2, <1>7, StatesFacts DEF Queued
      <3>3. CASE v # w  BY <3>1, <3>3, <1>1, <1>7, StatesFacts DEF Others
      <3> QED  BY <3>2, <3>3
    <2>3. \A v \in Workers :
            /\ pc'[v] = "contend" => active'[v] = "mutex"
            /\ pc'[v] \in {"release", "check"} => active'[v] = "cond"
            /\ pc'[v] \in {"wait", "woken"} => active'[v] \in States
      BY <1>7, StatesFacts DEF IndInv, ListInv, Others
    <2> QED  BY <2>1, <2>2, <2>3 DEF ListInv
  <1>9. CountInv'
    <2>1. \A v \in Workers : signaled'[v] => pc'[v] = "woken" /\ v # w
      BY DEF IndInv, CountInv, Others, Queued
    <2>2. Marked(s)' = Marked(s)  BY <2>1, <1>4 DEF Marked
    <2>3. \A t \in States \ {s} : Marked(t)' = Marked(t)  BY <1>3 DEF Marked
    <2>4. \A t \in States : sigCount'[t] = Cardinality(Marked(t)')
      BY <2>2, <2>3, CountFacts
    <2>5. ASSUME NEW t \in States PROVE waiterCount'[t] = Len(list'[t]) - (IF monitor'[t] = NoWorker THEN 0 ELSE 1)
      <3>1. CASE t = s
        <4>0. waiterCount[s] = Len(list[s]) - (IF monitor[s] = NoWorker THEN 0 ELSE 1)  BY DEF IndInv, CountInv
        <4>1. waiterCount[s] = Len(list[s])  BY <4>0, <1>1, <1>2
        <4>2. Len(list'[s]) - 1 = Len(list[s])  BY <1>2, <1>4
        <4> QED  BY <3>1, <4>1, <4>2, <1>7
      <3>2. CASE t # s  BY <3>2, <1>3, <1>7, CountFacts
      <3> QED  BY <3>1, <3>2
    <2> QED  BY <2>1, <2>4, <2>5 DEF CountInv, Marked
  <1> QED  BY <1>3, <1>4, <1>5, <1>6, <1>8, <1>9

\* The destructor of Enter, in the monitor or on the way out of a wait.
LEMMA LeaveKeeps ==
  ASSUME IndInv, NEW w \in Workers, NEW s \in States, active[w] = s, pc[w] \in Queued, LeaveState(w, s), Others(w),
         pc'[w] \notin Queued, monitor[s] \in {w, NoWorker}, active' = active,
         \A v \in Workers \ {w} : signaled'[v] <=> signaled[v], ~signaled'[w],
         waiterCount'[s] = Len(list[s]) - 1, \A t \in States \ {s} : waiterCount'[t] = waiterCount[t],
         sigCount'[s] = IF signaled[w] THEN sigCount[s] - 1 ELSE sigCount[s],
         \A t \in States \ {s} : sigCount'[t] = sigCount[t]
  PROVE  /\ ListInv' /\ CountInv' /\ Lists'
         /\ monitor' \in [States -> Workers \cup {NoWorker}]
         /\ Len(list[s]) - 1 \in Nat /\ sigCount'[s] \in Nat
         /\ \A t \in States \ {s} : list'[t] = list[t]
         /\ Head(list[s]) # w => list'[s] # <<>> /\ Head(list'[s]) = Head(list[s])
  <1>1. PICK k \in DOMAIN list[s] : list[s][k] = w /\ list' = [list EXCEPT ![s] = RemoveAt(@, k)]
    BY DEF LeaveState
  <1>2. /\ list[s] \in Seq(Workers) /\ IsInjective(list[s]) /\ k \in 1..Len(list[s])
        /\ Len(list[s]) \in Nat
    BY ListFacts
  <1>3. list' = [list EXCEPT ![s] = list'[s]] /\ list'[s] = RemoveAt(list[s], k)
        /\ \A t \in States \ {s} : list'[t] = list[t]
    BY <1>1 DEF IndInv, TypeOK
  <1>4. /\ list'[s] \in Seq(Workers) /\ IsInjective(list'[s])
        /\ Len(list'[s]) = Len(list[s]) - 1
        /\ Range(list'[s]) = Range(list[s]) \ {w}
        /\ w \in Range(list[s])
        /\ Head(list[s]) # w => list'[s] # <<>> /\ Head(list'[s]) = Head(list[s])
    <2> DEFINE q == list[s]
    <2>1. q \in Seq(Workers) /\ IsInjective(q) /\ k \in 1..Len(q)  BY <1>2
    <2>2. q[k] = w /\ list'[s] = RemoveAt(q, k)  BY <1>1, <1>3
    <2> HIDE DEF q
    <2>3. /\ RemoveAt(q, k) \in Seq(Workers) /\ IsInjective(RemoveAt(q, k))
          /\ Len(RemoveAt(q, k)) = Len(q) - 1
          /\ Range(RemoveAt(q, k)) = Range(q) \ {q[k]}
          /\ q[k] \in Range(q)
          /\ Head(q) # q[k] => RemoveAt(q, k) # <<>> /\ Head(RemoveAt(q, k)) = Head(q)
      BY ONLY <2>1, UnlinkFacts
    <2> QED  BY <2>2, <2>3 DEF q
  <1>5. Lists'
    <2>1. list \in [States -> Seq(Workers)] /\ \A t \in States : IsInjective(list[t])  BY DEF IndInv, TypeOK
    <2>2. list' \in [States -> Seq(Workers)]  BY <2>1, <1>3, <1>4
    <2>3. \A t \in States : IsInjective(list'[t])  BY <2>1, <1>3, <1>4
    <2> QED  BY <2>2, <2>3 DEF Lists
  <1>6. /\ monitor' \in [States -> Workers \cup {NoWorker}]
        /\ monitor'[s] = NoWorker /\ \A t \in States \ {s} : monitor'[t] = monitor[t]
    BY DEF LeaveState, IndInv, TypeOK
  <1>7. ListInv'
    <2>1. \A t \in States, v \in Workers : v \in Range(list'[t]) <=> active'[v] = t /\ pc'[v] \in Queued
      BY <1>3, <1>4 DEF IndInv, ListInv, Queued, Others
    <2>2. ASSUME NEW v \in Workers
          PROVE  /\ monitor'["mutex"] = v <=> pc'[v] = "contend"
                 /\ monitor'["cond"] = v <=> pc'[v] \in {"release", "check"}
      <3>1. CASE v = w
        BY <3>1, <1>6, StatesFacts, WorkerMutexAssumption DEF IndInv, ListInv, Queued, Others
      <3>2. CASE v # w
        BY <3>2, <1>6, StatesFacts, WorkerMutexAssumption DEF IndInv, ListInv, Queued, Others
      <3> QED  BY <3>1, <3>2
    <2>3. \A v \in Workers :
            /\ pc'[v] = "contend" => active'[v] = "mutex"
            /\ pc'[v] \in {"release", "check"} => active'[v] = "cond"
            /\ pc'[v] \in {"wait", "woken"} => active'[v] \in States
      BY StatesFacts DEF IndInv, ListInv, Others, Queued
    <2> QED  BY <2>1, <2>2, <2>3 DEF ListInv
  <1>8. CountInv' /\ sigCount'[s] \in Nat
    <2>1. \A v \in Workers : signaled'[v] => pc'[v] = "woken"
      BY DEF IndInv, CountInv, Others, Queued
    <2>2. Marked(s)' = Marked(s) \ {w} /\ (w \in Marked(s) <=> signaled[w]) /\ Range(list[s]) \subseteq Workers
      BY <1>4, ListFacts DEF Marked
    <2>3. \A t \in States \ {s} : w \notin Range(list[t]) /\ Range(list[t]) \subseteq Workers
      BY ListFacts DEF IndInv, ListInv
    <2>4. \A t \in States \ {s} : Marked(t)' = Marked(t)  BY <1>3, <2>3 DEF Marked
    <2>5. sigCount[s] = Cardinality(Marked(s)) /\ Cardinality(Marked(s)) \in Nat /\ IsFiniteSet(Marked(s))
      BY ListFacts DEF IndInv, CountInv, Marked
    <2>6. /\ Cardinality(Marked(s) \ {w}) = IF w \in Marked(s) THEN Cardinality(Marked(s)) - 1 ELSE Cardinality(Marked(s))
          /\ IsFiniteSet(Marked(s) \ {w})
      BY <2>5, FS_RemoveElement
    <2>7. sigCount'[s] = Cardinality(Marked(s)') /\ sigCount'[s] \in Nat
      BY <2>2, <2>5, <2>6, FS_CardinalityType
    <2>8. \A t \in States \ {s} : sigCount'[t] = Cardinality(Marked(t)')
      BY <2>4, CountFacts
    <2>9. ASSUME NEW t \in States PROVE waiterCount'[t] = Len(list'[t]) - (IF monitor'[t] = NoWorker THEN 0 ELSE 1)
      <3>1. CASE t = s  BY <3>1, <1>2, <1>4, <1>6
      <3>2. CASE t # s
        <4>1. waiterCount[t] = Len(list[t]) - (IF monitor[t] = NoWorker THEN 0 ELSE 1)  BY CountFacts
        <4> QED  BY <3>2, <4>1, <1>3, <1>6
      <3> QED  BY <3>1, <3>2
    <2> QED  BY <2>1, <2>7, <2>8, <2>9 DEF CountInv, Marked
  <1>9. Len(list[s]) - 1 \in Nat  BY <1>2
  <1> QED  BY <1>3, <1>4, <1>5, <1>6, <1>7, <1>8, <1>9

\* Enter::wait: the monitor is released, and the record is counted.
LEMMA WaitKeeps ==
  ASSUME IndInv, NEW w \in Workers, NEW s \in States, pc[w] \in Queued, monitor[s] = w, active[w] = s, Others(w),
         pc'[w] = "wait", UNCHANGED <<list, active, sigCount, signaled>>,
         monitor' = [monitor EXCEPT ![s] = NoWorker], waiterCount' = [waiterCount EXCEPT ![s] = @ + 1]
  PROVE  /\ ListInv' /\ CountInv'
         /\ monitor' \in [States -> Workers \cup {NoWorker}] /\ waiterCount' \in [States -> Nat]
  <1>1. /\ monitor' \in [States -> Workers \cup {NoWorker}] /\ waiterCount' \in [States -> Nat]
        /\ monitor'[s] = NoWorker /\ \A t \in States \ {s} : monitor'[t] = monitor[t]
        /\ waiterCount'[s] = waiterCount[s] + 1 /\ \A t \in States \ {s} : waiterCount'[t] = waiterCount[t]
        /\ waiterCount[s] \in Nat /\ w # NoWorker
    BY WorkerMutexAssumption DEF IndInv, TypeOK
  <1>2. ListInv'
    <2>1. \A t \in States, v \in Workers : v \in Range(list'[t]) <=> active'[v] = t /\ pc'[v] \in Queued
      BY DEF IndInv, ListInv, Others, Queued
    <2>2. ASSUME NEW v \in Workers
          PROVE  /\ monitor'["mutex"] = v <=> pc'[v] = "contend"
                 /\ monitor'["cond"] = v <=> pc'[v] \in {"release", "check"}
      <3>1. /\ monitor["mutex"] = v <=> pc[v] = "contend"
            /\ monitor["cond"] = v <=> pc[v] \in {"release", "check"}
            /\ v # NoWorker
        BY WorkerMutexAssumption DEF IndInv, ListInv
      <3>2. CASE v = w  BY <3>1, <3>2, <1>1, StatesFacts DEF Queued
      <3>3. CASE v # w  BY <3>1, <3>3, <1>1, StatesFacts DEF Others
      <3> QED  BY <3>2, <3>3
    <2>3. \A v \in Workers :
            /\ pc'[v] = "contend" => active'[v] = "mutex"
            /\ pc'[v] \in {"release", "check"} => active'[v] = "cond"
            /\ pc'[v] \in {"wait", "woken"} => active'[v] \in States
      BY StatesFacts DEF IndInv, ListInv, Others, Queued
    <2> QED  BY <2>1, <2>2, <2>3 DEF ListInv
  <1>3. CountInv'
    <2>1. pc[w] # "woken"  BY StatesFacts DEF IndInv, ListInv
    <2>2. \A v \in Workers : signaled'[v] => pc'[v] = "woken"  BY <2>1 DEF IndInv, CountInv, Others
    <2>3. ASSUME NEW t \in States PROVE waiterCount'[t] = Len(list'[t]) - (IF monitor'[t] = NoWorker THEN 0 ELSE 1)
      <3>0. waiterCount[t] = Len(list[t]) - (IF monitor[t] = NoWorker THEN 0 ELSE 1) /\ Len(list[t]) \in Nat
        BY ListFacts DEF IndInv, CountInv
      <3>1. CASE t = s  BY <3>0, <3>1, <1>1
      <3>2. CASE t # s  BY <3>0, <3>2, <1>1
      <3> QED  BY <3>1, <3>2
    <2> QED  BY <2>2, <2>3 DEF IndInv, CountInv
  <1> QED  BY <1>1, <1>2, <1>3

\* Back in the monitor after a wait: w has it again, and its record is neither
\* counted nor marked.
LEMMA AwakeKeeps ==
  ASSUME IndInv, NEW w \in Workers, NEW s \in States, pc[w] = "woken", active[w] = s, monitor[s] = NoWorker, Others(w),
         ConsumeSignal(w, s), UNCHANGED <<list, active>>,
         \/ /\ pc'[w] = IF s = "mutex" THEN "contend" ELSE "check"
            /\ monitor' = [monitor EXCEPT ![s] = w]
            /\ waiterCount' = [waiterCount EXCEPT ![s] = @ - 1]
         \/ pc'[w] = "wait" /\ UNCHANGED <<monitor, waiterCount>>
  PROVE  /\ ListInv' /\ CountInv'
         /\ monitor' \in [States -> Workers \cup {NoWorker}] /\ waiterCount' \in [States -> Nat]
         /\ sigCount' \in [States -> Nat] /\ signaled' \in [Workers -> BOOLEAN]
  <1>1. w \in Range(list[s]) /\ w # NoWorker  BY WorkerMutexAssumption DEF IndInv, ListInv, Queued
  <1>2. /\ waiterCount[s] = Len(list[s]) /\ waiterCount[s] \in Nat \ {0}
    <2>1. waiterCount[s] = Len(list[s]) - (IF monitor[s] = NoWorker THEN 0 ELSE 1) /\ Len(list[s]) \in Nat
      BY ListFacts DEF IndInv, CountInv
    <2>2. list[s] # <<>>
      <3>1. Range(list[s]) = {list[s][j] : j \in 1..Len(list[s])}  BY ListFacts, RangeFacts
      <3>2. Len(list[s]) # 0  BY <3>1, <1>1
      <3> QED  BY <3>2, ListFacts
    <2> QED  BY <2>1, <2>2, ListFacts
  <1>3. /\ monitor' \in [States -> Workers \cup {NoWorker}] /\ waiterCount' \in [States -> Nat]
        /\ \A t \in States \ {s} : monitor'[t] = monitor[t] /\ waiterCount'[t] = waiterCount[t]
        /\ monitor'[s] \in {w, NoWorker} /\ (monitor'[s] = w <=> pc'[w] # "wait")
        /\ waiterCount'[s] = Len(list[s]) - (IF monitor'[s] = NoWorker THEN 0 ELSE 1)
    <2>0. monitor \in [States -> Workers \cup {NoWorker}] /\ waiterCount \in [States -> Nat]  BY DEF IndInv, TypeOK
    <2>1. CASE /\ pc'[w] = IF s = "mutex" THEN "contend" ELSE "check"
               /\ monitor' = [monitor EXCEPT ![s] = w]
               /\ waiterCount' = [waiterCount EXCEPT ![s] = @ - 1]
      <3>1. monitor'[s] = w /\ pc'[w] # "wait" /\ waiterCount'[s] = waiterCount[s] - 1  BY <2>0, <2>1
      <3> QED  BY <2>0, <2>1, <3>1, <1>1, <1>2
    <2>2. CASE pc'[w] = "wait" /\ UNCHANGED <<monitor, waiterCount>>
      BY <2>0, <2>2, <1>1, <1>2
    <2> QED  BY <2>1, <2>2
  <1>4. /\ signaled' \in [Workers -> BOOLEAN] /\ ~signaled'[w]
        /\ \A v \in Workers \ {w} : signaled'[v] = signaled[v]
        /\ sigCount'[s] = IF signaled[w] THEN sigCount[s] - 1 ELSE sigCount[s]
        /\ \A t \in States \ {s} : sigCount'[t] = sigCount[t]
        /\ sigCount' = [sigCount EXCEPT ![s] = sigCount'[s]]
    BY DEF ConsumeSignal, IndInv, TypeOK
  <1>5. ListInv'
    <2>1. \A t \in States, v \in Workers : v \in Range(list'[t]) <=> active'[v] = t /\ pc'[v] \in Queued
      BY DEF IndInv, ListInv, Others, Queued
    <2>2. ASSUME NEW v \in Workers
          PROVE  /\ monitor'["mutex"] = v <=> pc'[v] = "contend"
                 /\ monitor'["cond"] = v <=> pc'[v] \in {"release", "check"}
      <3>1. /\ monitor["mutex"] = v <=> pc[v] = "contend"
            /\ monitor["cond"] = v <=> pc[v] \in {"release", "check"}
            /\ v # NoWorker
        BY WorkerMutexAssumption DEF IndInv, ListInv
      <3>2. CASE v = w  BY <3>1, <3>2, <1>3, StatesFacts
      <3>3. CASE v # w  BY <3>1, <3>3, <1>3, StatesFacts DEF Others
      <3> QED  BY <3>2, <3>3
    <2>3. \A v \in Workers :
            /\ pc'[v] = "contend" => active'[v] = "mutex"
            /\ pc'[v] \in {"release", "check"} => active'[v] = "cond"
            /\ pc'[v] \in {"wait", "woken"} => active'[v] \in States
      BY StatesFacts DEF IndInv, ListInv, Others
    <2> QED  BY <2>1, <2>2, <2>3 DEF ListInv
  <1>6. sigCount'[s] \in Nat /\ sigCount'[s] = Cardinality(Marked(s)')
    <2>1. Marked(s)' = Marked(s) \ {w} /\ (w \in Marked(s) <=> signaled[w])
      <3>1. Range(list[s]) \subseteq Workers  BY ListFacts
      <3> QED  BY <3>1, <1>1, <1>4 DEF Marked
    <2>2. sigCount[s] = Cardinality(Marked(s)) /\ Cardinality(Marked(s)) \in Nat /\ IsFiniteSet(Marked(s))
      BY ListFacts DEF IndInv, CountInv, Marked
    <2>3. /\ Cardinality(Marked(s) \ {w}) = IF w \in Marked(s) THEN Cardinality(Marked(s)) - 1 ELSE Cardinality(Marked(s))
          /\ IsFiniteSet(Marked(s) \ {w})
      BY <2>2, FS_RemoveElement
    <2> QED  BY <2>1, <2>2, <2>3, <1>4, FS_CardinalityType
  <1>7. sigCount' \in [States -> Nat]  BY <1>4, <1>6 DEF IndInv, TypeOK
  <1>8. CountInv'
    <2>1. \A v \in Workers : signaled'[v] => pc'[v] = "woken"  BY <1>4 DEF IndInv, CountInv, Others
    <2>2. \A t \in States \ {s} : w \notin Range(list[t]) /\ Range(list[t]) \subseteq Workers
      BY ListFacts DEF IndInv, ListInv
    <2>3. \A t \in States \ {s} : Marked(t)' = Marked(t)  BY <1>4, <2>2 DEF Marked
    <2>4. ASSUME NEW t \in States PROVE sigCount'[t] = Cardinality(Marked(t)')
      <3>1. CASE t = s  BY <1>6, <3>1
      <3>2. CASE t # s
        <4>1. sigCount[t] = Cardinality(Marked(t))  BY CountFacts
        <4> QED  BY <1>4, <2>3, <3>2, <4>1
      <3> QED  BY <3>1, <3>2
    <2>5. ASSUME NEW t \in States PROVE waiterCount'[t] = Len(list'[t]) - (IF monitor'[t] = NoWorker THEN 0 ELSE 1)
      <3>0. waiterCount[t] = Len(list[t]) - (IF monitor[t] = NoWorker THEN 0 ELSE 1)  BY DEF IndInv, CountInv
      <3>1. CASE t = s  BY <3>1, <1>3
      <3>2. CASE t # s  BY <3>0, <3>2, <1>3
      <3> QED  BY <3>1, <3>2
    <2> QED  BY <2>1, <2>4, <2>5 DEF CountInv, Marked
  <1> QED  BY <1>3, <1>4, <1>5, <1>7, <1>8

\* A step that does not touch the mutex.
LEMMA LockStays ==
  ASSUME IndInv, UNCHANGED lockVars,
         \A w \in Workers : hold[w] > 0 => pc'[w] \in {"idle", "exit", "try"},
         \A w \in Workers : ~ReentrantTry /\ pc'[w] = "try" => hold[w] = 0
  PROVE  LockInv'
  BY DEF lockVars, IndInv, LockInv, OwnerExact

\* notifyAll wakes the workers that wait on s and nobody else.
LEMMA WakeAllFacts ==
  ASSUME IndInv, NEW s \in States
  PROVE  /\ WakeAll(s) \in [Workers -> Places]
         /\ \A v \in Workers : WakeAll(s)[v] = pc[v] \/ (pc[v] = "wait" /\ WakeAll(s)[v] = "woken")
         /\ \A v \in Workers : active[v] = s => WakeAll(s)[v] # "wait"
  BY DEF WakeAll, Waiting, IndInv, TypeOK, Places

\* A step after which nobody has been terminated is one before which nobody
\* had, and it marks no record.
LEMMA CalmKeeps ==
  ASSUME IndInv, UNCHANGED interrupted, Undisturbed => toSignal' = toSignal,
         \A v \in Workers : signaled'[v] => signaled[v],
         Undisturbed => \A v \in Workers : again'[v] => again[v]
  PROVE  CalmInv'
  BY DEF IndInv, CalmInv, Undisturbed

\* A step that leaves a free mutex with the first of its lockers, and takes
\* away neither a wake-up of that one nor a notification to come.
LEMMA HeadKeeps ==
  ASSUME IndInv, NEW w \in Workers, Others(w), UNCHANGED interrupted,
         (Undisturbed /\ os'.owner = NoWorker /\ list'["mutex"] # <<>>) =>
           /\ os.owner = NoWorker /\ list["mutex"] # <<>> /\ Head(list'["mutex"]) = Head(list["mutex"])
           /\ pc[w] \in {"notify", "release"} => pc'[w] \in {"notify", "release"}
           /\ Head(list["mutex"]) = w /\ pc[w] \in {"woken", "contend"} => pc'[w] \in {"woken", "contend"}
  PROVE  HeadInv'
  <1> SUFFICES ASSUME Undisturbed', os'.owner = NoWorker, list'["mutex"] # <<>>
               PROVE  \/ pc'[Head(list'["mutex"])] \in {"woken", "contend"}
                      \/ \E v \in Workers : pc'[v] \in {"notify", "release"}
    BY DEF HeadInv
  <1>1. Undisturbed  BY DEF Undisturbed
  <1>2. /\ os.owner = NoWorker /\ list["mutex"] # <<>> /\ Head(list'["mutex"]) = Head(list["mutex"])
        /\ pc[w] \in {"notify", "release"} => pc'[w] \in {"notify", "release"}
        /\ Head(list["mutex"]) = w /\ pc[w] \in {"woken", "contend"} => pc'[w] \in {"woken", "contend"}
    BY <1>1
  <1>3. \/ pc[Head(list["mutex"])] \in {"woken", "contend"}
        \/ \E v \in Workers : pc[v] \in {"notify", "release"}
    BY <1>1, <1>2 DEF IndInv, HeadInv
  <1>4. Head(list["mutex"]) \in Workers  BY <1>2, HeadIs
  <1>5. CASE pc[Head(list["mutex"])] \in {"woken", "contend"}
    BY <1>2, <1>4, <1>5 DEF Others
  <1>6. CASE \E v \in Workers : pc[v] \in {"notify", "release"}
    <2>1. PICK v \in Workers : pc[v] \in {"notify", "release"}  BY <1>6
    <2>2. pc'[v] \in {"notify", "release"}  BY <2>1, <1>2 DEF Others
    <2> QED  BY <2>2
  <1> QED  BY <1>3, <1>5, <1>6

\* A step that moves only w, outside Enter.
LEMMA PlainKeeps ==
  ASSUME IndInv, NEW w \in Workers, Others(w), TypeOK', LockInv',
         UNCHANGED <<list, monitor, waiterCount, sigCount, signaled, again, interrupted, toSignal>>,
         \A v \in Workers \ {w} : active'[v] = active[v],
         \/ pc[w] \notin Queued /\ pc'[w] \notin Queued
         \/ active'[w] = active[w] /\ pc'[w] = pc[w]
         \/ active'[w] = active[w] /\ pc[w] = "wait" /\ pc'[w] = "woken",
         \/ pc'[w] = "notify"
         \/ pc[w] # "notify" /\ (os'.owner = NoWorker => os.owner = NoWorker)
  PROVE  IndInv'
  <1>1. ListInv' /\ CountInv'  BY PcKeeps
  <1>2. CalmInv'  BY CalmKeeps
  <1>3. HeadInv'
    <2>1. CASE pc'[w] = "notify"  BY <2>1 DEF HeadInv
    <2>2. CASE pc[w] # "notify" /\ (os'.owner = NoWorker => os.owner = NoWorker)
      BY <2>2, HeadKeeps DEF Queued
    <2> QED  BY <2>1, <2>2
  <1> QED  BY <1>1, <1>2, <1>3 DEF IndInv

-----------------------------------------------------------------------------
\* A fresh mutex with its condition.
LEMMA InitInv == Init => IndInv
  <1> SUFFICES ASSUME Init PROVE IndInv  OBVIOUS
  <1>1. \A s \in States : list[s] = <<>>  BY DEF Init
  <1>2. <<>> \in Seq(Workers) /\ Len(<<>>) = 0  BY EmptySeq
  <1>3. \A s \in States : Range(list[s]) = {} /\ IsInjective(list[s])
    <2>1. DOMAIN <<>> = {}  BY <1>2
    <2>2. Range(<<>>) = {}  BY <2>1 DEF Range
    <2>3. IsInjective(<<>>)  BY <2>1 DEF IsInjective
    <2> QED  BY <1>1, <2>2, <2>3
  <1>4. TypeOK
    <2>1. list \in [States -> Seq(Workers)]  BY <1>2 DEF Init
    <2>2. os \in [owner : Workers \cup {NoWorker}, depth : Nat]  BY DEF Init
    <2> QED  BY <2>1, <2>2, <1>3 DEF Init, TypeOK, States, Kinds
  <1>5. LockInv  BY WorkerMutexAssumption DEF Init, LockInv, OwnerExact
  <1>6. ListInv
    <2>1. \A w \in Workers : pc[w] = "idle" /\ active[w] = "none" /\ w # NoWorker
      BY WorkerMutexAssumption DEF Init
    <2>2. monitor["mutex"] = NoWorker /\ monitor["cond"] = NoWorker  BY DEF Init, States
    <2> QED  BY <1>3, <2>1, <2>2 DEF ListInv, Queued, States
  <1>7. CountInv
    <2>1. \A s \in States : {w \in Range(list[s]) : signaled[w]} = {}  BY <1>3
    <2>2. Cardinality({}) = 0  BY FS_EmptySet
    <2>3. \A s \in States : /\ monitor[s] = NoWorker /\ waiterCount[s] = 0 /\ sigCount[s] = 0
                            /\ Len(list[s]) = 0
      BY <1>1, <1>2 DEF Init
    <2>4. \A w \in Workers : ~signaled[w]  BY DEF Init
    <2>5. \A s \in States : sigCount[s] = Cardinality({w \in Range(list[s]) : signaled[w]})
      BY <2>1, <2>2, <2>3
    <2>6. ASSUME NEW s \in States PROVE waiterCount[s] = Len(list[s]) - (IF monitor[s] = NoWorker THEN 0 ELSE 1)
      <3>1. monitor[s] = NoWorker /\ waiterCount[s] = 0 /\ Len(list[s]) = 0  BY <2>3
      <3>2. (IF monitor[s] = NoWorker THEN 0 ELSE 1) = 0  BY <3>1
      <3> QED  BY <3>1, <3>2
    <2> QED  BY <2>4, <2>5, <2>6 DEF CountInv
  <1>8. CalmInv  BY DEF Init, CalmInv
  <1>9. HeadInv
    <2>1. list["mutex"] = <<>>  BY <1>1, StatesFacts
    <2> QED  BY <2>1 DEF HeadInv
  <1> QED  BY <1>4, <1>5, <1>6, <1>7, <1>8, <1>9 DEF IndInv

\* lock() by the owner.
LEMMA LockAgainKeeps ==
  ASSUME IndInv, NEW w \in Workers, LockAgain(w)
  PROVE  IndInv'
  <1>1. /\ pc[w] = "idle" /\ pc'[w] = "exit" /\ \A v \in Workers \ {w} : pc'[v] = pc[v] /\ active'[v] = active[v]
        /\ \A v \in Workers \ {w} : hold'[v] = hold[v]
        /\ hold'[w] = hold[w] + 1 /\ recursion' = recursion + 1 /\ ownerID = w
        /\ hold \in [Workers -> Nat] /\ recursion \in Nat
    BY DEF LockAgain, IndInv, TypeOK
  <1>2. TypeOK'
    <2>1. hold' \in [Workers -> Nat] /\ recursion' \in Nat  BY <1>1 DEF LockAgain
    <2>2. active' \in [Workers -> States \cup {"none"}]  BY DEF LockAgain, IndInv, TypeOK, States
    <2>3. pc' \in [Workers -> Places]  BY DEF LockAgain, IndInv, TypeOK, Places
    <2> QED  BY <2>1, <2>2, <2>3 DEF LockAgain, IndInv, TypeOK, Places
  <1>3. LockInv'
    <2>1. /\ hold[w] > 0 /\ os.owner = w /\ recursion = hold[w] /\ w # NoWorker
          /\ \A v \in Workers \ {w} : ~(hold[v] > 0)
      BY <1>1, WorkerMutexAssumption DEF IndInv, LockInv, OwnerExact
    <2>2. OwnerExact'  BY <1>1, <2>1 DEF LockAgain, OwnerExact
    <2>3. \A v \in Workers : hold'[v] > 0 => pc'[v] \in {"idle", "exit", "try"}
      BY <1>1, <2>1
    <2>4. ~ReentrantTry => /\ os'.owner = ownerID' /\ os'.depth <= 1
                           /\ \A v \in Workers : pc'[v] = "try" => hold'[v] = 0
      BY <1>1, <2>1 DEF LockAgain, IndInv, LockInv
    <2>5. (os'.owner = NoWorker <=> os'.depth = 0) /\ (ownerID' = NoWorker => recursion' = 0)
      BY <1>1, <2>1 DEF LockAgain, IndInv, LockInv
    <2> QED  BY <2>2, <2>3, <2>4, <2>5 DEF LockInv
  <1>4. Others(w)  BY <1>1 DEF Others
  <1> QED  BY <1>1, <1>2, <1>3, <1>4, PlainKeeps DEF LockAgain, Queued

\* The end of Enter's destructor.
LEMMA ExitKeeps ==
  ASSUME IndInv, NEW w \in Workers, Exit(w)
  PROVE  IndInv'
  <1>1. /\ pc[w] \in {"exit", "exitDead", "exitAgain"}
        /\ pc[w] = "exit" => pc'[w] = "idle"
        /\ pc'[w] \in {"idle", "dead", "reenter"}
        /\ \A v \in Workers \ {w} : pc'[v] = pc[v] /\ active'[v] = active[v]
        /\ pc' \in [Workers -> Places]
    BY DEF Exit, IndInv, TypeOK, Places
  <1>2. TypeOK'  BY <1>1 DEF Exit, IndInv, TypeOK, Places, lockVars
  <1>3. LockInv'
    <2>1. \A v \in Workers : hold[v] > 0 => pc'[v] \in {"idle", "exit", "try"}
      BY <1>1 DEF IndInv, LockInv
    <2>2. \A v \in Workers : ~ReentrantTry /\ pc'[v] = "try" => hold[v] = 0
      BY <1>1 DEF IndInv, LockInv
    <2> QED  BY <2>1, <2>2, LockStays DEF Exit
  <1>4. Others(w)  BY <1>1 DEF Others
  <1> QED  BY <1>1, <1>2, <1>3, <1>4, PlainKeeps DEF Exit, Queued, lockVars

\* tryLock(), its first half.
LEMMA TryCheckKeeps ==
  ASSUME IndInv, NEW w \in Workers, TryCheck(w)
  PROVE  IndInv'
  <1>1. /\ pc[w] = "idle" /\ pc'[w] = "try" /\ \A v \in Workers \ {w} : pc'[v] = pc[v]
        /\ ~ReentrantTry => hold[w] = 0
    BY DEF TryCheck, IndInv, TypeOK
  <1>2. TypeOK'  BY DEF TryCheck, IndInv, TypeOK, lockVars, waitVars
  <1>3. LockInv'
    <2>1. \A v \in Workers : hold[v] > 0 => pc'[v] \in {"idle", "exit", "try"}
      BY <1>1 DEF IndInv, LockInv
    <2>2. \A v \in Workers : ~ReentrantTry /\ pc'[v] = "try" => hold[v] = 0
      BY <1>1 DEF IndInv, LockInv
    <2> QED  BY <2>1, <2>2, LockStays DEF TryCheck
  <1>4. Others(w)  BY <1>1 DEF Others
  <1> QED  BY <1>1, <1>2, <1>3, <1>4, PlainKeeps DEF TryCheck, Queued, lockVars, waitVars

\* tryLock(), its second half: a success makes w the owner.
LEMMA TryTakeKeeps ==
  ASSUME IndInv, NEW w \in Workers, TryTake(w)
  PROVE  IndInv'
  <1>1. /\ pc[w] = "try" /\ pc'[w] = "idle" /\ \A v \in Workers \ {w} : pc'[v] = pc[v]
        /\ UNCHANGED <<saved, list, waiterCount, sigCount, monitor, signaled, active, kind, expired, again,
                       interrupted, toSignal>>
    BY DEF TryTake, IndInv, TypeOK, waitVars
  <1>2. Others(w)  BY <1>1 DEF Others
  <1>3. CASE ~OsFree(w)
    <2>1. UNCHANGED lockVars  BY <1>1, <1>3 DEF TryTake, lockVars
    <2>2. TypeOK'  BY <1>1, <2>1 DEF TryTake, IndInv, TypeOK, lockVars
    <2>3. LockInv'
      <3>1. \A v \in Workers : hold[v] > 0 => pc'[v] \in {"idle", "exit", "try"}
        BY <1>1 DEF IndInv, LockInv
      <3>2. \A v \in Workers : ~ReentrantTry /\ pc'[v] = "try" => hold[v] = 0
        BY <1>1 DEF IndInv, LockInv
      <3> QED  BY <2>1, <3>1, <3>2, LockStays
    <2> QED  BY <1>1, <1>2, <2>1, <2>2, <2>3, PlainKeeps DEF Queued, lockVars
  <1>4. CASE OsFree(w)
    <2>1. /\ os' = [owner |-> w, depth |-> os.depth + 1] /\ ownerID' = w
          /\ recursion' = recursion + 1 /\ hold'[w] = hold[w] + 1
          /\ hold' = [hold EXCEPT ![w] = @ + 1]
          /\ \A v \in Workers \ {w} : hold'[v] = hold[v]
          /\ os.depth \in Nat /\ hold \in [Workers -> Nat] /\ recursion \in Nat /\ w # NoWorker
      BY <1>4, WorkerMutexAssumption DEF TryTake, OsTake, IndInv, TypeOK
    <2>2. TypeOK'
      <3>1. os' \in [owner : Workers \cup {NoWorker}, depth : Nat]  BY <2>1
      <3> QED  BY <1>1, <2>1, <3>1 DEF TryTake, IndInv, TypeOK
    <2>3. LockInv'
      <3>1. /\ \A v \in Workers \ {w} : ~(hold[v] > 0) /\ hold[v] = 0
            /\ recursion = hold[w]
        <4>1. \A v \in Workers \ {w} : ~(hold[v] > 0)
          BY <1>4, WorkerMutexAssumption DEF OsFree, IndInv, LockInv, OwnerExact
        <4>2. CASE hold[w] > 0  BY <4>1, <4>2, <2>1 DEF IndInv, LockInv, OwnerExact
        <4>3. CASE ~(hold[w] > 0)
          <5>1. ownerID \notin Workers  BY <4>1, <4>3 DEF IndInv, LockInv, OwnerExact
          <5>2. recursion = 0  BY <5>1 DEF IndInv, LockInv, TypeOK
          <5> QED  BY <4>1, <4>3, <5>2, <2>1
        <4> QED  BY <4>2, <4>3
      <3>2. OwnerExact'
        <4>1. os'.owner = w  BY <2>1
        <4> QED  BY <2>1, <3>1, <4>1 DEF OwnerExact
      <3>3. \A v \in Workers : hold'[v] > 0 => pc'[v] \in {"idle", "exit", "try"}
        BY <1>1, <2>1, <3>1
      <3>4. ~ReentrantTry => /\ os'.owner = ownerID' /\ os'.depth <= 1
                             /\ \A v \in Workers : pc'[v] = "try" => hold'[v] = 0
        <4> SUFFICES ASSUME ~ReentrantTry
                     PROVE  /\ os'.owner = ownerID' /\ os'.depth <= 1
                            /\ \A v \in Workers : pc'[v] = "try" => hold'[v] = 0
          OBVIOUS
        <4>1. os.owner = ownerID /\ hold[w] = 0  BY <1>1 DEF IndInv, LockInv
        <4>2. ownerID # w  BY <4>1, <2>1 DEF IndInv, LockInv, OwnerExact
        <4>3. os.owner = NoWorker /\ os.depth = 0  BY <1>4, <4>1, <4>2 DEF OsFree, IndInv, LockInv
        <4> QED  BY <1>1, <2>1, <3>1, <4>3
      <3>5. (os'.owner = NoWorker <=> os'.depth = 0) /\ (ownerID' = NoWorker => recursion' = 0)
        BY <2>1
      <3> QED  BY <3>2, <3>3, <3>4, <3>5 DEF LockInv
    <2> QED  BY <1>1, <1>2, <2>1, <2>2, <2>3, PlainKeeps DEF Queued
  <1> QED  BY <1>3, <1>4

\* unlock(): the last one frees the mutex, and a notification is to come.
LEMMA UnlockKeeps ==
  ASSUME IndInv, NEW w \in Workers, Unlock(w)
  PROVE  IndInv'
  <1>1. /\ pc[w] = "idle" /\ \A v \in Workers \ {w} : pc'[v] = pc[v]
        /\ ownerID = w /\ recursion' = recursion - 1 /\ hold'[w] = hold[w] - 1
        /\ \A v \in Workers \ {w} : hold'[v] = hold[v]
        /\ hold \in [Workers -> Nat] /\ recursion \in Nat /\ os.depth \in Nat /\ w # NoWorker
        /\ UNCHANGED <<saved, list, waiterCount, sigCount, monitor, signaled, active, kind, expired, again,
                       interrupted, toSignal>>
    BY WorkerMutexAssumption DEF Unlock, IndInv, TypeOK, waitVars
  <1>2. Others(w)  BY <1>1 DEF Others
  <1>3. /\ hold[w] > 0 /\ os.owner = w /\ recursion = hold[w]
        /\ \A v \in Workers \ {w} : ~(hold[v] > 0)
        /\ os.depth # 0
    BY <1>1 DEF IndInv, LockInv, OwnerExact
  <1>4. hold' \in [Workers -> Nat] /\ recursion' \in Nat
    <2>1. hold' = [hold EXCEPT ![w] = @ - 1]  BY DEF Unlock
    <2> QED  BY <2>1, <1>1, <1>3
  <1>5. CASE recursion = 1
    <2>1. /\ ownerID' = NoWorker /\ pc'[w] = "notify" /\ pc' \in [Workers -> Places]
          /\ os' = [owner |-> IF os.depth = 1 THEN NoWorker ELSE os.owner, depth |-> os.depth - 1]
      BY <1>5 DEF Unlock, OsGive, IndInv, TypeOK, Places
    <2>2. TypeOK'
      <3>1. os' \in [owner : Workers \cup {NoWorker}, depth : Nat]  BY <1>1, <1>3, <2>1
      <3> QED  BY <1>1, <1>4, <2>1, <3>1 DEF IndInv, TypeOK, Places
    <2>3. LockInv'
      <3>1. \A v \in Workers : hold'[v] = 0  BY <1>1, <1>3, <1>4, <1>5
      <3>2. OwnerExact'  BY <3>1, <2>1, WorkerMutexAssumption DEF OwnerExact
      <3>3. os'.owner = NoWorker <=> os'.depth = 0  BY <1>1, <1>3, <2>1
      <3>4. ~ReentrantTry => os'.owner = ownerID' /\ os'.depth <= 1
        BY <1>1, <1>3, <2>1 DEF IndInv, LockInv
      <3> QED  BY <1>1, <1>5, <2>1, <3>1, <3>2, <3>3, <3>4 DEF LockInv
    <2> QED  BY <1>1, <1>2, <2>1, <2>2, <2>3, PlainKeeps DEF Queued
  <1>6. CASE recursion # 1
    <2>1. UNCHANGED <<ownerID, os, pc>>  BY <1>6 DEF Unlock
    <2>2. TypeOK'  BY <1>1, <1>4, <2>1 DEF IndInv, TypeOK
    <2>3. LockInv'
      <3>1. hold'[w] > 0 /\ recursion' = hold'[w]  BY <1>1, <1>3, <1>6
      <3>2. OwnerExact'  BY <1>1, <1>3, <2>1, <3>1 DEF OwnerExact
      <3>3. \A v \in Workers : hold'[v] > 0 => pc'[v] \in {"idle", "exit", "try"}
        BY <1>1, <1>3, <2>1
      <3>4. ~ReentrantTry => /\ os'.owner = ownerID' /\ os'.depth <= 1
                             /\ \A v \in Workers : pc'[v] = "try" => hold'[v] = 0
        BY <1>1, <2>1 DEF IndInv, LockInv
      <3> QED  BY <1>1, <1>3, <2>1, <3>2, <3>3, <3>4 DEF LockInv
    <2> QED  BY <1>1, <1>2, <2>1, <2>2, <2>3, PlainKeeps DEF Queued
  <1> QED  BY <1>5, <1>6

\* A wait that ends for no reason or because its time is over, and a worker
\* that unwinds.
LEMMA SpuriousKeeps ==
  ASSUME IndInv, NEW w \in Workers, Spurious(w) \/ Expire(w) \/ Die(w)
  PROVE  IndInv'
  <1>1. /\ \/ pc[w] = "wait" /\ pc'[w] = "woken"
           \/ pc[w] = "idle" /\ pc'[w] = "dead" /\ ownerID # w
        /\ \A v \in Workers \ {w} : pc'[v] = pc[v]
        /\ pc' \in [Workers -> Places] /\ expired' \in [Workers -> BOOLEAN]
        /\ UNCHANGED <<lockVars, list, waiterCount, sigCount, monitor, signaled, active, kind, again,
                       interrupted, toSignal>>
    BY DEF Spurious, Expire, Die, IndInv, TypeOK, waitVars, Places
  <1>2. Others(w)  BY <1>1 DEF Others
  <1>3. TypeOK'  BY <1>1 DEF IndInv, TypeOK, Places, lockVars
  <1>4. LockInv'
    <2>1. \A v \in Workers : hold[v] > 0 => pc'[v] \in {"idle", "exit", "try"}
      BY <1>1 DEF IndInv, LockInv, OwnerExact
    <2>2. \A v \in Workers : ~ReentrantTry /\ pc'[v] = "try" => hold[v] = 0
      BY <1>1 DEF IndInv, LockInv
    <2> QED  BY <1>1, <2>1, <2>2, LockStays
  <1> QED  BY <1>1, <1>2, <1>3, <1>4, PlainKeeps DEF Queued, lockVars

\* notify() and notifyAll() of the condition.
LEMMA CondNotifyKeeps ==
  ASSUME IndInv, NEW w \in Workers, CondNotify(w) \/ CondNotifyAll(w)
  PROVE  IndInv'
  <1>1. /\ pc[w] = "idle" /\ UNCHANGED <<lockVars, waitVars, interrupted, toSignal>>
        /\ pc' \in [Workers -> Places]
        /\ \A v \in Workers : pc'[v] = pc[v] \/ (pc[v] = "wait" /\ pc'[v] = "woken")
    <2>1. CASE CondNotify(w)
      <3>1. PICK v \in Waiting("cond") : pc' = [pc EXCEPT ![v] = "woken"]  BY <2>1 DEF CondNotify
      <3>2. v \in Workers /\ pc[v] = "wait"  BY DEF Waiting
      <3> QED  BY <2>1, <3>1, <3>2 DEF CondNotify, IndInv, TypeOK, Places
    <2>2. CASE CondNotifyAll(w)  BY <2>2, WakeAllFacts, StatesFacts DEF CondNotifyAll
    <2> QED  BY <2>1, <2>2
  <1>2. Others(w) /\ pc'[w] = pc[w]  BY <1>1 DEF Others
  <1>3. TypeOK'  BY <1>1 DEF IndInv, TypeOK, Places, lockVars, waitVars
  <1>4. LockInv'
    <2>1. \A v \in Workers : hold[v] > 0 => pc'[v] \in {"idle", "exit", "try"}
      BY <1>1 DEF IndInv, LockInv
    <2>2. \A v \in Workers : ~ReentrantTry /\ pc'[v] = "try" => hold[v] = 0
      BY <1>1 DEF IndInv, LockInv
    <2> QED  BY <1>1, <2>1, <2>2, LockStays
  <1> QED  BY <1>1, <1>2, <1>3, <1>4, PlainKeeps DEF Queued, lockVars, waitVars

\* notifyAll on the mutex: its first locker is woken, if it was waiting.
LEMMA NotifyLockersKeeps ==
  ASSUME IndInv, NEW w \in Workers, NotifyLockers(w)
  PROVE  IndInv'
  <1>1. /\ pc[w] = "notify" /\ pc'[w] = "idle" /\ \A v \in Workers \ {w} : pc'[v] = WakeAll("mutex")[v]
        /\ pc' \in [Workers -> Places] /\ monitor["mutex"] = NoWorker
        /\ UNCHANGED <<lockVars, waitVars, interrupted, toSignal>>
    BY WakeAllFacts, StatesFacts DEF NotifyLockers, Places
  <1>2. Others(w)  BY <1>1, WakeAllFacts, StatesFacts DEF Others
  <1>3. TypeOK'  BY <1>1 DEF IndInv, TypeOK, Places, lockVars, waitVars
  <1>4. LockInv'
    <2>1. \A v \in Workers : hold[v] > 0 => pc'[v] \in {"idle", "exit", "try"}
      BY <1>1, <1>2 DEF IndInv, LockInv, Others
    <2>2. \A v \in Workers : ~ReentrantTry /\ pc'[v] = "try" => hold[v] = 0
      BY <1>1, <1>2 DEF IndInv, LockInv, Others
    <2> QED  BY <1>1, <2>1, <2>2, LockStays
  <1>5. ListInv' /\ CountInv'  BY <1>1, <1>2, PcKeeps DEF Queued, waitVars
  <1>6. CalmInv'  BY <1>1, CalmKeeps DEF waitVars
  <1>7. HeadInv'
    <2> SUFFICES ASSUME list["mutex"] # <<>> PROVE pc'[Head(list["mutex"])] = "woken"
      BY <1>1 DEF HeadInv, waitVars
    <2> DEFINE h == Head(list["mutex"])
    <2>1. h \in Workers /\ active[h] = "mutex" /\ pc[h] \in {"contend", "wait", "woken"}  BY HeadIs
    <2>2. pc[h] # "contend" /\ h # w
      BY <1>1, <2>1, WorkerMutexAssumption DEF IndInv, ListInv
    <2>3. pc'[h] = WakeAll("mutex")[h]  BY <1>1, <2>1, <2>2
    <2> QED  BY <2>1, <2>2, <2>3, WakeAllFacts, StatesFacts
  <1> QED  BY <1>3, <1>4, <1>5, <1>6, <1>7 DEF IndInv

\* lock() by another worker, and the re-acquisition after a wait.
LEMMA LockKeeps ==
  ASSUME IndInv, NEW w \in Workers, Lock(w) \/ Reenter(w)
  PROVE  IndInv'
  <1>1. /\ pc[w] \in {"idle", "reenter"} /\ (pc[w] = "idle" => ownerID # w) /\ EnterState(w, "mutex")
        /\ pc'[w] = "contend" /\ \A v \in Workers \ {w} : pc'[v] = pc[v]
        /\ pc' \in [Workers -> Places]
        /\ UNCHANGED <<lockVars, waiterCount, sigCount, signaled, kind, expired, again, interrupted, toSignal>>
    BY DEF Lock, Reenter, IndInv, TypeOK, Places
  <1>2. Others(w)  BY <1>1 DEF Others
  <1>3. /\ ListInv' /\ CountInv' /\ Lists'
        /\ monitor' \in [States -> Workers \cup {NoWorker}] /\ active' \in [Workers -> States \cup {"none"}]
        /\ Head(list'["mutex"]) = IF list["mutex"] = <<>> THEN w ELSE Head(list["mutex"])
    BY <1>1, <1>2, EnterKeeps, StatesFacts DEF Queued
  <1>4. TypeOK'  BY <1>1, <1>3 DEF Lists, IndInv, TypeOK, Places, lockVars
  <1>5. LockInv'
    <2>1. \A v \in Workers : hold[v] > 0 => pc'[v] \in {"idle", "exit", "try"}
      BY <1>1 DEF IndInv, LockInv, OwnerExact
    <2>2. \A v \in Workers : ~ReentrantTry /\ pc'[v] = "try" => hold[v] = 0
      BY <1>1 DEF IndInv, LockInv
    <2> QED  BY <1>1, <2>1, <2>2, LockStays
  <1>6. CalmInv'  BY <1>1, CalmKeeps
  <1>7. HeadInv'
    <2>1. CASE list["mutex"] = <<>>  BY <2>1, <1>1, <1>3 DEF HeadInv
    <2>2. CASE list["mutex"] # <<>>  BY <2>2, <1>1, <1>2, <1>3, HeadKeeps DEF lockVars
    <2> QED  BY <2>1, <2>2
  <1> QED  BY <1>3, <1>4, <1>5, <1>6, <1>7 DEF IndInv

\* The head of the list gets the mutex: it is free or w has it already.
LEMMA AcquireKeeps ==
  ASSUME IndInv, NEW w \in Workers, Acquire(w)
  PROVE  IndInv'
  <1>1. /\ pc[w] = "contend" /\ pc'[w] = "exit" /\ \A v \in Workers \ {w} : pc'[v] = pc[v]
        /\ pc' \in [Workers -> Places]
        /\ UNCHANGED <<waiterCount, sigCount, signaled, active, kind, expired, again, interrupted, toSignal>>
        /\ LeaveState(w, "mutex") /\ w # NoWorker
    BY WorkerMutexAssumption DEF Acquire, IndInv, TypeOK, Places
  <1>2. Others(w)  BY <1>1 DEF Others
  <1>3. /\ monitor["mutex"] = w /\ active[w] = "mutex" /\ ~signaled[w]
        /\ ~(hold[w] > 0) /\ hold[w] = 0
    <2>1. monitor["mutex"] = w /\ active[w] = "mutex" /\ ~signaled[w] /\ ~(hold[w] > 0)
      BY <1>1 DEF IndInv, ListInv, CountInv, LockInv
    <2>2. hold[w] \in Nat  BY DEF IndInv, TypeOK
    <2> QED  BY <2>1, <2>2
  <1>4. ListInv' /\ CountInv' /\ Lists' /\ monitor' \in [States -> Workers \cup {NoWorker}]
    <2>1. waiterCount["mutex"] = Len(list["mutex"]) - (IF monitor["mutex"] = NoWorker THEN 0 ELSE 1)
      BY StatesFacts DEF IndInv, CountInv
    <2>2. waiterCount'["mutex"] = Len(list["mutex"]) - 1  BY <2>1, <1>1, <1>3
    <2> QED  BY <1>1, <1>2, <1>3, <2>2, LeaveKeeps, StatesFacts DEF Queued
  <1>5. /\ os' = [owner |-> w, depth |-> os.depth + 1] /\ ownerID' = w
        /\ recursion' = (IF saved[w] = 0 THEN recursion + 1 ELSE saved[w])
        /\ hold' = [hold EXCEPT ![w] = IF saved[w] = 0 THEN 1 ELSE saved[w]]
        /\ saved' = [saved EXCEPT ![w] = 0]
        /\ os.depth \in Nat /\ hold \in [Workers -> Nat] /\ recursion \in Nat /\ saved \in [Workers -> Nat]
    BY DEF Acquire, OsTake, IndInv, TypeOK
  <1>6. /\ \A v \in Workers \ {w} : ~(hold[v] > 0) /\ hold'[v] = hold[v]
        /\ recursion = 0 /\ hold'[w] > 0 /\ recursion' = hold'[w]
    <2>1. \A v \in Workers \ {w} : ~(hold[v] > 0)
      BY <1>1 DEF Acquire, OsFree, IndInv, LockInv, OwnerExact
    <2>2. ownerID \notin Workers  BY <2>1, <1>3 DEF IndInv, LockInv, OwnerExact
    <2>3. recursion = 0  BY <2>2 DEF IndInv, LockInv, TypeOK
    <2> QED  BY <1>5, <2>1, <2>3
  <1>7. TypeOK'
    <2>1. os' \in [owner : Workers \cup {NoWorker}, depth : Nat]  BY <1>5
    <2>2. recursion' \in Nat /\ hold' \in [Workers -> Nat] /\ saved' \in [Workers -> Nat]  BY <1>5
    <2> QED  BY <1>1, <1>4, <1>5, <2>1, <2>2 DEF Lists, IndInv, TypeOK, Places
  <1>8. LockInv'
    <2>1. os'.owner = w /\ os'.depth = os.depth + 1  BY <1>5
    <2>2. OwnerExact'  BY <1>5, <1>6, <2>1 DEF OwnerExact
    <2>3. \A v \in Workers : hold'[v] > 0 => pc'[v] \in {"idle", "exit", "try"}
      BY <1>1, <1>6
    <2>4. ~ReentrantTry => /\ os'.owner = ownerID' /\ os'.depth <= 1
                           /\ \A v \in Workers : pc'[v] = "try" => hold'[v] = 0
      <3> SUFFICES ASSUME ~ReentrantTry
                   PROVE  /\ os'.owner = ownerID' /\ os'.depth <= 1
                          /\ \A v \in Workers : pc'[v] = "try" => hold'[v] = 0
        OBVIOUS
      <3>1. os.owner = ownerID  BY DEF IndInv, LockInv
      <3>2. ownerID # w  BY <1>3 DEF IndInv, LockInv, OwnerExact
      <3>3. os.depth = 0  BY <3>1, <3>2 DEF Acquire, OsFree, IndInv, LockInv
      <3>4. \A v \in Workers : pc[v] = "try" => hold[v] = 0  BY DEF IndInv, LockInv
      <3> QED  BY <1>1, <1>5, <1>6, <2>1, <3>3, <3>4
    <2>5. (os'.owner = NoWorker <=> os'.depth = 0) /\ (ownerID' = NoWorker => recursion' = 0)
      BY <1>1, <1>5, <2>1
    <2> QED  BY <2>2, <2>3, <2>4, <2>5 DEF LockInv
  <1>9. CalmInv'  BY <1>1, CalmKeeps
  <1>10. HeadInv'  BY <1>1, <1>5 DEF HeadInv
  <1> QED  BY <1>4, <1>7, <1>8, <1>9, <1>10 DEF IndInv

\* Enter::wait up to the condition variable, wherever it is called.
LEMMA BeginWaitKeeps ==
  ASSUME IndInv, NEW w \in Workers, NEW s \in States, NEW k \in Kinds, BeginWait(w, s, k),
         pc[w] \in {"contend", "check"}, active[w] = s, monitor[s] = w,
         UNCHANGED <<lockVars, sigCount, signaled, active, interrupted, toSignal>>,
         os.owner = NoWorker /\ list["mutex"] # <<>> => Head(list["mutex"]) # w
  PROVE  IndInv'
  <1>1. /\ pc' \in [Workers -> Places] /\ \A v \in Workers \ {w} : pc'[v] = pc[v]
        /\ kind' \in [Workers -> Kinds] /\ expired' \in [Workers -> BOOLEAN] /\ again' \in [Workers -> BOOLEAN]
        /\ pc'[w] = IF interrupted[w] THEN "exitDead" ELSE "wait"
        /\ \A v \in Workers : again'[v] => again[v]
    <2>0. /\ pc \in [Workers -> Places] /\ kind \in [Workers -> Kinds]
          /\ expired \in [Workers -> BOOLEAN] /\ again \in [Workers -> BOOLEAN]
      BY DEF IndInv, TypeOK, Places
    <2>1. CASE interrupted[w]
      <3>1. pc' = [pc EXCEPT ![w] = "exitDead"] /\ UNCHANGED <<kind, expired, again>>  BY <2>1 DEF BeginWait
      <3> QED  BY <2>0, <2>1, <3>1 DEF Places
    <2>2. CASE ~interrupted[w]
      <3>1. /\ pc' = [pc EXCEPT ![w] = "wait"] /\ kind' = [kind EXCEPT ![w] = k]
            /\ expired' = [expired EXCEPT ![w] = FALSE] /\ again' = [again EXCEPT ![w] = FALSE]
        BY <2>2 DEF BeginWait
      <3>2. /\ pc' \in [Workers -> Places] /\ kind' \in [Workers -> Kinds] /\ pc'[w] = "wait"
            /\ \A v \in Workers \ {w} : pc'[v] = pc[v]
        BY <2>0, <3>1 DEF Places
      <3>3. expired' \in [Workers -> BOOLEAN] /\ again' \in [Workers -> BOOLEAN]  BY <2>0, <3>1
      <3>4. \A v \in Workers : again'[v] => again[v]  BY <2>0, <3>1
      <3> QED  BY <2>2, <3>2, <3>3, <3>4
    <2> QED  BY <2>1, <2>2
  <1>2. Others(w)  BY <1>1 DEF Others
  <1>3. ~signaled[w] /\ ~(hold[w] > 0) /\ w # NoWorker
    BY WorkerMutexAssumption DEF IndInv, CountInv, LockInv
  <1>4. /\ ListInv' /\ CountInv' /\ Lists'
        /\ monitor' \in [States -> Workers \cup {NoWorker}] /\ waiterCount' \in [States -> Nat]
    <2>1. CASE interrupted[w]
      <3>1. LeaveState(w, s) /\ waiterCount' = waiterCount  BY <2>1 DEF BeginWait
      <3>2. waiterCount[s] = Len(list[s]) - (IF monitor[s] = NoWorker THEN 0 ELSE 1)
        BY DEF IndInv, CountInv
      <3>3. waiterCount'[s] = Len(list[s]) - 1  BY <3>1, <3>2, <1>3
      <3>4. waiterCount' \in [States -> Nat]  BY <3>1 DEF IndInv, TypeOK
      <3> QED  BY <1>1, <1>2, <1>3, <2>1, <3>1, <3>3, <3>4, LeaveKeeps DEF Queued
    <2>2. CASE ~interrupted[w]
      <3>1. /\ waiterCount' = [waiterCount EXCEPT ![s] = @ + 1]
            /\ monitor' = [monitor EXCEPT ![s] = NoWorker] /\ list' = list
        BY <2>2 DEF BeginWait
      <3>2. Lists'  BY <3>1 DEF Lists, IndInv, TypeOK
      <3> QED  BY <1>1, <1>2, <2>2, <3>1, <3>2, WaitKeeps DEF Queued
    <2> QED  BY <2>1, <2>2
  <1>5. TypeOK'  BY <1>1, <1>4 DEF Lists, IndInv, TypeOK, Places, lockVars
  <1>6. LockInv'
    <2>1. \A v \in Workers : hold[v] > 0 => pc'[v] \in {"idle", "exit", "try"}
      BY <1>1, <1>3 DEF IndInv, LockInv
    <2>2. \A v \in Workers : ~ReentrantTry /\ pc'[v] = "try" => hold[v] = 0
      BY <1>1 DEF IndInv, LockInv
    <2> QED  BY <2>1, <2>2, LockStays
  <1>7. CalmInv'  BY <1>1, CalmKeeps
  <1>8. HeadInv'
    <2>1. Undisturbed => list' = list  BY DEF Undisturbed, BeginWait
    <2> QED  BY <1>2, <2>1, HeadKeeps DEF lockVars
  <1> QED  BY <1>4, <1>5, <1>6, <1>7, <1>8 DEF IndInv

\* A locker that is not the first, or comes too late, waits.
LEMMA RefusedKeeps ==
  ASSUME IndInv, NEW w \in Workers, Refused(w)
  PROVE  IndInv'
  <1>1. /\ pc[w] = "contend" /\ BeginWait(w, "mutex", "forever") /\ "forever" \in Kinds
        /\ UNCHANGED <<lockVars, sigCount, signaled, active, interrupted, toSignal>>
        /\ os.owner = NoWorker => Head(list["mutex"]) # w
    BY DEF Refused, OsFree, Kinds
  <1>2. active[w] = "mutex" /\ monitor["mutex"] = w  BY <1>1 DEF IndInv, ListInv
  <1> QED  BY <1>1, <1>2, BeginWaitKeeps, StatesFacts

\* One more round of the wait on the condition.
LEMMA CondTickKeeps ==
  ASSUME IndInv, NEW w \in Workers, CondTick(w)
  PROVE  IndInv'
  <1>1. /\ pc[w] = "check" /\ BeginWait(w, "cond", "tick") /\ "tick" \in Kinds
        /\ UNCHANGED <<lockVars, sigCount, signaled, active, interrupted, toSignal>>
    BY DEF CondTick, Kinds
  <1>2. active[w] = "cond" /\ monitor["cond"] = w  BY <1>1 DEF IndInv, ListInv
  <1>3. list["mutex"] # <<>> => Head(list["mutex"]) # w  BY <1>2, HeadIs
  <1> QED  BY <1>1, <1>2, <1>3, BeginWaitKeeps, StatesFacts

\* The end of the wait on the condition.
LEMMA CondDoneKeeps ==
  ASSUME IndInv, NEW w \in Workers, CondDone(w)
  PROVE  IndInv'
  <1>1. /\ pc[w] = "check" /\ pc'[w] = "exitAgain" /\ \A v \in Workers \ {w} : pc'[v] = pc[v]
        /\ pc' \in [Workers -> Places] /\ LeaveState(w, "cond") /\ w # NoWorker
        /\ UNCHANGED <<lockVars, waiterCount, sigCount, signaled, active, kind, expired, again, interrupted, toSignal>>
    BY WorkerMutexAssumption DEF CondDone, IndInv, TypeOK, Places
  <1>2. Others(w)  BY <1>1 DEF Others
  <1>3. monitor["cond"] = w /\ active[w] = "cond" /\ ~signaled[w] /\ ~(hold[w] > 0)
    BY <1>1 DEF IndInv, ListInv, CountInv, LockInv
  <1>4. /\ ListInv' /\ CountInv' /\ Lists' /\ monitor' \in [States -> Workers \cup {NoWorker}]
        /\ list'["mutex"] = list["mutex"]
    <2>1. waiterCount["cond"] = Len(list["cond"]) - (IF monitor["cond"] = NoWorker THEN 0 ELSE 1)
      BY StatesFacts DEF IndInv, CountInv
    <2>2. waiterCount'["cond"] = Len(list["cond"]) - 1  BY <2>1, <1>1, <1>3
    <2> QED  BY <1>1, <1>2, <1>3, <2>2, LeaveKeeps, StatesFacts DEF Queued
  <1>5. TypeOK'  BY <1>1, <1>4 DEF Lists, IndInv, TypeOK, Places, lockVars
  <1>6. LockInv'
    <2>1. \A v \in Workers : hold[v] > 0 => pc'[v] \in {"idle", "exit", "try"}
      BY <1>1, <1>3 DEF IndInv, LockInv
    <2>2. \A v \in Workers : ~ReentrantTry /\ pc'[v] = "try" => hold[v] = 0
      BY <1>1 DEF IndInv, LockInv
    <2> QED  BY <1>1, <2>1, <2>2, LockStays
  <1>7. CalmInv'  BY <1>1, CalmKeeps
  <1>8. HeadInv'  BY <1>1, <1>2, <1>4, HeadKeeps DEF lockVars
  <1> QED  BY <1>4, <1>5, <1>6, <1>7, <1>8 DEF IndInv

\* A wait that goes round again, or is over.
LEMMA WakeKeeps ==
  ASSUME IndInv, NEW w \in Workers, WaitAgain(w) \/ Awake(w)
  PROVE  IndInv'
  <1> DEFINE s == active[w]
  <1>1. pc[w] = "woken" /\ monitor[s] = NoWorker /\ ConsumeSignal(w, s)
    BY DEF WaitAgain, Awake
  <1>2. s \in States /\ ~(hold[w] > 0) /\ w # NoWorker
    BY <1>1, WorkerMutexAssumption DEF IndInv, ListInv, LockInv
  <1>3. UNCHANGED <<lockVars, active, kind, expired, interrupted, toSignal>>
    BY DEF WaitAgain, Awake
  <1>4. /\ pc' \in [Workers -> Places] /\ \A v \in Workers \ {w} : pc'[v] = pc[v]
        /\ pc'[w] \in {"wait", "exitDead", "contend", "check"}
    <2>1. pc \in [Workers -> Places]  BY DEF IndInv, TypeOK, Places
    <2>2. \E p \in {"wait", "exitDead", "contend", "check"} : pc' = [pc EXCEPT ![w] = p]
      BY DEF WaitAgain, Awake
    <2>3. {"wait", "exitDead", "contend", "check"} \subseteq Places  BY DEF Places
    <2> QED  BY <2>1, <2>2, <2>3
  <1>5. Others(w)  BY <1>4 DEF Others
  <1>6. again' \in [Workers -> BOOLEAN] /\ \A v \in Workers \ {w} : again'[v] = again[v]
    BY DEF WaitAgain, Awake, IndInv, TypeOK
  <1>7. Undisturbed => Awake(w) /\ ~interrupted[w] /\ ~again'[w]
    <2> SUFFICES ASSUME Undisturbed PROVE Awake(w) /\ ~interrupted[w] /\ ~again'[w]  OBVIOUS
    <2>1. ~interrupted[w] /\ ~signaled[w] /\ ~again[w]  BY DEF IndInv, CalmInv, Undisturbed
    <2>2. ~Continue(w)  BY <2>1 DEF Continue
    <2>3. Awake(w)  BY <2>2 DEF WaitAgain
    <2>4. again' = [again EXCEPT ![w] = FALSE] /\ again \in [Workers -> BOOLEAN]
      BY <2>3 DEF Awake, IndInv, TypeOK
    <2> QED  BY <2>1, <2>3, <2>4
  <1>8. /\ ListInv' /\ CountInv' /\ Lists'
        /\ monitor' \in [States -> Workers \cup {NoWorker}] /\ waiterCount' \in [States -> Nat]
        /\ sigCount' \in [States -> Nat] /\ signaled' \in [Workers -> BOOLEAN]
    <2>1. CASE WaitAgain(w) \/ ~interrupted[w]
      <3>1. /\ list' = list
            /\ \/ /\ pc'[w] = IF s = "mutex" THEN "contend" ELSE "check"
                  /\ monitor' = [monitor EXCEPT ![s] = w]
                  /\ waiterCount' = [waiterCount EXCEPT ![s] = @ - 1]
               \/ pc'[w] = "wait" /\ UNCHANGED <<monitor, waiterCount>>
        <4>1. CASE WaitAgain(w)  BY <4>1 DEF WaitAgain, IndInv, TypeOK
        <4>2. CASE Awake(w) /\ ~interrupted[w]  BY <4>2 DEF Awake, IndInv, TypeOK
        <4> QED  BY <2>1, <4>1, <4>2
      <3>2. Lists'  BY <3>1 DEF Lists, IndInv, TypeOK
      <3> HIDE DEF s
      <3> QED  BY <1>1, <1>2, <1>3, <1>5, <3>1, <3>2, AwakeKeeps DEF s
    <2>2. CASE Awake(w) /\ interrupted[w]
      <3>1. /\ LeaveState(w, s) /\ pc'[w] = "exitDead"
            /\ waiterCount' = [waiterCount EXCEPT ![s] = @ - 1]
        BY <2>2 DEF Awake, IndInv, TypeOK
      <3>2. waiterCount[s] = Len(list[s]) - (IF monitor[s] = NoWorker THEN 0 ELSE 1) /\ Len(list[s]) \in Nat
        BY <1>2, ListFacts DEF IndInv, CountInv
      <3>3. waiterCount'[s] = Len(list[s]) - 1 /\ \A t \in States \ {s} : waiterCount'[t] = waiterCount[t]
        <4>1. waiterCount \in [States -> Nat]  BY DEF IndInv, TypeOK
        <4>2. waiterCount'[s] = waiterCount[s] - 1 /\ \A t \in States \ {s} : waiterCount'[t] = waiterCount[t]
          BY <4>1, <3>1, <1>2
        <4> QED  BY <4>2, <3>2, <1>1
      <3>4. /\ ~signaled'[w] /\ \A v \in Workers \ {w} : signaled'[v] <=> signaled[v]
            /\ sigCount'[s] = IF signaled[w] THEN sigCount[s] - 1 ELSE sigCount[s]
            /\ \A t \in States \ {s} : sigCount'[t] = sigCount[t]
            /\ signaled' \in [Workers -> BOOLEAN]
            /\ sigCount' = [sigCount EXCEPT ![s] = sigCount'[s]]
        BY <1>1, <1>2 DEF ConsumeSignal, IndInv, TypeOK
      <3>5. /\ ListInv' /\ CountInv' /\ Lists' /\ monitor' \in [States -> Workers \cup {NoWorker}]
            /\ Len(list[s]) - 1 \in Nat /\ sigCount'[s] \in Nat
        <4> HIDE DEF s
        <4> QED  BY <1>1, <1>2, <1>3, <1>5, <3>1, <3>3, <3>4, LeaveKeeps DEF Queued, s
      <3>6. waiterCount' \in [States -> Nat] /\ sigCount' \in [States -> Nat]
        <4>1. waiterCount \in [States -> Nat] /\ sigCount \in [States -> Nat]  BY DEF IndInv, TypeOK
        <4>2. waiterCount' = [waiterCount EXCEPT ![s] = Len(list[s]) - 1]  BY <3>1, <3>2, <1>1
        <4> QED  BY <3>4, <3>5, <4>1, <4>2
      <3> QED  BY <3>4, <3>5, <3>6
    <2> QED  BY <2>1, <2>2
  <1>9. TypeOK'  BY <1>3, <1>4, <1>6, <1>8 DEF Lists, IndInv, TypeOK, Places, lockVars
  <1>10. LockInv'
    <2>1. \A v \in Workers : hold[v] > 0 => pc'[v] \in {"idle", "exit", "try"}
      BY <1>2, <1>4 DEF IndInv, LockInv
    <2>2. \A v \in Workers : ~ReentrantTry /\ pc'[v] = "try" => hold[v] = 0
      BY <1>4 DEF IndInv, LockInv
    <2> QED  BY <1>3, <2>1, <2>2, LockStays
  <1>11. CalmInv'
    <2>1. \A v \in Workers : signaled'[v] => signaled[v]
      BY <1>1, <1>2 DEF ConsumeSignal, IndInv, TypeOK
    <2>2. Undisturbed => \A v \in Workers : again'[v] => again[v]  BY <1>6, <1>7
    <2> QED  BY <1>3, <2>1, <2>2, CalmKeeps
  <1>12. HeadInv'
    <2>1. Undisturbed => list' = list /\ pc'[w] = IF s = "mutex" THEN "contend" ELSE "check"
      BY <1>7 DEF Awake, IndInv, TypeOK
    <2>2. list["mutex"] # <<>> /\ Head(list["mutex"]) = w => s = "mutex"  BY HeadIs
    <2> QED  BY <1>1, <1>3, <1>5, <2>1, <2>2, HeadKeeps DEF lockVars
  <1> QED  BY <1>8, <1>9, <1>10, <1>11, <1>12 DEF IndInv

\* Condition.wait: the whole count is kept in saved, and the mutex is free,
\* unless tryLock had taken it more than once.
LEMMA CondWaitKeeps ==
  ASSUME IndInv, NEW w \in Workers, NEW k \in {"forever", "timed"}, CondWait(w, k)
  PROVE  IndInv'
  <1>1. /\ pc[w] = "idle" /\ pc'[w] = "release" /\ \A v \in Workers \ {w} : pc'[v] = pc[v]
        /\ pc' \in [Workers -> Places] /\ EnterState(w, "cond") /\ kind' \in [Workers -> Kinds] /\ w # NoWorker
        /\ UNCHANGED <<waiterCount, sigCount, signaled, expired, again, interrupted, toSignal>>
    BY WorkerMutexAssumption DEF CondWait, IndInv, TypeOK, Places, Kinds
  <1>2. Others(w)  BY <1>1 DEF Others
  <1>3. /\ ListInv' /\ CountInv' /\ Lists'
        /\ monitor' \in [States -> Workers \cup {NoWorker}] /\ active' \in [Workers -> States \cup {"none"}]
    BY <1>1, <1>2, EnterKeeps, StatesFacts DEF Queued
  <1>4. /\ ownerID = w /\ ownerID' = NoWorker /\ recursion' = 0
        /\ saved' = [saved EXCEPT ![w] = recursion] /\ hold' = [hold EXCEPT ![w] = 0]
        /\ os' = [owner |-> IF os.depth = 1 THEN NoWorker ELSE os.owner, depth |-> os.depth - 1]
        /\ os.depth \in Nat /\ os.owner \in Workers \cup {NoWorker}
        /\ hold \in [Workers -> Nat] /\ recursion \in Nat /\ saved \in [Workers -> Nat]
    BY DEF CondWait, OsGive, IndInv, TypeOK
  <1>5. /\ os.owner = w /\ os.depth # 0 /\ \A v \in Workers \ {w} : ~(hold[v] > 0)
    BY <1>1, <1>4 DEF IndInv, LockInv, OwnerExact
  <1>6. TypeOK'
    <2>1. os' \in [owner : Workers \cup {NoWorker}, depth : Nat]  BY <1>4, <1>5
    <2>2. recursion' \in Nat /\ hold' \in [Workers -> Nat] /\ saved' \in [Workers -> Nat]  BY <1>4
    <2> QED  BY <1>1, <1>3, <1>4, <2>1, <2>2 DEF Lists, IndInv, TypeOK, Places
  <1>7. LockInv'
    <2>1. \A v \in Workers : hold'[v] = 0  BY <1>4, <1>5
    <2>2. OwnerExact'  BY <2>1, <1>4, WorkerMutexAssumption DEF OwnerExact
    <2>3. os'.owner = NoWorker <=> os'.depth = 0  BY <1>1, <1>4, <1>5
    <2>4. ~ReentrantTry => os'.owner = ownerID' /\ os'.depth <= 1
      BY <1>4, <1>5 DEF IndInv, LockInv
    <2> QED  BY <1>4, <2>1, <2>2, <2>3, <2>4 DEF LockInv
  <1>8. CalmInv'  BY <1>1, CalmKeeps
  <1>9. HeadInv'  BY <1>1 DEF HeadInv
  <1> QED  BY <1>3, <1>6, <1>7, <1>8, <1>9 DEF IndInv

\* The notification of the lockers from inside Condition.wait.
LEMMA CondReleaseKeeps ==
  ASSUME IndInv, NEW w \in Workers, CondRelease(w)
  PROVE  IndInv'
  <1>1. /\ pc[w] = "release" /\ monitor["mutex"] = NoWorker
        /\ UNCHANGED <<lockVars, sigCount, signaled, active, kind, interrupted, toSignal>>
    BY DEF CondRelease
  <1>2. /\ pc'[w] = IF interrupted[w] THEN "exitDead" ELSE "wait"
        /\ \A v \in Workers \ {w} : pc'[v] = WakeAll("mutex")[v]
        /\ pc' \in [Workers -> Places]
    BY WakeAllFacts, StatesFacts DEF CondRelease, Places
  <1>3. Others(w)  BY <1>2, WakeAllFacts, StatesFacts DEF Others
  <1>4. monitor["cond"] = w /\ active[w] = "cond" /\ ~signaled[w] /\ ~(hold[w] > 0) /\ w # NoWorker
    BY <1>1, WorkerMutexAssumption DEF IndInv, ListInv, CountInv, LockInv
  <1>5. /\ expired' \in [Workers -> BOOLEAN] /\ again' \in [Workers -> BOOLEAN]
        /\ \A v \in Workers : again'[v] => again[v]
    <2>0. expired \in [Workers -> BOOLEAN] /\ again \in [Workers -> BOOLEAN]  BY DEF IndInv, TypeOK
    <2>1. CASE interrupted[w]
      <3>1. UNCHANGED <<expired, again>>  BY <2>1 DEF CondRelease
      <3> QED  BY <2>0, <3>1
    <2>2. CASE ~interrupted[w]
      <3>1. expired' = [expired EXCEPT ![w] = FALSE] /\ again' = [again EXCEPT ![w] = FALSE]
        BY <2>2 DEF CondRelease
      <3> QED  BY <2>0, <3>1
    <2> QED  BY <2>1, <2>2
  <1>6. /\ ListInv' /\ CountInv' /\ Lists' /\ list'["mutex"] = list["mutex"]
        /\ monitor' \in [States -> Workers \cup {NoWorker}] /\ waiterCount' \in [States -> Nat]
    <2>1. CASE interrupted[w]
      <3>1. LeaveState(w, "cond") /\ waiterCount' = waiterCount  BY <2>1 DEF CondRelease
      <3>2. waiterCount["cond"] = Len(list["cond"]) - (IF monitor["cond"] = NoWorker THEN 0 ELSE 1)
        BY StatesFacts DEF IndInv, CountInv
      <3>3. waiterCount'["cond"] = Len(list["cond"]) - 1  BY <3>1, <3>2, <1>4
      <3>4. waiterCount' \in [States -> Nat]  BY <3>1 DEF IndInv, TypeOK
      <3> QED  BY <1>1, <1>2, <1>3, <1>4, <2>1, <3>1, <3>3, <3>4, LeaveKeeps, StatesFacts DEF Queued
    <2>2. CASE ~interrupted[w]
      <3>1. /\ waiterCount' = [waiterCount EXCEPT !["cond"] = @ + 1]
            /\ monitor' = [monitor EXCEPT !["cond"] = NoWorker] /\ list' = list
        BY <2>2 DEF CondRelease
      <3>2. Lists'  BY <3>1 DEF Lists, IndInv, TypeOK
      <3> QED  BY <1>1, <1>2, <1>3, <1>4, <2>2, <3>1, <3>2, WaitKeeps, StatesFacts DEF Queued
    <2> QED  BY <2>1, <2>2
  <1>7. TypeOK'  BY <1>1, <1>2, <1>5, <1>6 DEF Lists, IndInv, TypeOK, Places, lockVars
  <1>8. LockInv'
    <2>1. \A v \in Workers : hold[v] > 0 => pc'[v] \in {"idle", "exit", "try"}
      BY <1>3, <1>4 DEF IndInv, LockInv, Others
    <2>2. \A v \in Workers : ~ReentrantTry /\ pc'[v] = "try" => hold[v] = 0
      BY <1>2, <1>3 DEF IndInv, LockInv, Others
    <2> QED  BY <1>1, <2>1, <2>2, LockStays
  <1>9. CalmInv'  BY <1>1, <1>5, CalmKeeps
  <1>10. HeadInv'
    <2> SUFFICES ASSUME list["mutex"] # <<>> PROVE pc'[Head(list["mutex"])] = "woken"
      BY <1>6 DEF HeadInv
    <2> DEFINE h == Head(list["mutex"])
    <2>1. h \in Workers /\ active[h] = "mutex" /\ pc[h] \in {"contend", "wait", "woken"}  BY HeadIs
    <2>2. pc[h] # "contend" /\ h # w
      BY <1>1, <2>1, WorkerMutexAssumption DEF IndInv, ListInv
    <2>3. pc'[h] = WakeAll("mutex")[h]  BY <1>2, <2>1, <2>2
    <2> QED  BY <2>1, <2>2, <2>3, WakeAllFacts, StatesFacts
  <1> QED  BY <1>6, <1>7, <1>8, <1>9, <1>10 DEF IndInv

\* A termination request.
LEMMA TerminateKeeps ==
  ASSUME IndInv, NEW w \in Workers, Terminate(w)
  PROVE  IndInv'
  <1>1. /\ interrupted' = [interrupted EXCEPT ![w] = TRUE] /\ toSignal' = toSignal \cup {w}
        /\ UNCHANGED <<pc, lockVars, waitVars>>
    BY DEF Terminate
  <1>2. TypeOK'  BY <1>1 DEF IndInv, TypeOK, lockVars, waitVars
  <1>3. LockInv'
    <2>1. \A v \in Workers : hold[v] > 0 => pc'[v] \in {"idle", "exit", "try"}
      BY <1>1 DEF IndInv, LockInv
    <2>2. \A v \in Workers : ~ReentrantTry /\ pc'[v] = "try" => hold[v] = 0
      BY <1>1 DEF IndInv, LockInv
    <2> QED  BY <1>1, <2>1, <2>2, LockStays
  <1>4. ListInv' /\ CountInv'
    <2>1. Others(w)  BY <1>1 DEF Others
    <2> QED  BY <1>1, <2>1, PcKeeps DEF waitVars
  <1>5. ~Undisturbed'
    <2>1. interrupted'[w]  BY <1>1 DEF IndInv, TypeOK
    <2> QED  BY <2>1 DEF Undisturbed
  <1> QED  BY <1>2, <1>3, <1>4, <1>5 DEF IndInv, CalmInv, HeadInv

\* The signal that follows it: every record of the list is marked.
LEMMA SignalKeeps ==
  ASSUME IndInv, NEW w \in Workers, Signal(w)
  PROVE  IndInv'
  <1>0. PICK s \in States \cup {"none"} : s = active[w]  BY DEF IndInv, TypeOK
  <1>1. /\ w \in toSignal /\ toSignal' = toSignal \ {w}
        /\ UNCHANGED <<lockVars, list, waiterCount, monitor, active, kind, expired, again, interrupted>>
    BY DEF Signal
  <1>2. ~Undisturbed'
    <2>1. ~Undisturbed  BY <1>1 DEF IndInv, CalmInv
    <2> QED  BY <2>1, <1>1 DEF Undisturbed
  <1>3. CASE UNCHANGED <<pc, sigCount, signaled>>
    <2>1. TypeOK'  BY <1>1, <1>3 DEF IndInv, TypeOK, lockVars
    <2>2. LockInv'
      <3>1. \A v \in Workers : hold[v] > 0 => pc'[v] \in {"idle", "exit", "try"}
        BY <1>3 DEF IndInv, LockInv
      <3>2. \A v \in Workers : ~ReentrantTry /\ pc'[v] = "try" => hold[v] = 0
        BY <1>3 DEF IndInv, LockInv
      <3> QED  BY <1>1, <3>1, <3>2, LockStays
    <2>3. ListInv' /\ CountInv'
      <3>1. Others(w)  BY <1>3 DEF Others
      <3> QED  BY <1>1, <1>3, <3>1, PcKeeps
    <2> QED  BY <1>2, <2>1, <2>2, <2>3 DEF IndInv, CalmInv, HeadInv
  <1>4. CASE ~ UNCHANGED <<pc, sigCount, signaled>>
    <2>1. /\ s # "none" /\ monitor[s] = NoWorker
          /\ sigCount' = [sigCount EXCEPT ![s] = waiterCount[s]]
          /\ signaled' = [v \in Workers |-> signaled[v] \/ v \in Range(list[s])]
          /\ pc' = WakeAll(s)
      BY <1>0, <1>4 DEF Signal
    <2>2. s \in States  BY <2>1, <1>0
    <2>3. /\ pc' \in [Workers -> Places]
          /\ \A v \in Workers : pc'[v] = pc[v] \/ (pc[v] = "wait" /\ pc'[v] = "woken")
          /\ \A v \in Workers : active[v] = s => pc'[v] # "wait"
      BY <2>1, <2>2, WakeAllFacts
    <2>4. /\ signaled' \in [Workers -> BOOLEAN]
          /\ \A v \in Workers : signaled'[v] <=> signaled[v] \/ v \in Range(list[s])
      <3>1. \A v \in Workers : (signaled[v] \/ v \in Range(list[s])) \in BOOLEAN  OBVIOUS
      <3> QED  BY <2>1, <3>1
    <2>5. /\ sigCount' \in [States -> Nat] /\ sigCount'[s] = waiterCount[s]
          /\ \A t \in States \ {s} : sigCount'[t] = sigCount[t]
      BY <2>1, <2>2 DEF IndInv, TypeOK
    <2>6. TypeOK'  BY <1>1, <2>3, <2>4, <2>5 DEF IndInv, TypeOK, lockVars, Places
    <2>7. LockInv'
      <3>1. \A v \in Workers : hold[v] > 0 => pc'[v] \in {"idle", "exit", "try"}
        BY <2>3 DEF IndInv, LockInv
      <3>2. \A v \in Workers : ~ReentrantTry /\ pc'[v] = "try" => hold[v] = 0
        BY <2>3 DEF IndInv, LockInv
      <3> QED  BY <1>1, <3>1, <3>2, LockStays
    <2>8. ListInv'
      <3>1. \A v \in Workers : /\ pc'[v] \in Queued <=> pc[v] \in Queued
                               /\ pc'[v] = "contend" <=> pc[v] = "contend"
                               /\ pc'[v] \in {"release", "check"} <=> pc[v] \in {"release", "check"}
                               /\ pc'[v] \in {"wait", "woken"} <=> pc[v] \in {"wait", "woken"}
        BY <2>3 DEF Queued
      <3> QED  BY <1>1, <3>1 DEF IndInv, ListInv
    <2>9. CountInv'
      <3>1. \A t \in States : Range(list[t]) \subseteq Workers  BY ListFacts
      <3>2. ASSUME NEW v \in Workers, signaled'[v] PROVE pc'[v] = "woken"
        <4>1. CASE signaled[v]  BY <4>1, <2>3 DEF IndInv, CountInv
        <4>2. CASE v \in Range(list[s])
          <5>1. active[v] = s /\ pc[v] \in Queued  BY <4>2, <2>2 DEF IndInv, ListInv
          <5>2. pc[v] \in {"wait", "woken"}
            <6>1. v # NoWorker  BY WorkerMutexAssumption
            <6>2. pc[v] = "contend" => s = "mutex" /\ monitor["mutex"] = v  BY <5>1 DEF IndInv, ListInv
            <6>3. pc[v] \in {"release", "check"} => s = "cond" /\ monitor["cond"] = v  BY <5>1 DEF IndInv, ListInv
            <6> QED  BY <5>1, <6>1, <6>2, <6>3, <2>1 DEF Queued
          <5> QED  BY <5>1, <5>2, <2>3
        <4> QED  BY <3>2, <4>1, <4>2, <2>4
      <3>3. Marked(s)' = Range(list[s])  BY <1>1, <2>2, <2>4, <3>1 DEF Marked
      <3>4. sigCount'[s] = Cardinality(Marked(s)')
        <4>1. waiterCount[s] = Len(list[s]) - (IF monitor[s] = NoWorker THEN 0 ELSE 1) /\ Len(list[s]) \in Nat
              /\ Cardinality(Range(list[s])) = Len(list[s])
          BY <2>2, ListFacts DEF IndInv, CountInv
        <4>2. waiterCount[s] = Len(list[s])  BY <4>1, <2>1
        <4> QED  BY <4>1, <4>2, <3>3, <2>5
      <3>5. ASSUME NEW t \in States, t # s PROVE sigCount'[t] = Cardinality(Marked(t)')
        <4>1. \A v \in Range(list[t]) : v \in Workers /\ v \notin Range(list[s])
          BY <3>1, <3>5, <2>2 DEF IndInv, ListInv
        <4>2. \A v \in Range(list[t]) : signaled'[v] <=> signaled[v]  BY <4>1, <2>4
        <4>3. Marked(t)' = Marked(t)  BY <1>1, <4>2 DEF Marked
        <4>4. sigCount[t] = Cardinality(Marked(t))  BY DEF IndInv, CountInv, Marked
        <4> QED  BY <4>3, <4>4, <2>5, <3>5
      <3>6. \A t \in States : sigCount'[t] = Cardinality(Marked(t)')  BY <3>4, <3>5
      <3>7. \A t \in States : waiterCount'[t] = Len(list'[t]) - (IF monitor'[t] = NoWorker THEN 0 ELSE 1)
        BY <1>1 DEF IndInv, CountInv
      <3> QED  BY <3>2, <3>6, <3>7 DEF CountInv, Marked
    <2> QED  BY <1>2, <2>6, <2>7, <2>8, <2>9 DEF IndInv, CalmInv, HeadInv
  <1> QED  BY <1>3, <1>4

\* Every step keeps the inductive invariant.
LEMMA NextInv == IndInv /\ [Next]_vars => IndInv'
  <1> SUFFICES ASSUME IndInv, [Next]_vars PROVE IndInv'  OBVIOUS
  <1>1. CASE UNCHANGED vars
    <2>1. UNCHANGED <<pc, lockVars, waitVars, interrupted, toSignal>>  BY <1>1 DEF vars
    <2>2. TypeOK' /\ LockInv'  BY <2>1 DEF lockVars, waitVars, IndInv, TypeOK, LockInv, OwnerExact
    <2>3. ListInv'  BY <2>1 DEF waitVars, IndInv, ListInv
    <2>4. CountInv'  BY <2>1 DEF waitVars, IndInv, CountInv
    <2>5. CalmInv' /\ HeadInv'
      BY <2>1 DEF lockVars, waitVars, IndInv, CalmInv, HeadInv, Undisturbed
    <2> QED  BY <2>2, <2>3, <2>4, <2>5 DEF IndInv
  <1>2. CASE Next
    <2>1. PICK w \in Workers : Call(w) \/ Proceed(w) \/ Spurious(w) \/ Terminate(w) \/ Signal(w)
      BY <1>2 DEF Next
    <2>2. CASE Call(w)
      BY <2>2, LockAgainKeeps, LockKeeps, TryCheckKeeps, UnlockKeeps, CondWaitKeeps, CondNotifyKeeps DEF Call
    <2>3. CASE MutexStep(w)
      BY <2>3, AcquireKeeps, RefusedKeeps, ExitKeeps, TryTakeKeeps, NotifyLockersKeeps DEF MutexStep
    <2>4. CASE WaitStep(w)  BY <2>4, WakeKeeps DEF WaitStep
    <2>5. CASE CondStep(w)
      BY <2>5, CondReleaseKeeps, CondDoneKeeps, CondTickKeeps, LockKeeps DEF CondStep
    <2>6. CASE Expire(w) \/ Die(w) \/ Spurious(w)  BY <2>6, SpuriousKeeps
    <2>7. CASE Terminate(w)  BY <2>7, TerminateKeeps
    <2>8. CASE Signal(w)  BY <2>8, SignalKeeps
    <2> QED  BY <2>1, <2>2, <2>3, <2>4, <2>5, <2>6, <2>7, <2>8 DEF Proceed
  <1> QED  BY <1>1, <1>2

-----------------------------------------------------------------------------
\* The inductive invariant of the mutex and its condition.
THEOREM Invariance == Spec => []IndInv
  <1>1. Init => IndInv  BY InitInv
  <1>2. IndInv /\ [Next]_vars => IndInv'  BY NextInv
  <1> QED  BY <1>1, <1>2, PTL DEF Spec

\* However many workers lock, try, unlock, wait and are terminated, the mutex
\* has one owner, whose count is the number of its locks.
THEOREM MutexExactHolds == Spec => []MutexExact
  <1>1. IndInv => MutexExact  BY DEF IndInv, LockInv, MutexExact
  <1> QED  BY <1>1, Invariance, PTL

\* Where no worker calls tryLock() on a mutex it owns, the mutex is free as
\* soon as every lock was undone.
THEOREM FullyReleasedHolds == ~ReentrantTry => (Spec => []FullyReleased)
  <1> SUFFICES ASSUME ~ReentrantTry PROVE Spec => []FullyReleased  OBVIOUS
  <1>1. IndInv => FullyReleased
    <2> SUFFICES ASSUME IndInv, \A w \in Workers : hold[w] = 0 PROVE os.owner = NoWorker
      BY DEF FullyReleased
    <2>1. ownerID \notin Workers  BY DEF IndInv, LockInv, OwnerExact
    <2>2. ownerID = NoWorker  BY <2>1 DEF IndInv, TypeOK
    <2> QED  BY <2>2 DEF IndInv, LockInv
  <1> QED  BY <1>1, Invariance, PTL

\* Whenever a monitor is free its two counters are those of its list.
THEOREM CountsExactHolds == Spec => []CountsExact
  <1>1. IndInv => CountsExact
    <2> SUFFICES ASSUME IndInv, NEW s \in States, monitor[s] = NoWorker
                 PROVE  /\ waiterCount[s] = Len(list[s])
                        /\ sigCount[s] = Cardinality({w \in Range(list[s]) : signaled[w]})
      BY DEF CountsExact
    <2>1. waiterCount[s] = Len(list[s]) - (IF monitor[s] = NoWorker THEN 0 ELSE 1) /\ Len(list[s]) \in Nat
      BY ListFacts DEF IndInv, CountInv
    <2>2. waiterCount[s] = Len(list[s])  BY <2>1
    <2> QED  BY <2>2 DEF IndInv, CountInv
  <1> QED  BY <1>1, Invariance, PTL

\* Without a termination no wake-up of the first locker is lost.
THEOREM HeadNotStrandedHolds == Spec => []HeadNotStranded
  <1>1. IndInv => HeadNotStranded
    <2> SUFFICES ASSUME IndInv, Undisturbed, os.owner = NoWorker, monitor["mutex"] = NoWorker, list["mutex"] # <<>>
                 PROVE  \/ pc[Head(list["mutex"])] = "woken"
                        \/ \E w \in Workers : pc[w] \in {"notify", "release"}
      BY DEF HeadNotStranded
    <2>1. Head(list["mutex"]) \in Workers  BY HeadIs
    <2>2. pc[Head(list["mutex"])] # "contend"  BY <2>1, WorkerMutexAssumption DEF IndInv, ListInv
    <2> QED  BY <2>2 DEF IndInv, HeadInv
  <1> QED  BY <1>1, Invariance, PTL
=============================================================================
