---------------------------- MODULE ChannelProofs ----------------------------
(***************************************************************************)
(* Channel for every length of the buffer, number of tries and number of   *)
(* items: no index leaves its buffer, available() is exact, and the        *)
(* channel implements FifoChannel.                                         *)
(***************************************************************************)
EXTENDS Channel, SequenceTheorems, TLAPS

\* The sizes: every index that is kept is one of the buffer, which never
\* shrinks, and a put() under way has an item left to put.
SizeInv ==
    /\ Length >= 2 /\ {putAt, getAt} \subseteq 0..Length - 1
    /\ overflow # <<>> => Len(overflow) >= Length
    /\ putPc # "idle" => sent < MaxItems

\* What fallback and the overflow buffer are while a side has the monitor.
MonitorInv ==
    /\ putPc = "swap" => /\ getPc \notin {"swap", "restore"}
                         /\ fallback = putAt /\ Wrap(head + 1) = putAt /\ overflow = <<>>
    /\ getPc = "swap" => fallback = getAt /\ tail = getAt /\ overflow = <<>>
    /\ getPc = "restore" => fallback # NoFb /\ overflow = <<>>
    /\ fallback = NoFb => overflow = <<>>

\* The faked states.  A buffer that looks empty was full, and its items are in
\* the overflow buffer unless the channel was closed; one that looks full is
\* empty, and its receiver sleeps unless the channel was closed.
FakeInv ==
    Faked =>
        /\ overflow # <<>> => head = tail
        /\ head = tail => /\ Wrap(head + 1) = fallback
                          /\ overflow = <<>> => eof /\ putPc \in {"idle", "top"}
        /\ head # tail => /\ tail = fallback /\ Wrap(head + 1) = tail
                          /\ getPc \in {"wait", "woken", "idle", "top"} /\ (getPc # "wait" => eof)

\* What a put() without the monitor knows: the head it has read is still the
\* head, and has room behind it, unless get() has faked full.
PutInv ==
    /\ putPc \in {"index", "room", "full", "store"} => overflow = <<>>
    /\ putPc \in {"room", "store"} /\ ~Faked => putAt = head
    /\ putPc = "store" => IF Faked THEN putAt # head ELSE Wrap(head + 1) # tail

\* What a get() without the monitor knows: the tail it has read is still the
\* tail, with an item, unless put() has faked empty.
GetInv ==
    /\ getPc \in {"any", "take"} /\ ~Faked => getAt = tail
    /\ getPc = "take" => IF Faked THEN getAt # tail ELSE head # tail

IndInv == TypeOK /\ SizeInv /\ MonitorInv /\ FakeInv /\ PutInv /\ GetInv

-----------------------------------------------------------------------------
Items == 0..MaxItems

\* The index after i in a buffer of n slots, for the arithmetic of indices.
LEMMA NextIndex ==
  ASSUME NEW n \in Nat, n >= 2
  PROVE  /\ \A i \in 0..(n - 1) : /\ (i + 1) % n \in 0..(n - 1) /\ (i + 1) % n # i
                                  /\ (i + 1) % n = IF i = n - 1 THEN 0 ELSE i + 1
         /\ \A i, j \in 0..(n - 1) : (i + 1) % n = (j + 1) % n => i = j
  <1>1. \A i \in 0..(n - 1) : (i + 1) % n = IF i = n - 1 THEN 0 ELSE i + 1
    OBVIOUS
  <1> QED  BY <1>1

\* The sizes and types that the steps refer to.
LEMMA SizeFacts ==
  ASSUME IndInv
  PROVE  /\ Len(buf) \in Nat /\ Len(buf) >= 2 /\ buf \in Seq(Items)
         /\ head \in 0..(Len(buf) - 1) /\ tail \in 0..(Len(buf) - 1)
         /\ putAt \in 0..(Len(buf) - 1) /\ getAt \in 0..(Len(buf) - 1)
         /\ fallback \in Int /\ fallback \in -1..(Len(buf) - 1)
         /\ sent \in Nat /\ sent <= MaxItems /\ MaxItems \in Nat
         /\ overflow \in Seq(Items) /\ Len(overflow) \in Nat
         /\ overflow # <<>> => overflowHead \in 1..(Len(overflow) - 1)
  <1>1. buf \in Seq(Items) /\ overflow \in Seq(Items)  BY DEF IndInv, TypeOK, Items
  <1>2. Len(buf) \in Nat /\ Len(overflow) \in Nat  BY <1>1, LenProperties
  <1>3. Len(buf) >= 2 /\ putAt \in 0..(Len(buf) - 1) /\ getAt \in 0..(Len(buf) - 1)
    BY DEF IndInv, SizeInv, Length
  <1> QED  BY <1>1, <1>2, <1>3, ChannelAssumption DEF IndInv, TypeOK, Length

\* Steps of put() that change nothing but its own state.
LEMMA PutWalks ==
  ASSUME IndInv, PutBegin \/ PutTop \/ PutIndex \/ PutRoom \/ PutFull \/ PutWoken \/ SpuriousWake
  PROVE  IndInv'
  <1>1. UNCHANGED <<bufVars, eof, getVars>> /\ putPc # "swap" /\ putPc' # "swap"
    BY DEF PutBegin, PutTop, PutIndex, PutRoom, PutFull, PutWoken, SpuriousWake, PutReturn
  <1>2. Faked' <=> Faked  BY <1>1 DEF Faked, MonitorFree, bufVars, getVars
  <1>3. TypeOK'
    <2>1. putTries' \in 0..Tries + 1 /\ sent' \in 0..MaxItems
      <3>1. putTries \in 0..Tries + 1 /\ Tries \in Nat  BY ChannelAssumption DEF IndInv, TypeOK
      <3>2. putTries' \in {putTries, 0, Count(putTries)}
        BY DEF PutBegin, PutTop, PutIndex, PutRoom, PutFull, PutWoken, SpuriousWake, PutReturn
      <3>3. putTries' \in 0..Tries + 1  BY <3>1, <3>2 DEF Count
      <3>4. putPc # "idle" => sent + 1 <= MaxItems  BY SizeFacts DEF IndInv, SizeInv
      <3>5. CASE PutBegin \/ PutIndex \/ PutRoom \/ PutFull \/ SpuriousWake
        BY <3>3, <3>5, SizeFacts DEF PutBegin, PutIndex, PutRoom, PutFull, SpuriousWake
      <3>6. CASE PutTop \/ PutWoken
        <4>1. putPc # "idle" /\ sent' \in {sent, sent + 1}  BY <3>6 DEF PutTop, PutWoken, PutReturn
        <4>2. sent \in Nat /\ MaxItems \in Nat /\ sent <= MaxItems  BY SizeFacts
        <4>3. sent \in 0..MaxItems /\ sent + 1 \in 0..MaxItems  BY <3>4, <4>1, <4>2
        <4> QED  BY <3>3, <4>1, <4>3
      <3> QED  BY <3>5, <3>6
    <2>2. putPc' \in {"idle", "top", "index", "room", "full", "store", "lock", "swap", "wait", "woken"}
      BY DEF PutBegin, PutTop, PutIndex, PutRoom, PutFull, PutWoken, SpuriousWake, PutReturn
    <2> QED  BY <1>1, <2>1, <2>2 DEF IndInv, TypeOK, bufVars, getVars, Length
  <1>4. SizeInv'
    <2>1. putAt' \in 0..(Len(buf) - 1)
      BY SizeFacts DEF PutBegin, PutTop, PutIndex, PutRoom, PutFull, PutWoken, SpuriousWake
    <2>2. putPc' # "idle" => sent' < MaxItems
      BY DEF PutBegin, PutTop, PutIndex, PutRoom, PutFull, PutWoken, SpuriousWake, PutReturn, IndInv, SizeInv
    <2> QED  BY <1>1, <2>1, <2>2 DEF IndInv, SizeInv, bufVars, getVars, Length
  <1>5. MonitorInv'  BY <1>1 DEF IndInv, MonitorInv, bufVars, getVars, Wrap, Length
  <1>6. FakeInv'
    <2>1. putPc \in {"idle", "top"} /\ eof => putPc' \in {"idle", "top"}
      BY DEF PutBegin, PutTop, PutIndex, PutRoom, PutFull, PutWoken, SpuriousWake, PutReturn
    <2> QED  BY <1>1, <1>2, <2>1 DEF IndInv, FakeInv, bufVars, getVars, Wrap, Length
  <1>7. PutInv'
    <2>1. CASE PutBegin \/ PutTop \/ PutFull \/ PutWoken \/ SpuriousWake
      BY <1>1, <2>1 DEF PutBegin, PutTop, PutFull, PutWoken, SpuriousWake, PutReturn, PutInv, IndInv, MonitorInv, bufVars
    <2>2. CASE PutIndex
      BY <1>1, <1>2, <2>2 DEF PutIndex, PutInv, IndInv, bufVars
    <2>3. CASE PutRoom
      <3>1. PutInv  BY DEF IndInv
      <3>2. Faked => head # tail /\ Wrap(head + 1) = tail
        BY <2>3 DEF IndInv, FakeInv, PutInv, PutRoom
      <3> QED  BY <1>1, <1>2, <2>3, <3>1, <3>2 DEF PutRoom, PutInv, bufVars, Wrap, Length
    <2> QED  BY <2>1, <2>2, <2>3
  <1>8. GetInv'  BY <1>1, <1>2 DEF IndInv, GetInv, bufVars, getVars
  <1> QED  BY <1>3, <1>4, <1>5, <1>6, <1>7, <1>8 DEF IndInv

\* Steps of get() that change nothing but its own state.
LEMMA GetWalks ==
  ASSUME IndInv, GetBegin \/ GetTop \/ GetIndex \/ GetAny \/ GetEmpty \/ GetDone \/ GetNull \/ GetWoken
  PROVE  IndInv'
  <1>1. /\ UNCHANGED <<bufVars, eof, putVars>>
        /\ getPc \notin {"swap", "restore"} /\ getPc' \notin {"swap", "restore"}
    BY DEF GetBegin, GetTop, GetIndex, GetAny, GetEmpty, GetDone, GetNull, GetWoken
  <1>2. Faked' <=> Faked  BY <1>1 DEF Faked, MonitorFree, bufVars, putVars
  <1>3. TypeOK'
    <2>1. getTries' \in 0..Tries + 1 /\ out' \in 0..MaxItems /\ received' \in Seq(0..MaxItems)
      <3>1. getTries' \in 0..Tries + 1
        <4>1. getTries \in 0..Tries + 1 /\ Tries \in Nat  BY ChannelAssumption DEF IndInv, TypeOK
        <4>2. getTries' \in {getTries, 0, Count(getTries)}
          BY DEF GetBegin, GetTop, GetIndex, GetAny, GetEmpty, GetDone, GetNull, GetWoken
        <4> QED  BY <4>1, <4>2 DEF Count
      <3>2. out \in 0..MaxItems /\ received \in Seq(0..MaxItems)  BY DEF IndInv, TypeOK
      <3>3. Append(received, out) \in Seq(0..MaxItems)  BY <3>2, AppendProperties
      <3> QED  BY <3>1, <3>2, <3>3 DEF GetBegin, GetTop, GetIndex, GetAny, GetEmpty, GetDone, GetNull, GetWoken
    <2>2. getPc' \in {"idle", "top", "index", "any", "empty", "take", "done", "lock", "restore",
                      "swap", "wait", "woken", "crash"}
      BY DEF GetBegin, GetTop, GetIndex, GetAny, GetEmpty, GetDone, GetNull, GetWoken
    <2> QED  BY <1>1, <2>1, <2>2 DEF IndInv, TypeOK, bufVars, putVars, Length
  <1>4. SizeInv'
    <2>1. getAt' \in 0..(Len(buf) - 1)
      BY SizeFacts DEF GetBegin, GetTop, GetIndex, GetAny, GetEmpty, GetDone, GetNull, GetWoken
    <2> QED  BY <1>1, <2>1 DEF IndInv, SizeInv, bufVars, putVars, Length
  <1>5. MonitorInv'  BY <1>1 DEF IndInv, MonitorInv, bufVars, putVars, Wrap, Length
  <1>6. FakeInv'
    <2>1. getPc \in {"wait", "woken", "idle", "top"} /\ (getPc # "wait" => eof) =>
          getPc' \in {"wait", "woken", "idle", "top"} /\ (getPc' # "wait" => eof)
      BY DEF GetBegin, GetTop, GetIndex, GetAny, GetEmpty, GetDone, GetNull, GetWoken
    <2> QED  BY <1>1, <1>2, <2>1 DEF IndInv, FakeInv, bufVars, putVars, Wrap, Length
  <1>7. PutInv'  BY <1>1, <1>2 DEF IndInv, PutInv, bufVars, putVars, Wrap, Length
  <1>8. GetInv'
    <2>1. CASE GetBegin \/ GetTop \/ GetEmpty \/ GetDone \/ GetNull \/ GetWoken
      BY <2>1 DEF GetBegin, GetTop, GetEmpty, GetDone, GetNull, GetWoken, GetInv
    <2>2. CASE GetIndex  BY <2>2, <1>1, <1>2 DEF GetIndex, GetInv, IndInv, bufVars
    <2>3. CASE GetAny
      <3>1. Faked => head = tail  BY <2>3 DEF IndInv, FakeInv, GetAny
      <3> QED  BY <1>1, <1>2, <2>3, <3>1 DEF GetAny, GetInv, IndInv, bufVars
    <2> QED  BY <2>1, <2>2, <2>3
  <1> QED  BY <1>3, <1>4, <1>5, <1>6, <1>7, <1>8 DEF IndInv

\* The number of the next item.
LEMMA ItemFacts ==
  ASSUME IndInv, putPc # "idle"
  PROVE  sent + 1 \in Items /\ sent < MaxItems
  <1>1. sent \in Nat /\ MaxItems \in Nat /\ sent < MaxItems  BY SizeFacts DEF IndInv, SizeInv
  <1> QED  BY <1>1 DEF Items

\* An index is that of a slot.
LEMMA SlotFacts ==
  ASSUME IndInv, NEW i \in 0..(Len(buf) - 1)
  PROVE  i + 1 \in 1..Len(buf) /\ buf[i + 1] \in Items
  <1>1. Len(buf) \in Nat /\ buf \in Seq(Items)  BY SizeFacts
  <1>2. i + 1 \in 1..Len(buf)  BY <1>1
  <1> QED  BY <1>1, <1>2, ElementOfSeq

\* put() stores its item, and publishes it if its head is still the head.
LEMMA PutStoreKeeps ==
  ASSUME IndInv, PutStore
  PROVE  IndInv'
  <1>1. /\ putPc = "store" /\ buf' = [buf EXCEPT ![putAt + 1] = sent + 1]
        /\ UNCHANGED <<tail, fallback, overflow, overflowHead, eof, putAt, getVars>>
        /\ sent < MaxItems /\ overflow = <<>>
    BY DEF PutStore, IndInv, SizeInv, PutInv
  <1>2. buf' \in Seq(Items) /\ Len(buf') = Len(buf)
    <2>1. putAt + 1 \in 1..Len(buf) /\ sent + 1 \in Items  BY <1>1, SizeFacts, SlotFacts, ItemFacts
    <2> QED  BY <1>1, <2>1, SizeFacts, ExceptSeq
  <1>3. /\ putPc' # "swap" /\ putTries' \in {0, putTries}
        /\ head' = IF head = putAt THEN (putAt + 1) % Len(buf) ELSE head
        /\ putPc' = IF head = putAt THEN "idle" ELSE "lock"
        /\ sent' = IF head = putAt THEN sent + 1 ELSE sent
    BY <1>1 DEF PutStore, PutReturn, Wrap, Length
  <1>4. Faked' <=> Faked  BY <1>1, <1>3 DEF Faked, MonitorFree, getVars
  <1>5. /\ (head + 1) % Len(buf) \in 0..(Len(buf) - 1) /\ (head + 1) % Len(buf) # head
        /\ head' \in 0..(Len(buf) - 1)
    BY <1>3, SizeFacts, NextIndex
  <1>6. TypeOK'
    <2>1. sent' \in 0..MaxItems /\ putTries' \in 0..Tries + 1
      <3>1. putTries \in 0..Tries + 1 /\ Tries \in Nat  BY ChannelAssumption DEF IndInv, TypeOK
      <3>2. sent' \in 0..MaxItems  BY <1>1, <1>3, SizeFacts
      <3> QED  BY <1>3, <3>1, <3>2
    <2> QED  BY <1>1, <1>2, <1>3, <1>5, <2>1 DEF IndInv, TypeOK, getVars, Length, Items
  <1>7. SizeInv'  BY <1>1, <1>2, <1>3 DEF IndInv, SizeInv, getVars, Length
  <1>8. MonitorInv'  BY <1>1, <1>2, <1>3 DEF IndInv, MonitorInv, getVars, Wrap, Length
  <1>9. CASE Faked
    <2>1. head # putAt  BY <1>1, <1>9 DEF IndInv, PutInv
    <2>2. head # tail  BY <1>1, <1>9 DEF IndInv, FakeInv
    <2>3. FakeInv'  BY <1>1, <1>2, <1>3, <1>9, <2>1, <2>2 DEF IndInv, FakeInv, getVars, Wrap, Length
    <2>4. PutInv'  BY <1>1, <1>3, <1>4, <1>9, <2>1 DEF PutInv
    <2>5. GetInv'  BY <1>1, <1>3, <1>4, <1>9, <2>1 DEF IndInv, GetInv, getVars
    <2> QED  BY <1>6, <1>7, <1>8, <2>3, <2>4, <2>5 DEF IndInv
  <1>10. CASE ~Faked
    <2>1. head = putAt /\ (head + 1) % Len(buf) # tail  BY <1>1, <1>10 DEF IndInv, PutInv, Wrap, Length
    <2>2. FakeInv'  BY <1>4, <1>10 DEF FakeInv
    <2>3. PutInv'  BY <1>1, <1>3, <2>1 DEF PutInv
    <2>4. GetInv'  BY <1>1, <1>3, <1>4, <1>10, <2>1 DEF IndInv, GetInv, getVars
    <2> QED  BY <1>6, <1>7, <1>8, <2>2, <2>3, <2>4 DEF IndInv
  <1> QED  BY <1>9, <1>10

\* An overflow buffer of at least two slots more than are used.
LEMMA PutOverflowFacts ==
  ASSUME IndInv, NEW o \in Seq(Items), NEW h \in Nat, h + 2 <= Len(o), PutOverflow(o, h), putPc # "idle"
  PROVE  /\ overflow' \in Seq(Items) /\ Len(overflow') = Len(o) /\ overflow' # <<>>
         /\ overflowHead' = h + 1 /\ overflowHead' \in 1..(Len(overflow') - 1)
         /\ putPc' \in {"wait", "idle"} /\ putTries' \in 0..Tries + 1
         /\ sent' \in 0..MaxItems /\ (putPc' = "wait" => sent' = sent) /\ (putPc' = "idle" => sent' = sent + 1)
         /\ sent + 1 \in Items /\ sent < MaxItems
  <1>1. sent < MaxItems /\ sent + 1 \in Items /\ Len(o) \in Nat
    <2>1. Len(o) \in Nat  BY LenProperties
    <2> QED  BY <2>1, ItemFacts
  <1>2. h + 1 \in 1..Len(o)  BY <1>1
  <1>3. overflow' = [o EXCEPT ![h + 1] = sent + 1] /\ overflowHead' = h + 1  BY DEF PutOverflow
  <1>4. overflow' \in Seq(Items) /\ Len(overflow') = Len(o)  BY <1>1, <1>2, <1>3, ExceptSeq
  <1>5. overflow' # <<>>
    <2>1. Len(overflow') # 0  BY <1>1, <1>4
    <2> QED  BY <2>1, EmptySeq
  <1>6. /\ putPc' \in {"wait", "idle"} /\ (putPc' = "wait" => sent' = sent /\ putTries' = putTries)
        /\ (putPc' = "idle" => sent' = sent + 1 /\ putTries' = 0)
    BY DEF PutOverflow, PutReturn
  <1>7. sent' \in 0..MaxItems
    <2>1. sent \in Nat /\ MaxItems \in Nat  BY SizeFacts
    <2>2. sent \in 0..MaxItems /\ sent + 1 \in 0..MaxItems  BY <1>1, <2>1
    <2>3. sent' \in {sent, sent + 1}  BY <1>6
    <2> QED  BY <2>2, <2>3
  <1>8. putTries' \in 0..Tries + 1  BY <1>6, ChannelAssumption DEF IndInv, TypeOK
  <1> QED  BY <1>1, <1>3, <1>4, <1>5, <1>6, <1>7, <1>8

\* The overflow buffer, grown if need be, has two slots free.
LEMMA ResizedFacts ==
  ASSUME IndInv, overflow # <<>>
  PROVE  /\ Resized \in Seq(Items) /\ overflowHead \in Nat /\ overflowHead + 2 <= Len(Resized)
         /\ Len(Resized) >= Len(overflow)
         /\ \A i \in 1..overflowHead : Resized[i] = overflow[i]
  <1>1. overflow \in Seq(Items) /\ Len(overflow) \in Nat /\ overflowHead \in 1..(Len(overflow) - 1)
    BY SizeFacts
  <1>2. InitLength \in Nat /\ InitLength >= 2  BY ChannelAssumption
  <1>3. CASE overflowHead = Len(overflow) - 1
    <2>1. Resized = overflow \o Blank(InitLength)  BY <1>3 DEF Resized
    <2>2. Blank(InitLength) \in Seq(Items) /\ Len(Blank(InitLength)) = InitLength
      <3>1. None \in Items  BY SizeFacts DEF None, Items
      <3>2. Blank(InitLength) \in [1..InitLength -> Items]  BY <3>1 DEF Blank
      <3> QED  BY <3>2, <1>2, SeqDef, LenProperties
    <2>3. /\ Resized \in Seq(Items) /\ Len(Resized) = Len(overflow) + InitLength
          /\ \A i \in 1..Len(overflow) + InitLength :
                Resized[i] = IF i <= Len(overflow) THEN overflow[i] ELSE Blank(InitLength)[i - Len(overflow)]
      BY <1>1, <2>1, <2>2, ConcatProperties
    <2>4. \A i \in 1..overflowHead : i \in 1..Len(overflow) + InitLength /\ i <= Len(overflow)
      BY <1>1, <1>2
    <2> QED  BY <1>1, <1>2, <1>3, <2>3, <2>4
  <1>4. CASE overflowHead # Len(overflow) - 1
    BY <1>1, <1>4 DEF Resized
  <1> QED  BY <1>3, <1>4

\* put() adds to the overflow buffer.
LEMMA PutMoreKeeps ==
  ASSUME IndInv, PutMore
  PROVE  IndInv'
  <1>1. /\ putPc = "lock" /\ MonitorFree /\ overflow # <<>> /\ PutOverflow(Resized, overflowHead)
        /\ UNCHANGED <<buf, head, tail, fallback, eof, putAt, getVars>>
    BY DEF PutMore
  <1>2. /\ overflow' \in Seq(Items) /\ Len(overflow') >= Len(overflow) /\ overflow' # <<>>
        /\ overflowHead' \in 1..(Len(overflow') - 1)
        /\ putPc' \in {"wait", "idle"} /\ putTries' \in 0..Tries + 1
        /\ sent' \in 0..MaxItems /\ (putPc' = "wait" => sent' = sent) /\ sent < MaxItems
    BY <1>1, ResizedFacts, PutOverflowFacts
  <1>3. Faked /\ Faked'
    <2>1. fallback # NoFb  BY <1>1 DEF IndInv, MonitorInv
    <2> QED  BY <1>1, <1>2, <2>1 DEF Faked, MonitorFree, getVars
  <1>4. TypeOK'  BY <1>1, <1>2 DEF IndInv, TypeOK, getVars, Length, Items
  <1>5. SizeInv'
    <2>1. Len(overflow) >= Len(buf) /\ Len(overflow') \in Nat
      BY <1>1, <1>2, LenProperties DEF IndInv, SizeInv, Length
    <2>2. Len(overflow') >= Len(buf)  BY <1>2, <2>1, SizeFacts
    <2> QED  BY <1>1, <1>2, <2>2 DEF IndInv, SizeInv, getVars, Length
  <1>6. MonitorInv'
    <2>1. getPc \notin {"swap", "restore"}  BY <1>1 DEF MonitorFree
    <2> QED  BY <1>1, <1>2, <1>3, <2>1 DEF MonitorInv, getVars, Faked
  <1>7. FakeInv'  BY <1>1, <1>2, <1>3 DEF IndInv, FakeInv, getVars, Wrap, Length
  <1>8. PutInv'  BY <1>2 DEF PutInv
  <1>9. GetInv'  BY <1>1, <1>3 DEF IndInv, GetInv, getVars
  <1> QED  BY <1>4, <1>5, <1>6, <1>7, <1>8, <1>9 DEF IndInv

\* put() revives the buffer of a sleeping receiver.
LEMMA PutReviveKeeps ==
  ASSUME IndInv, PutRevive
  PROVE  IndInv'
  <1>1. /\ putPc = "lock" /\ MonitorFree /\ overflow = <<>> /\ fallback # NoFb
        /\ buf' = [buf EXCEPT ![fallback + 1] = sent + 1] /\ head' = (fallback + 1) % Len(buf)
        /\ fallback' = NoFb /\ putPc' = "idle" /\ putTries' = 0 /\ sent' = sent + 1
        /\ getPc' = (IF getPc = "wait" THEN "woken" ELSE getPc)
        /\ UNCHANGED <<tail, overflow, overflowHead, eof, putAt, getTries, getAt, out, received>>
        /\ sent < MaxItems
    BY DEF PutRevive, PutReturn, Wake, Wrap, Length, IndInv, SizeInv
  <1>2. Faked /\ ~Faked'  BY <1>1 DEF Faked
  <1>3. tail = fallback /\ getPc' \in {"woken", "idle", "top"}
    BY <1>1, <1>2 DEF IndInv, FakeInv
  <1>4. buf' \in Seq(Items) /\ Len(buf') = Len(buf)
    <2>1. sent + 1 \in Items  BY <1>1, ItemFacts
    <2>2. fallback + 1 \in 1..Len(buf)  BY <1>3, SizeFacts, SlotFacts
    <2> QED  BY <1>1, <2>1, <2>2, SizeFacts, ExceptSeq
  <1>5. head' \in 0..(Len(buf) - 1)  BY <1>1, <1>3, SizeFacts, NextIndex
  <1>6. TypeOK'
    <2>1. sent' \in 0..MaxItems /\ putTries' \in 0..Tries + 1 /\ fallback' \in -1..(Len(buf) - 1)
      <3>1. sent \in Nat /\ MaxItems \in Nat /\ Len(buf) \in Nat  BY SizeFacts
      <3>2. Tries \in Nat  BY ChannelAssumption
      <3> QED  BY <1>1, <3>1, <3>2 DEF NoFb
    <2> QED  BY <1>1, <1>3, <1>4, <1>5, <2>1 DEF IndInv, TypeOK, Length, Items
  <1>7. SizeInv'  BY <1>1, <1>4 DEF IndInv, SizeInv, Length
  <1>8. MonitorInv'  BY <1>1, <1>3 DEF MonitorInv
  <1>9. FakeInv'  BY <1>2 DEF FakeInv
  <1>10. PutInv' /\ GetInv'  BY <1>1, <1>3 DEF PutInv, GetInv
  <1> QED  BY <1>6, <1>7, <1>8, <1>9, <1>10 DEF IndInv

\* put() finds the buffer full, under the monitor, or has room again.
LEMMA PutMarkKeeps ==
  ASSUME IndInv, PutMark
  PROVE  IndInv'
  <1>1. /\ putPc = "lock" /\ MonitorFree /\ overflow = <<>> /\ fallback = NoFb
        /\ UNCHANGED <<buf, head, tail, overflow, overflowHead, eof, putTries, sent, getVars>>
    BY DEF PutMark
  <1>2. ~Faked /\ ~Faked'  BY <1>1 DEF PutMark, Faked, MonitorFree
  <1>3. \/ /\ fallback' = tail /\ putAt' = tail /\ putPc' = "swap" /\ (head + 1) % Len(buf) = tail
        \/ putPc' = "top" /\ UNCHANGED <<fallback, putAt>>
    BY DEF PutMark, Full, Wrap, Length
  <1>4. TypeOK'
    <2>1. Len(buf) \in Nat /\ tail \in 0..(Len(buf) - 1) /\ fallback \in -1..(Len(buf) - 1)  BY SizeFacts
    <2>2. fallback' \in -1..(Len(buf) - 1)  BY <1>3, <2>1
    <2> QED  BY <1>1, <1>3, <2>2 DEF IndInv, TypeOK, getVars, Length
  <1>5. SizeInv'  BY <1>1, <1>3, SizeFacts DEF IndInv, SizeInv, getVars, Length
  <1>6. MonitorInv'
    <2>1. getPc \notin {"swap", "restore"}  BY <1>1 DEF MonitorFree
    <2> QED  BY <1>1, <1>3, <2>1 DEF MonitorInv, getVars, Wrap, Length
  <1>7. FakeInv'  BY <1>2 DEF FakeInv
  <1>8. PutInv'  BY <1>3 DEF PutInv
  <1>9. GetInv'  BY <1>1, <1>2 DEF IndInv, GetInv, getVars
  <1> QED  BY <1>4, <1>5, <1>6, <1>7, <1>8, <1>9 DEF IndInv

\* The overflow buffer that put() fills from a full buffer.
LEMMA OverflowFacts ==
  ASSUME IndInv
  PROVE  Overflow \in [1..(Len(buf) + InitLength) -> Items] \/ fallback = NoFb
  <1> SUFFICES ASSUME fallback # NoFb PROVE Overflow \in [1..(Len(buf) + InitLength) -> Items]
    OBVIOUS
  <1>1. fallback \in 0..(Len(buf) - 1)  BY SizeFacts DEF NoFb
  <1>2. InitLength \in Nat  BY ChannelAssumption
  <1>3. ASSUME NEW i \in 1..(Len(buf) + InitLength), i < Len(buf)
        PROVE  buf[((fallback + i - 1) % Len(buf)) + 1] \in Items
    <2>1. (fallback + i - 1) % Len(buf) \in 0..(Len(buf) - 1)
      <3>1. Len(buf) \in Nat /\ Len(buf) >= 2  BY SizeFacts
      <3>2. fallback + i - 1 \in Int  BY <1>1, <1>2, <3>1
      <3>3. \A x \in Int, n \in Nat : n >= 2 => x % n \in 0..(n - 1)  OBVIOUS
      <3> QED  BY <3>1, <3>2, <3>3
    <2> QED  BY <2>1, SlotFacts
  <1>4. None \in Items  BY SizeFacts DEF None, Items
  <1> QED  BY <1>3, <1>4 DEF Overflow, Length, At, Wrap

\* put() makes a full buffer look empty, unless get() has been quicker.
LEMMA PutSwapKeeps ==
  ASSUME IndInv, PutSwap
  PROVE  IndInv'
  <1>1. /\ putPc = "swap" /\ UNCHANGED <<buf, head, eof, putAt, getVars>>
        /\ getPc \notin {"swap", "restore"} /\ fallback = putAt /\ (head + 1) % Len(buf) = putAt
        /\ overflow = <<>> /\ ~Faked /\ sent < MaxItems
    BY DEF PutSwap, IndInv, SizeInv, MonitorInv, Faked, MonitorFree, Wrap, Length
  <1>2. CASE tail # putAt
    <2>1. /\ fallback' = NoFb /\ putPc' = "top" /\ UNCHANGED <<tail, overflow, overflowHead, putTries, sent>>
      BY <1>2 DEF PutSwap
    <2>2. ~Faked'  BY <2>1 DEF Faked
    <2>3. TypeOK'
      <3>1. fallback' \in -1..(Len(buf) - 1)  BY <2>1, SizeFacts DEF NoFb
      <3> QED  BY <1>1, <2>1, <3>1 DEF IndInv, TypeOK, getVars, Length
    <2>4. SizeInv'  BY <1>1, <2>1 DEF IndInv, SizeInv, getVars, Length
    <2>5. MonitorInv'  BY <1>1, <2>1 DEF MonitorInv, getVars
    <2>6. FakeInv'  BY <2>2 DEF FakeInv
    <2>7. PutInv' /\ GetInv'  BY <1>1, <2>1, <2>2 DEF IndInv, PutInv, GetInv, getVars
    <2> QED  BY <2>3, <2>4, <2>5, <2>6, <2>7 DEF IndInv
  <1>3. CASE tail = putAt
    <2>1. tail' = head /\ fallback' = fallback  BY <1>3 DEF PutSwap
    <2>2. fallback # NoFb /\ tail # head
      <3>1. (head + 1) % Len(buf) # head  BY SizeFacts, NextIndex
      <3>2. putAt # NoFb  BY SizeFacts DEF NoFb
      <3> QED  BY <1>1, <1>3, <3>1, <3>2
    <2>3. /\ overflow' \in Seq(Items)
          /\ overflow' # <<>> => Len(overflow') >= Len(buf) /\ overflowHead' \in 1..(Len(overflow') - 1)
          /\ putPc' \in {"wait", "idle"} /\ putTries' \in 0..Tries + 1
          /\ sent' \in 0..MaxItems /\ (putPc' = "wait" => sent' = sent)
          /\ overflow' = <<>> => eof /\ putPc' = "idle"
      <3>1. CASE eof
        <4>1. overflow' = overflow /\ putPc' = "idle" /\ putTries' = 0 /\ sent' = sent
          BY <3>1, <1>3 DEF PutSwap, PutReturn
        <4>2. putTries' \in 0..Tries + 1  BY <4>1, ChannelAssumption
        <4> QED  BY <1>1, <3>1, <4>1, <4>2, SizeFacts
      <3>2. CASE ~eof
        <4>1. PutOverflow(Overflow, Length - 1)  BY <3>2, <1>3 DEF PutSwap
        <4>2. InitLength \in Nat /\ InitLength >= 2 /\ Len(buf) + InitLength \in Nat  BY ChannelAssumption, SizeFacts
        <4>3. Overflow \in [1..(Len(buf) + InitLength) -> Items]  BY <2>2, OverflowFacts
        <4>4. Overflow \in Seq(Items)  BY <4>2, <4>3, SeqDef
        <4>5. Len(Overflow) = Len(buf) + InitLength  BY <4>2, <4>3, <4>4, LenProperties
        <4>6. Length - 1 \in Nat /\ Length - 1 + 2 <= Len(Overflow)  BY <4>2, <4>5, SizeFacts DEF Length
        <4>7. /\ overflow' \in Seq(Items) /\ Len(overflow') = Len(Overflow) /\ overflow' # <<>>
              /\ overflowHead' \in 1..(Len(overflow') - 1)
              /\ putPc' \in {"wait", "idle"} /\ putTries' \in 0..Tries + 1
              /\ sent' \in 0..MaxItems /\ (putPc' = "wait" => sent' = sent)
          BY <1>1, <4>1, <4>4, <4>6, PutOverflowFacts
        <4>8. Len(overflow') >= Len(buf)  BY <4>2, <4>5, <4>7, SizeFacts
        <4> QED  BY <4>7, <4>8
      <3> QED  BY <3>1, <3>2
    <2>4. Faked'  BY <1>1, <2>1, <2>2, <2>3 DEF Faked, MonitorFree, getVars
    <2>5. TypeOK'
      <3>1. eof \in BOOLEAN /\ {putTries, getTries} \subseteq 0..Tries + 1  BY DEF IndInv, TypeOK
      <3> QED  BY <1>1, <2>1, <2>3, <3>1, SizeFacts DEF IndInv, TypeOK, getVars, Length, Items
    <2>6. SizeInv'  BY <1>1, <2>1, <2>3 DEF IndInv, SizeInv, getVars, Length
    <2>7. MonitorInv'  BY <1>1, <2>1, <2>2, <2>3 DEF MonitorInv, getVars
    <2>8. FakeInv'  BY <1>1, <2>1, <2>3 DEF FakeInv, Wrap, Length
    <2>9. PutInv'  BY <2>3 DEF PutInv
    <2>10. GetInv'  BY <1>1, <1>3, <2>1, <2>2, <2>4 DEF IndInv, GetInv, getVars
    <2> QED  BY <2>5, <2>6, <2>7, <2>8, <2>9, <2>10 DEF IndInv
  <1> QED  BY <1>2, <1>3

\* get() takes the item at its tail, if that is still the tail.
LEMMA GetTakeKeeps ==
  ASSUME IndInv, GetTake
  PROVE  IndInv'
  <1>1. /\ getPc = "take" /\ out' = buf[getAt + 1] /\ getPc' \in {"done", "top"}
        /\ UNCHANGED <<buf, head, fallback, overflow, overflowHead, eof, putVars, getTries, getAt, received>>
        /\ tail = getAt => tail' = (getAt + 1) % Len(buf)
        /\ tail # getAt => tail' = tail
    BY DEF GetTake, At, Wrap, Length
  <1>2. Faked' <=> Faked  BY <1>1 DEF Faked, MonitorFree, putVars
  <1>3. /\ (tail + 1) % Len(buf) \in 0..(Len(buf) - 1) /\ (tail + 1) % Len(buf) # tail
        /\ (tail + 1) % Len(buf) = (head + 1) % Len(buf) => tail = head
    BY SizeFacts, NextIndex
  <1>4. out' \in 0..MaxItems
    <2>1. buf[getAt + 1] \in Items  BY SizeFacts, SlotFacts
    <2> QED  BY <1>1, <2>1 DEF Items
  <1>5. TypeOK'  BY <1>1, <1>3, <1>4 DEF IndInv, TypeOK, putVars, Length
  <1>6. SizeInv'  BY <1>1 DEF IndInv, SizeInv, putVars, Length
  <1>7. MonitorInv'  BY <1>1 DEF IndInv, MonitorInv, putVars, Wrap, Length
  <1>8. FakeInv'
    <2>1. Faked => tail' = tail /\ head = tail  BY <1>1 DEF IndInv, GetInv, FakeInv
    <2> QED  BY <1>1, <1>2, <2>1 DEF IndInv, FakeInv, putVars, Wrap, Length
  <1>9. PutInv'
    <2>1. Faked => tail' = tail  BY <1>1 DEF IndInv, GetInv
    <2>2. ~Faked => tail # head /\ tail' = (tail + 1) % Len(buf)  BY <1>1 DEF IndInv, GetInv
    <2> QED  BY <1>1, <1>2, <1>3, <2>1, <2>2 DEF IndInv, PutInv, putVars, Wrap, Length
  <1>10. GetInv'  BY <1>1 DEF GetInv
  <1> QED  BY <1>5, <1>6, <1>7, <1>8, <1>9, <1>10 DEF IndInv

\* get() takes the overflow buffer over.
LEMMA GetOverflowKeeps ==
  ASSUME IndInv, GetOverflow
  PROVE  IndInv'
  <1>1. /\ getPc = "lock" /\ MonitorFree /\ fallback # NoFb /\ overflow # <<>>
        /\ out' = overflow[1] /\ tail' = 1 /\ head' = overflowHead /\ buf' = overflow /\ overflow' = <<>>
        /\ getPc' = "restore"
        /\ UNCHANGED <<fallback, overflowHead, eof, putVars, getTries, getAt, received>>
    BY DEF GetOverflow
  <1>2. ~Faked'  BY <1>1 DEF Faked, MonitorFree
  <1>3. /\ Len(overflow) \in Nat /\ Len(overflow) >= Len(buf) /\ overflowHead \in 1..(Len(overflow) - 1)
    BY <1>1, SizeFacts DEF IndInv, SizeInv, Length
  <1>4. putPc \notin {"index", "room", "full", "store", "swap"}
    BY <1>1 DEF IndInv, PutInv, MonitorFree
  <1>5. TypeOK'
    <2>1. out' \in 0..MaxItems
      <3>1. 1 \in 1..Len(overflow)  BY <1>3
      <3> QED  BY <1>1, <3>1, SizeFacts, ElementOfSeq DEF Items
    <2>2. overflow' \in Seq(0..MaxItems) /\ overflow' = <<>>  BY <1>1, EmptySeq
    <2>3. {head', tail'} \subseteq 0..(Len(overflow) - 1)  BY <1>1, <1>3, SizeFacts
    <2>4. fallback' \in -1..(Len(overflow) - 1)  BY <1>1, <1>3, SizeFacts
    <2> QED  BY <1>1, <2>1, <2>2, <2>3, <2>4 DEF IndInv, TypeOK, putVars, Length
  <1>6. SizeInv'
    <2>1. putAt \in 0..(Len(overflow) - 1) /\ getAt \in 0..(Len(overflow) - 1) /\ Len(overflow) >= 2
      BY <1>3, SizeFacts
    <2> QED  BY <1>1, <2>1 DEF IndInv, SizeInv, putVars, Length
  <1>7. MonitorInv'  BY <1>1, <1>4 DEF MonitorInv, putVars
  <1>8. FakeInv'  BY <1>2 DEF FakeInv
  <1>9. PutInv' /\ GetInv'  BY <1>1, <1>4 DEF PutInv, GetInv, putVars
  <1> QED  BY <1>5, <1>6, <1>7, <1>8, <1>9 DEF IndInv

\* ... and clears fallback.
LEMMA GetRestoreKeeps ==
  ASSUME IndInv, GetRestore
  PROVE  IndInv'
  <1>1. /\ getPc = "restore" /\ putPc' = (IF putPc = "wait" THEN "woken" ELSE putPc) /\ fallback' = NoFb
        /\ getPc' = "done"
        /\ UNCHANGED <<buf, head, tail, overflow, overflowHead, eof, putTries, putAt, sent,
                       getTries, getAt, out, received>>
    BY DEF GetRestore, Wake
  <1>2. ~Faked /\ ~Faked' /\ putPc # "swap" /\ overflow = <<>>
    BY <1>1 DEF Faked, MonitorFree, IndInv, MonitorInv
  <1>3. TypeOK'
    <2>1. fallback' \in -1..(Len(buf) - 1)  BY <1>1, SizeFacts DEF NoFb
    <2> QED  BY <1>1, <2>1 DEF IndInv, TypeOK, Length
  <1>4. SizeInv'  BY <1>1 DEF IndInv, SizeInv, Length
  <1>5. MonitorInv'  BY <1>1, <1>2 DEF MonitorInv
  <1>6. FakeInv'  BY <1>2 DEF FakeInv
  <1>7. PutInv' /\ GetInv'  BY <1>1, <1>2 DEF IndInv, PutInv, GetInv, Wrap, Length
  <1> QED  BY <1>3, <1>4, <1>5, <1>6, <1>7 DEF IndInv

\* get() finds the buffer empty, under the monitor, or has an item again.
LEMMA GetMarkKeeps ==
  ASSUME IndInv, GetMark
  PROVE  IndInv'
  <1>1. /\ getPc = "lock" /\ MonitorFree /\ fallback = NoFb /\ overflow = <<>>
        /\ UNCHANGED <<buf, head, tail, overflow, overflowHead, eof, putVars, getTries, out, received>>
    BY DEF GetMark, IndInv, MonitorInv
  <1>2. ~Faked /\ ~Faked'  BY <1>1 DEF GetMark, Faked, MonitorFree
  <1>3. \/ fallback' = head /\ getAt' = head /\ getPc' = "swap" /\ head = tail
        \/ getPc' = "top" /\ UNCHANGED <<fallback, getAt>>
    BY DEF GetMark
  <1>4. TypeOK'
    <2>1. Len(buf) \in Nat /\ head \in 0..(Len(buf) - 1) /\ fallback \in -1..(Len(buf) - 1)  BY SizeFacts
    <2>2. fallback' \in -1..(Len(buf) - 1)  BY <1>3, <2>1
    <2> QED  BY <1>1, <1>3, <2>2 DEF IndInv, TypeOK, putVars, Length
  <1>5. SizeInv'  BY <1>1, <1>3, SizeFacts DEF IndInv, SizeInv, putVars, Length
  <1>6. MonitorInv'
    <2>1. putPc # "swap"  BY <1>1 DEF MonitorFree
    <2> QED  BY <1>1, <1>3, <2>1 DEF MonitorInv, putVars
  <1>7. FakeInv'  BY <1>2 DEF FakeInv
  <1>8. PutInv'  BY <1>1, <1>2 DEF IndInv, PutInv, putVars, Wrap, Length
  <1>9. GetInv'  BY <1>3 DEF GetInv
  <1> QED  BY <1>4, <1>5, <1>6, <1>7, <1>8, <1>9 DEF IndInv

\* get() makes an empty buffer look full, unless put() has been quicker.
LEMMA GetSwapKeeps ==
  ASSUME IndInv, GetSwap
  PROVE  IndInv'
  <1>1. /\ getPc = "swap" /\ UNCHANGED <<tail, overflow, overflowHead, eof, putVars, getAt, out, received>>
        /\ fallback = getAt /\ tail = getAt /\ overflow = <<>> /\ putPc # "swap" /\ ~Faked
    BY DEF GetSwap, IndInv, MonitorInv, Faked, MonitorFree
  <1>2. CASE head # getAt
    <2>1. fallback' = NoFb /\ getPc' = "top" /\ UNCHANGED <<buf, head, getTries>>  BY <1>2 DEF GetSwap
    <2>2. ~Faked'  BY <2>1 DEF Faked
    <2>3. TypeOK'
      <3>1. fallback' \in -1..(Len(buf) - 1)  BY <2>1, SizeFacts DEF NoFb
      <3> QED  BY <1>1, <2>1, <3>1 DEF IndInv, TypeOK, putVars, Length
    <2>4. SizeInv'  BY <1>1, <2>1 DEF IndInv, SizeInv, putVars, Length
    <2>5. MonitorInv'  BY <1>1, <2>1 DEF MonitorInv, putVars
    <2>6. FakeInv'  BY <2>2 DEF FakeInv
    <2>7. PutInv' /\ GetInv'  BY <1>1, <2>1, <2>2 DEF IndInv, PutInv, GetInv, putVars, Wrap, Length
    <2> QED  BY <2>3, <2>4, <2>5, <2>6, <2>7 DEF IndInv
  <1>3. CASE head = getAt
    <2>1. /\ head' = (IF tail = 0 THEN Len(buf) - 1 ELSE tail - 1) /\ buf' = Blank(Len(buf))
          /\ fallback' = fallback
          /\ eof => getTries' = 0 /\ getPc' = "idle"
          /\ ~eof => getPc' = "wait" /\ getTries' = getTries
      BY <1>3 DEF GetSwap, Length
    <2>2. head' \in 0..(Len(buf) - 1) /\ head' # tail /\ (head' + 1) % Len(buf) = tail
      <3>0. Len(buf) \in Nat /\ Len(buf) >= 2 /\ tail \in 0..(Len(buf) - 1)  BY SizeFacts
      <3>1. head' \in 0..(Len(buf) - 1) /\ head' # tail  BY <2>1, <3>0
      <3>2. (head' + 1) % Len(buf) = IF head' = Len(buf) - 1 THEN 0 ELSE head' + 1
        BY <3>0, <3>1, NextIndex
      <3>3. CASE tail = 0
        <4>1. head' = Len(buf) - 1  BY <2>1, <3>3
        <4> QED  BY <3>1, <3>2, <3>3, <4>1
      <3>4. CASE tail # 0
        <4>1. head' = tail - 1  BY <2>1, <3>4
        <4>2. head' # Len(buf) - 1 /\ head' + 1 = tail  BY <3>0, <4>1
        <4> QED  BY <3>1, <3>2, <4>2
      <3> QED  BY <3>3, <3>4
    <2>3. buf' \in Seq(Items) /\ Len(buf') = Len(buf)
      <3>1. None \in Items  BY SizeFacts DEF None, Items
      <3>2. buf' \in [1..Len(buf) -> Items]  BY <2>1, <3>1 DEF Blank
      <3>3. buf' \in Seq(Items)  BY <3>2, SizeFacts, SeqDef
      <3> QED  BY <3>2, <3>3, SizeFacts, LenProperties
    <2>4. fallback # NoFb /\ Faked'
      <3>1. fallback # NoFb  BY <1>1, SizeFacts DEF NoFb
      <3> QED  BY <1>1, <2>1, <3>1 DEF Faked, MonitorFree, putVars
    <2>5. TypeOK'
      <3>1. getTries' \in 0..Tries + 1  BY <2>1, ChannelAssumption DEF IndInv, TypeOK
      <3>2. getPc' \in {"idle", "wait"}  BY <2>1
      <3> QED  BY <1>1, <2>1, <2>2, <2>3, <3>1, <3>2 DEF IndInv, TypeOK, putVars, Length, Items
    <2>6. SizeInv'  BY <1>1, <2>1, <2>3 DEF IndInv, SizeInv, putVars, Length
    <2>7. MonitorInv'  BY <1>1, <2>1, <2>4 DEF MonitorInv, putVars
    <2>8. FakeInv'  BY <1>1, <2>1, <2>2, <2>3 DEF FakeInv, Wrap, Length
    <2>9. PutInv'  BY <1>1, <1>3, <2>1, <2>2, <2>4 DEF IndInv, PutInv, putVars
    <2>10. GetInv'  BY <2>1 DEF GetInv
    <2> QED  BY <2>5, <2>6, <2>7, <2>8, <2>9, <2>10 DEF IndInv
  <1> QED  BY <1>2, <1>3

\* close().
LEMMA CloseKeeps ==
  ASSUME IndInv, Close
  PROVE  IndInv'
  <1>1. /\ MonitorFree /\ eof' = TRUE
        /\ putPc' = (IF putPc = "wait" THEN "woken" ELSE putPc) /\ getPc' = (IF getPc = "wait" THEN "woken" ELSE getPc)
        /\ UNCHANGED <<buf, head, tail, fallback, overflow, overflowHead, putTries, putAt, sent,
                       getTries, getAt, out, received>>
    BY DEF Close, Wake, bufVars
  <1>2. putPc # "swap" /\ getPc \notin {"swap", "restore"} /\ (Faked' <=> Faked)
    BY <1>1 DEF Faked, MonitorFree
  <1>3. TypeOK'  BY <1>1 DEF IndInv, TypeOK, Length
  <1>4. SizeInv'  BY <1>1 DEF IndInv, SizeInv, Length
  <1>5. MonitorInv'  BY <1>1, <1>2 DEF IndInv, MonitorInv
  <1>6. FakeInv'  BY <1>1, <1>2 DEF IndInv, FakeInv, Wrap, Length
  <1>7. PutInv' /\ GetInv'  BY <1>1, <1>2 DEF IndInv, PutInv, GetInv, Wrap, Length
  <1> QED  BY <1>3, <1>4, <1>5, <1>6, <1>7 DEF IndInv

\* An empty, open channel.
LEMMA InitInv == Init => IndInv
  <1> SUFFICES ASSUME Init PROVE IndInv  OBVIOUS
  <1>1. InitLength \in Nat /\ InitLength >= 2 /\ Tries \in Nat /\ MaxItems \in Nat  BY ChannelAssumption
  <1>2. buf \in Seq(0..MaxItems) /\ Len(buf) = InitLength
    <2>1. None \in 0..MaxItems  BY <1>1 DEF None
    <2>2. buf \in [1..InitLength -> 0..MaxItems]  BY <2>1 DEF Init, Blank
    <2>3. buf \in Seq(0..MaxItems)  BY <2>2, <1>1, SeqDef
    <2> QED  BY <2>2, <2>3, <1>1, LenProperties
  <1>3. <<>> \in Seq(0..MaxItems)  BY EmptySeq
  <1>4. TypeOK
    <2>1. /\ {head, tail} \subseteq 0..(Len(buf) - 1) /\ fallback \in -1..(Len(buf) - 1)
          /\ {putTries, getTries} \subseteq 0..Tries + 1 /\ out \in 0..MaxItems /\ sent \in 0..MaxItems
      BY <1>1, <1>2 DEF Init, NoFb, None
    <2> QED  BY <1>2, <1>3, <2>1 DEF Init, TypeOK, Length
  <1>5. SizeInv  BY <1>1, <1>2 DEF Init, SizeInv, Length
  <1>6. MonitorInv /\ FakeInv /\ PutInv /\ GetInv
    BY DEF Init, MonitorInv, FakeInv, PutInv, GetInv, Faked
  <1> QED  BY <1>4, <1>5, <1>6 DEF IndInv

\* Every step keeps the inductive invariant.
LEMMA NextInv == IndInv /\ [Next]_vars => IndInv'
  <1> SUFFICES ASSUME IndInv, [Next]_vars PROVE IndInv'  OBVIOUS
  <1>1. CASE PutBegin \/ PutStep \/ SpuriousWake
    BY <1>1, PutWalks, PutStoreKeeps, PutMoreKeeps, PutReviveKeeps, PutMarkKeeps, PutSwapKeeps DEF PutStep
  <1>2. CASE GetBegin \/ GetStep
    BY <1>2, GetWalks, GetTakeKeeps, GetOverflowKeeps, GetRestoreKeeps, GetMarkKeeps, GetSwapKeeps DEF GetStep
  <1>3. CASE Close  BY <1>3, CloseKeeps
  <1>4. CASE UNCHANGED vars
    <2>1. UNCHANGED <<bufVars, eof, putVars, getVars>>  BY <1>4 DEF vars
    <2>2. Faked' <=> Faked  BY <2>1 DEF Faked, MonitorFree, bufVars, putVars, getVars
    <2>3. TypeOK' /\ SizeInv'  BY <2>1 DEF IndInv, TypeOK, SizeInv, bufVars, putVars, getVars, Length
    <2>4. MonitorInv' /\ FakeInv'
      BY <2>1, <2>2 DEF IndInv, MonitorInv, FakeInv, bufVars, putVars, getVars, Wrap, Length
    <2>5. PutInv' /\ GetInv'
      BY <2>1, <2>2 DEF IndInv, PutInv, GetInv, bufVars, putVars, getVars, Wrap, Length
    <2> QED  BY <2>3, <2>4, <2>5 DEF IndInv
  <1> QED  BY <1>1, <1>2, <1>3, <1>4 DEF Next

-----------------------------------------------------------------------------
\* The items of the ring b from index t up to index h.
RingOf(b, t, h) == [i \in 1..((h - t) % Len(b)) |-> b[((t + i - 1) % Len(b)) + 1]]

\* Indices modulo the length of a buffer.
LEMMA ModFacts ==
  ASSUME NEW n \in Nat, n >= 2
  PROVE  /\ \A t, h \in 0..(n - 1) : (h - t) % n = IF t <= h THEN h - t ELSE h - t + n
         /\ \A t \in 0..(n - 1), i \in 1..n :
               (t + i - 1) % n = IF t + i - 1 < n THEN t + i - 1 ELSE t + i - 1 - n
  <1>1. ASSUME NEW t \in 0..(n - 1), NEW h \in 0..(n - 1)
        PROVE  (h - t) % n = IF t <= h THEN h - t ELSE h - t + n
    <2>1. CASE t <= h
      <3>1. h - t \in 0..(n - 1)  BY <2>1
      <3>2. \A x \in 0..(n - 1) : x % n = x  OBVIOUS
      <3> QED  BY <2>1, <3>1, <3>2
    <2>2. CASE ~(t <= h)
      <3>1. h - t \in (-n)..(-1)  BY <2>2
      <3>2. \A x \in (-n)..(-1) : x % n = x + n  OBVIOUS
      <3>3. (h - t) % n = (h - t) + n  BY <3>1, <3>2
      <3> QED  BY <2>2, <3>3
    <2> QED  BY <2>1, <2>2
  <1>2. ASSUME NEW t \in 0..(n - 1), NEW i \in 1..n
        PROVE  (t + i - 1) % n = IF t + i - 1 < n THEN t + i - 1 ELSE t + i - 1 - n
    <2>1. CASE t + i - 1 < n
      <3>1. t + i - 1 \in 0..(n - 1)  BY <2>1
      <3>2. \A x \in 0..(n - 1) : x % n = x  OBVIOUS
      <3> QED  BY <2>1, <3>1, <3>2
    <2>2. CASE ~(t + i - 1 < n)
      <3>1. t + i - 1 \in n..(2 * n - 1)  BY <2>2
      <3>2. \A x \in n..(2 * n - 1) : x % n = x - n  OBVIOUS
      <3>3. (t + i - 1) % n = (t + i - 1) - n  BY <3>1, <3>2
      <3> QED  BY <2>2, <3>3
    <2> QED  BY <2>1, <2>2
  <1> QED  BY <1>1, <1>2

\* The ring as a sequence.
LEMMA RingFacts ==
  ASSUME NEW S, NEW b \in Seq(S), Len(b) >= 2, NEW t \in 0..(Len(b) - 1), NEW h \in 0..(Len(b) - 1)
  PROVE  /\ RingOf(b, t, h) \in Seq(S) /\ Len(RingOf(b, t, h)) \in 0..(Len(b) - 1)
         /\ Len(RingOf(b, t, h)) = IF t <= h THEN h - t ELSE h - t + Len(b)
         /\ \A i \in 1..Len(RingOf(b, t, h)) :
              RingOf(b, t, h)[i] = b[(IF t + i - 1 < Len(b) THEN t + i - 1 ELSE t + i - 1 - Len(b)) + 1]
         /\ RingOf(b, t, h) = <<>> <=> t = h
  <1> DEFINE n == Len(b)
             k == IF t <= h THEN h - t ELSE h - t + n
             r == RingOf(b, t, h)
  <1>1. n \in Nat  BY LenProperties
  <1>2. (h - t) % n = k /\ k \in 0..(n - 1)  BY <1>1, ModFacts
  <1>3. \A i \in 1..k : (t + i - 1) % n = IF t + i - 1 < n THEN t + i - 1 ELSE t + i - 1 - n
    <2>1. \A i \in 1..k : i \in 1..n  BY <1>1, <1>2
    <2> QED  BY <1>1, <2>1, ModFacts
  <1>4. \A i \in 1..k : /\ (IF t + i - 1 < n THEN t + i - 1 ELSE t + i - 1 - n) + 1 \in 1..n
    BY <1>1, <1>2
  <1>5. \A i \in 1..k : b[((t + i - 1) % n) + 1] \in S
    BY <1>3, <1>4, ElementOfSeq
  <1>6. r = [i \in 1..k |-> b[((t + i - 1) % n) + 1]]  BY <1>2 DEF RingOf
  <1>7. r \in [1..k -> S]  BY <1>5, <1>6
  <1>8. r \in Seq(S) /\ Len(r) = k
    <2>1. k \in Nat  BY <1>1, <1>2
    <2>2. r \in Seq(S)  BY <1>7, <2>1, SeqDef
    <2>3. DOMAIN r = 1..k /\ DOMAIN r = 1..Len(r) /\ Len(r) \in Nat  BY <1>7, <2>2, LenProperties
    <2> QED  BY <2>1, <2>2, <2>3
  <1>9. \A i \in 1..k : r[i] = b[(IF t + i - 1 < n THEN t + i - 1 ELSE t + i - 1 - n) + 1]
    BY <1>3, <1>6
  <1>10. r = <<>> <=> t = h
    <2>1. k = 0 <=> t = h  BY <1>1
    <2>2. r = <<>> => k = 0  BY <1>8, EmptySeq
    <2>3. r # <<>> => k # 0  BY <1>8, EmptySeq
    <2> QED  BY <2>1, <2>2, <2>3
  <1> QED  BY <1>2, <1>8, <1>9, <1>10

\* An item stored at the head of a ring that is not full.
LEMMA RingPut ==
  ASSUME NEW S, NEW b \in Seq(S), Len(b) >= 2, NEW t \in 0..(Len(b) - 1), NEW h \in 0..(Len(b) - 1),
         NEW v \in S, (h + 1) % Len(b) # t
  PROVE  RingOf([b EXCEPT ![h + 1] = v], t, (h + 1) % Len(b)) = Append(RingOf(b, t, h), v)
  <1> DEFINE n == Len(b)
             c == [b EXCEPT ![h + 1] = v]
             g == (h + 1) % n
             r == RingOf(b, t, h)
             q == RingOf(c, t, g)
             Slot(i) == (IF t + i - 1 < n THEN t + i - 1 ELSE t + i - 1 - n) + 1
  <1>1. n \in Nat  BY LenProperties
  <1>2. g \in 0..(n - 1) /\ g = IF h = n - 1 THEN 0 ELSE h + 1  BY <1>1, NextIndex
  <1>3. /\ c \in Seq(S) /\ Len(c) = n /\ h + 1 \in 1..n
        /\ \A j \in 1..n : c[j] = IF j = h + 1 THEN v ELSE b[j]
    <2>1. h + 1 \in 1..n  BY <1>1
    <2> QED  BY <2>1, ExceptSeq
  <1>4. /\ r \in Seq(S) /\ Len(r) \in 0..(n - 1) /\ Len(r) = IF t <= h THEN h - t ELSE h - t + n
        /\ \A i \in 1..Len(r) : r[i] = b[Slot(i)]
    BY RingFacts
  <1>5. /\ q \in Seq(S) /\ Len(q) = IF t <= g THEN g - t ELSE g - t + n
        /\ \A i \in 1..Len(q) : q[i] = c[Slot(i)]
    <2> HIDE DEF c, g
    <2>1. c \in Seq(S) /\ Len(c) >= 2 /\ t \in 0..(Len(c) - 1) /\ g \in 0..(Len(c) - 1)
      BY <1>2, <1>3
    <2>2. /\ q \in Seq(S) /\ Len(q) = IF t <= g THEN g - t ELSE g - t + Len(c)
          /\ \A i \in 1..Len(q) :
               q[i] = c[(IF t + i - 1 < Len(c) THEN t + i - 1 ELSE t + i - 1 - Len(c)) + 1]
      BY <2>1, RingFacts
    <2> QED  BY <1>3, <2>2
  <1>6. Len(q) = Len(r) + 1
    <2>1. g # t  OBVIOUS
    <2> HIDE DEF r, q, g, n
    <2>2. t \in 0..(n - 1) /\ h \in 0..(n - 1) /\ n >= 2  BY DEF n
    <2>3. (IF t <= g THEN g - t ELSE g - t + n) = (IF t <= h THEN h - t ELSE h - t + n) + 1
      BY <1>1, <1>2, <2>1, <2>2
    <2> QED  BY <1>4, <1>5, <2>3
  <1>7. \A i \in 1..Len(r) : Slot(i) \in 1..n /\ Slot(i) # h + 1
    <2>1. n >= 2 /\ t \in 0..(n - 1) /\ h \in 0..(n - 1)  OBVIOUS
    <2>2. Len(r) \in 0..(n - 1) /\ Len(r) = IF t <= h THEN h - t ELSE h - t + n  BY <1>4
    <2> HIDE DEF r, n
    <2>3. CASE t <= h  BY <1>1, <2>1, <2>2, <2>3
    <2>4. CASE ~(t <= h)  BY <1>1, <2>1, <2>2, <2>4
    <2> QED  BY <2>3, <2>4
  <1>8. Slot(Len(r) + 1) = h + 1
    <2>1. n >= 2 /\ t \in 0..(n - 1) /\ h \in 0..(n - 1)  OBVIOUS
    <2>2. Len(r) = IF t <= h THEN h - t ELSE h - t + n  BY <1>4
    <2> HIDE DEF r, n
    <2> QED  BY <1>1, <2>1, <2>2
  <1>9. /\ Append(r, v) \in Seq(S) /\ Len(Append(r, v)) = Len(r) + 1
        /\ \A i \in 1..Len(r) : Append(r, v)[i] = r[i]
        /\ Append(r, v)[Len(r) + 1] = v
    <2>1. r \in Seq(S)  BY <1>4
    <2> HIDE DEF r
    <2> QED  BY <2>1, AppendProperties
  <1>10. \A i \in 1..Len(q) : q[i] = Append(r, v)[i]
    <2> HIDE DEF r, q, c, Slot
    <2> SUFFICES ASSUME NEW i \in 1..Len(q) PROVE q[i] = Append(r, v)[i]  OBVIOUS
    <2>0. q[i] = c[Slot(i)]  BY <1>5
    <2>1. CASE i \in 1..Len(r)
      <3>1. c[Slot(i)] = b[Slot(i)]  BY <2>1, <1>3, <1>7
      <3> QED  BY <2>0, <2>1, <3>1, <1>4, <1>9
    <2>2. CASE i = Len(r) + 1
      <3>1. c[Slot(i)] = v  BY <2>2, <1>3, <1>8
      <3> QED  BY <2>0, <2>2, <3>1, <1>9
    <2>3. i \in 1..Len(r) \/ i = Len(r) + 1
      <3>1. Len(r) \in Nat  BY <1>4, LenProperties
      <3> QED  BY <1>6, <3>1
    <2> QED  BY <2>1, <2>2, <2>3
  <1>11. q = Append(r, v)
    <2> HIDE DEF r, q
    <2> QED  BY <1>5, <1>6, <1>9, <1>10, SeqEqual
  <1> QED  BY <1>11

\* An item taken at the tail of a ring that is not empty.
LEMMA RingGet ==
  ASSUME NEW S, NEW b \in Seq(S), Len(b) >= 2, NEW t \in 0..(Len(b) - 1), NEW h \in 0..(Len(b) - 1), t # h
  PROVE  /\ RingOf(b, t, h) # <<>> /\ Head(RingOf(b, t, h)) = b[t + 1]
         /\ RingOf(b, (t + 1) % Len(b), h) = Tail(RingOf(b, t, h))
  <1> DEFINE n == Len(b)
             u == (t + 1) % n
             r == RingOf(b, t, h)
             q == RingOf(b, u, h)
             Slot(x, i) == (IF x + i - 1 < n THEN x + i - 1 ELSE x + i - 1 - n) + 1
  <1>1. n \in Nat  BY LenProperties
  <1>2. u \in 0..(n - 1) /\ u = IF t = n - 1 THEN 0 ELSE t + 1  BY <1>1, NextIndex
  <1>3. /\ r \in Seq(S) /\ Len(r) \in 0..(n - 1) /\ Len(r) = IF t <= h THEN h - t ELSE h - t + n
        /\ \A i \in 1..Len(r) : r[i] = b[Slot(t, i)]
        /\ r # <<>>
    BY RingFacts
  <1>4. /\ q \in Seq(S) /\ Len(q) = IF u <= h THEN h - u ELSE h - u + n
        /\ \A i \in 1..Len(q) : q[i] = b[Slot(u, i)]
    <2>1. \A x \in 0..(n - 1) :
            LET s == RingOf(b, x, h)
            IN  /\ s \in Seq(S) /\ Len(s) = IF x <= h THEN h - x ELSE h - x + n
                /\ \A i \in 1..Len(s) : s[i] = b[Slot(x, i)]
      BY RingFacts
    <2> HIDE DEF u, n, Slot
    <2> QED  BY <1>2, <2>1
  <1>5. Len(r) = Len(q) + 1 /\ Len(q) \in 0..(n - 1) /\ 1 \in 1..Len(r)
    <2> HIDE DEF r, q, u, n
    <2>1. t \in 0..(n - 1) /\ h \in 0..(n - 1) /\ n >= 2  BY DEF n
    <2>2. (IF t <= h THEN h - t ELSE h - t + n) = (IF u <= h THEN h - u ELSE h - u + n) + 1
      BY <1>1, <1>2, <2>1
    <2>3. (IF u <= h THEN h - u ELSE h - u + n) \in 0..(n - 1)
      BY <1>1, <1>2, <2>1
    <2>4. Len(q) \in 0..(n - 1) /\ Len(r) = Len(q) + 1  BY <1>3, <1>4, <2>2, <2>3
    <2> QED  BY <1>1, <2>4
  <1>6. Head(r) = b[t + 1]
    <2> HIDE DEF r
    <2>1. Head(r) = r[1]  BY <1>3
    <2>2. Slot(t, 1) = t + 1  BY <1>1
    <2> QED  BY <2>1, <2>2, <1>3, <1>5
  <1>7. /\ Tail(r) \in Seq(S) /\ Len(Tail(r)) = Len(r) - 1 /\ \A i \in 1..Len(Tail(r)) : Tail(r)[i] = r[i + 1]
    <2> HIDE DEF r
    <2> QED  BY <1>3, HeadTailProperties
  <1>8. Len(Tail(r)) = Len(q)
    <2> HIDE DEF r, q
    <2> QED  BY <1>5, <1>7
  <1>9. \A i \in 1..Len(q) : i + 1 \in 1..Len(r) /\ Slot(t, i + 1) = Slot(u, i)
    <2> HIDE DEF r, q, u
    <2> QED  BY <1>1, <1>2, <1>5
  <1>10. \A i \in 1..Len(q) : q[i] = Tail(r)[i]
    <2> HIDE DEF r, q, Slot
    <2> SUFFICES ASSUME NEW i \in 1..Len(q) PROVE q[i] = Tail(r)[i]  OBVIOUS
    <2>1. q[i] = b[Slot(u, i)]  BY <1>4
    <2>2. Tail(r)[i] = r[i + 1]  BY <1>7, <1>8
    <2>3. r[i + 1] = b[Slot(t, i + 1)]  BY <1>3, <1>9
    <2> QED  BY <2>1, <2>2, <2>3, <1>9
  <1>11. q = Tail(r)
    <2> HIDE DEF r, q
    <2> QED  BY <1>4, <1>7, <1>8, <1>10, SeqEqual
  <1> QED  BY <1>3, <1>6, <1>11

-----------------------------------------------------------------------------
\* The first k items of a buffer.
LEMMA PrefixFacts ==
  ASSUME NEW S, NEW o \in Seq(S), NEW k \in 0..Len(o)
  PROVE  /\ SubSeq(o, 1, k) \in Seq(S) /\ Len(SubSeq(o, 1, k)) = k
         /\ \A i \in 1..k : SubSeq(o, 1, k)[i] = o[i]
  <1>1. Len(o) \in Nat /\ k \in Int /\ k \in Nat  BY LenProperties
  <1>2. \A i \in 1..k : i \in 1..Len(o)  BY <1>1
  <1>3. \A i \in 1..k : o[i] \in S  BY <1>2, ElementOfSeq
  <1>4. /\ SubSeq(o, 1, k) \in Seq(S) /\ Len(SubSeq(o, 1, k)) = IF 1 <= k THEN k - 1 + 1 ELSE 0
        /\ \A i \in 1..(k - 1 + 1) : SubSeq(o, 1, k)[i] = o[1 + i - 1]
    BY <1>1, <1>3, SubSeqProperties
  <1>5. (IF 1 <= k THEN k - 1 + 1 ELSE 0) = k /\ 1..(k - 1 + 1) = 1..k /\ \A i \in 1..k : 1 + i - 1 = i
    BY <1>1
  <1> QED  BY <1>4, <1>5

\* An item stored behind the first k, which are those of p.
LEMMA PrefixPut ==
  ASSUME NEW S, NEW o \in Seq(S), NEW k \in Nat, k + 1 <= Len(o), NEW v \in S,
         NEW p \in Seq(S), Len(p) = k, \A i \in 1..k : p[i] = o[i]
  PROVE  SubSeq([o EXCEPT ![k + 1] = v], 1, k + 1) = Append(p, v)
  <1> DEFINE c == [o EXCEPT ![k + 1] = v]
             q == SubSeq(c, 1, k + 1)
  <1>1. Len(o) \in Nat /\ k + 1 \in 1..Len(o)  
    <2>1. Len(o) \in Nat  BY LenProperties
    <2> QED  BY <2>1
  <1>2. c \in Seq(S) /\ Len(c) = Len(o) /\ \A j \in 1..Len(o) : c[j] = IF j = k + 1 THEN v ELSE o[j]
    BY <1>1, ExceptSeq
  <1>3. q \in Seq(S) /\ Len(q) = k + 1 /\ \A i \in 1..(k + 1) : q[i] = c[i]
    <2> HIDE DEF c
    <2>1. k + 1 \in 0..Len(c)  BY <1>1, <1>2
    <2> QED  BY <1>2, <2>1, PrefixFacts
  <1>4. /\ Append(p, v) \in Seq(S) /\ Len(Append(p, v)) = k + 1
        /\ \A i \in 1..k : Append(p, v)[i] = p[i]
        /\ Append(p, v)[k + 1] = v
    BY AppendProperties
  <1>5. \A i \in 1..(k + 1) : q[i] = Append(p, v)[i]
    <2> HIDE DEF c, q
    <2> SUFFICES ASSUME NEW i \in 1..(k + 1) PROVE q[i] = Append(p, v)[i]  OBVIOUS
    <2>1. q[i] = c[i] /\ i \in 1..Len(o)  BY <1>1, <1>3
    <2>2. CASE i = k + 1  BY <1>2, <1>4, <2>1, <2>2
    <2>3. CASE i # k + 1
      <3>1. i \in 1..k  BY <2>3
      <3>2. c[i] = o[i]  BY <1>2, <2>1, <2>3
      <3> QED  BY <1>4, <2>1, <3>1, <3>2
    <2> QED  BY <2>2, <2>3
  <1>6. q = Append(p, v)
    <2> HIDE DEF q
    <2> QED  BY <1>3, <1>4, <1>5, SeqEqual
  <1> QED  BY <1>6

\* The overflow buffer as the new ring, from its second item on.
LEMMA PrefixGet ==
  ASSUME NEW S, NEW o \in Seq(S), NEW k \in 1..(Len(o) - 1)
  PROVE  /\ SubSeq(o, 1, k) # <<>> /\ Head(SubSeq(o, 1, k)) = o[1]
         /\ RingOf(o, 1, k) = Tail(SubSeq(o, 1, k))
  <1> DEFINE p == SubSeq(o, 1, k)
             q == RingOf(o, 1, k)
  <1>1. Len(o) \in Nat /\ Len(o) >= 2 /\ k \in Nat /\ k \in 0..Len(o) /\ 1 \in 1..k
    <2>1. Len(o) \in Nat  BY LenProperties
    <2> QED  BY <2>1
  <1>2. p \in Seq(S) /\ Len(p) = k /\ \A i \in 1..k : p[i] = o[i]  BY <1>1, PrefixFacts
  <1>3. p # <<>> /\ Head(p) = o[1]
    <2> HIDE DEF p
    <2>1. p # <<>>  BY <1>1, <1>2, EmptySeq
    <2>2. Head(p) = p[1]  BY <1>2, <2>1
    <2> QED  BY <2>1, <2>2, <1>1, <1>2
  <1>4. /\ q \in Seq(S) /\ Len(q) = k - 1 /\ \A i \in 1..(k - 1) : q[i] = o[i + 1]
    <2>1. 1 \in 0..(Len(o) - 1) /\ k \in 0..(Len(o) - 1)  BY <1>1
    <2>2. /\ q \in Seq(S) /\ Len(q) = IF 1 <= k THEN k - 1 ELSE k - 1 + Len(o)
          /\ \A i \in 1..Len(q) : q[i] = o[(IF 1 + i - 1 < Len(o) THEN 1 + i - 1 ELSE 1 + i - 1 - Len(o)) + 1]
      BY <1>1, <2>1, RingFacts
    <2>3. \A i \in 1..(k - 1) : (IF 1 + i - 1 < Len(o) THEN 1 + i - 1 ELSE 1 + i - 1 - Len(o)) + 1 = i + 1
      BY <1>1
    <2>4. (IF 1 <= k THEN k - 1 ELSE k - 1 + Len(o)) = k - 1  BY <1>1
    <2> HIDE DEF q
    <2> QED  BY <2>2, <2>3, <2>4
  <1>5. /\ Tail(p) \in Seq(S) /\ Len(Tail(p)) = k - 1 /\ \A i \in 1..(k - 1) : Tail(p)[i] = p[i + 1]
    <2> HIDE DEF p
    <2> QED  BY <1>2, <1>3, HeadTailProperties
  <1>6. \A i \in 1..(k - 1) : p[i + 1] = o[i + 1]
    <2>1. \A i \in 1..(k - 1) : i + 1 \in 1..k  BY <1>1
    <2> HIDE DEF p
    <2> QED  BY <1>2, <2>1
  <1>7. q = Tail(p)
    <2> HIDE DEF p, q
    <2> QED  BY <1>4, <1>5, <1>6, SeqEqual
  <1> QED  BY <1>3, <1>7

\* The items in the channel, before and after a step.
LEMMA ContentsAre ==
  /\ overflow # <<>> => Contents = SubSeq(overflow, 1, overflowHead)
  /\ overflow = <<>> /\ ~Faked => Contents = RingOf(buf, tail, head)
  /\ overflow = <<>> /\ Faked /\ head = tail => Contents = RingOf(buf, fallback, head)
  /\ overflow = <<>> /\ Faked /\ head # tail => Contents = <<>>
  BY DEF Contents, Ring, RingOf, Wrap, At, Length

LEMMA ContentsBecome ==
  /\ overflow' # <<>> => Contents' = SubSeq(overflow', 1, overflowHead')
  /\ overflow' = <<>> /\ ~Faked' => Contents' = RingOf(buf', tail', head')
  /\ overflow' = <<>> /\ Faked' /\ head' = tail' => Contents' = RingOf(buf', fallback', head')
  /\ overflow' = <<>> /\ Faked' /\ head' # tail' => Contents' = <<>>
  BY DEF Contents, Ring, RingOf, Wrap, At, Length

-----------------------------------------------------------------------------
\* A step that leaves what the abstract queue sees.
Hidden == Contents' = Contents /\ Puts' = Puts /\ Got' = Got /\ eof' = eof

\* Steps without a change to the buffers.
LEMMA PutWalksHide ==
  ASSUME PutBegin \/ PutTop \/ PutIndex \/ PutRoom \/ PutFull \/ PutWoken \/ SpuriousWake
  PROVE  Hidden
  <1>1. UNCHANGED <<bufVars, eof, getVars>> /\ putPc # "swap" /\ putPc' # "swap"
    BY DEF PutBegin, PutTop, PutIndex, PutRoom, PutFull, PutWoken, SpuriousWake, PutReturn
  <1>2. Faked' <=> Faked  BY <1>1 DEF Faked, MonitorFree, bufVars, getVars
  <1>3. Contents' = Contents  BY <1>1, <1>2, ContentsAre, ContentsBecome DEF bufVars
  <1>4. Puts' = Puts
    BY DEF PutBegin, PutTop, PutIndex, PutRoom, PutFull, PutWoken, SpuriousWake, PutReturn, Puts
  <1>5. Got' = Got  BY <1>1 DEF Got, getVars
  <1> QED  BY <1>1, <1>3, <1>4, <1>5 DEF Hidden

LEMMA GetWalksHide ==
  ASSUME GetBegin \/ GetTop \/ GetIndex \/ GetAny \/ GetEmpty \/ GetDone \/ GetNull \/ GetWoken
  PROVE  Hidden
  <1>1. /\ UNCHANGED <<bufVars, eof, putVars>>
        /\ getPc \notin {"swap", "restore"} /\ getPc' \notin {"swap", "restore"}
    BY DEF GetBegin, GetTop, GetIndex, GetAny, GetEmpty, GetDone, GetNull, GetWoken
  <1>2. Faked' <=> Faked  BY <1>1 DEF Faked, MonitorFree, bufVars, putVars
  <1>3. Contents' = Contents  BY <1>1, <1>2, ContentsAre, ContentsBecome DEF bufVars
  <1>4. Puts' = Puts  BY <1>1 DEF Puts, putVars
  <1>5. Got' = Got
    BY DEF GetBegin, GetTop, GetIndex, GetAny, GetEmpty, GetDone, GetNull, GetWoken, Got
  <1> QED  BY <1>1, <1>3, <1>4, <1>5 DEF Hidden

\* Steps that announce a swap or take the announcement back.
LEMMA MarksHide ==
  ASSUME IndInv, PutMark \/ GetMark \/ GetRestore
  PROVE  Hidden
  <1>1. /\ UNCHANGED <<buf, head, tail, overflow, overflowHead, eof, sent, received, out>>
        /\ overflow = <<>> /\ ~Faked /\ ~Faked'
    <2>1. CASE PutMark  BY <2>1 DEF PutMark, Faked, MonitorFree, getVars
    <2>2. CASE GetMark  BY <2>2 DEF GetMark, Faked, MonitorFree, putVars, IndInv, MonitorInv
    <2>3. CASE GetRestore  BY <2>3 DEF GetRestore, Faked, MonitorFree, IndInv, MonitorInv
    <2> QED  BY <2>1, <2>2, <2>3
  <1>2. Contents' = Contents  BY <1>1, ContentsAre, ContentsBecome
  <1>3. Puts' = Puts  BY <1>1 DEF PutMark, GetMark, GetRestore, Puts, Wake, putVars
  <1>4. Got' = Got  BY <1>1 DEF PutMark, GetMark, GetRestore, Got, getVars
  <1> QED  BY <1>1, <1>2, <1>3, <1>4 DEF Hidden

\* get() makes an empty buffer look full, and it is empty all the same.
LEMMA GetSwapHides ==
  ASSUME IndInv, GetSwap
  PROVE  Hidden
  <1>1. /\ getPc = "swap" /\ tail = getAt /\ fallback = getAt /\ overflow = <<>> /\ putPc # "swap"
        /\ UNCHANGED <<tail, overflow, overflowHead, eof, putVars, getAt, out, received>>
    BY DEF GetSwap, IndInv, MonitorInv
  <1>2. ~Faked  BY <1>1 DEF Faked, MonitorFree
  <1>3. Puts' = Puts  BY <1>1 DEF Puts, putVars
  <1>4. Got' = Got  BY <1>1 DEF GetSwap, Got
  <1>5. CASE head # getAt
    <2>1. UNCHANGED <<buf, head>> /\ ~Faked'  BY <1>1, <1>5 DEF GetSwap, Faked
    <2> QED  BY <1>1, <1>2, <1>3, <1>4, <2>1, ContentsAre, ContentsBecome DEF Hidden
  <1>6. CASE head = getAt
    <2>1. Contents = RingOf(buf, tail, head) /\ tail = head  BY <1>1, <1>2, <1>6, ContentsAre
    <2>2. Contents = <<>>
      <3>1. buf \in Seq(Items) /\ Len(buf) >= 2 /\ tail \in 0..(Len(buf) - 1) /\ head \in 0..(Len(buf) - 1)
        BY SizeFacts
      <3> QED  BY <2>1, <3>1, RingFacts
    <2>3. /\ head' = IF tail = 0 THEN Len(buf) - 1 ELSE tail - 1
          /\ fallback' = fallback /\ getPc' \in {"idle", "wait"}
      BY <1>1, <1>6 DEF GetSwap, Length
    <2>4. head' # tail'  BY <1>1, <2>3, SizeFacts
    <2>5. fallback # NoFb
      <3>1. getAt >= 0  BY SizeFacts
      <3> QED  BY <1>1, <3>1 DEF NoFb
    <2>6. Faked'  BY <1>1, <2>3, <2>5 DEF Faked, MonitorFree, putVars
    <2> QED  BY <1>1, <1>3, <1>4, <2>2, <2>4, <2>6, ContentsBecome DEF Hidden
  <1> QED  BY <1>5, <1>6

\* put() publishes an item, or has stored it in a buffer that only looks full.
LEMMA PutStoreRefines ==
  ASSUME IndInv, PutStore
  PROVE  Hidden \/ Fifo!Put
  <1>1. /\ putPc = "store" /\ buf' = [buf EXCEPT ![putAt + 1] = sent + 1]
        /\ UNCHANGED <<tail, fallback, overflow, overflowHead, eof, putAt, getVars>>
        /\ overflow = <<>>
    BY DEF PutStore, IndInv, PutInv
  <1>2. /\ head' = IF head = putAt THEN (putAt + 1) % Len(buf) ELSE head
        /\ putPc' = IF head = putAt THEN "idle" ELSE "lock"
        /\ sent' = IF head = putAt THEN sent + 1 ELSE sent
    BY <1>1 DEF PutStore, PutReturn, Wrap, Length
  <1>3. Faked' <=> Faked  BY <1>1, <1>2 DEF Faked, MonitorFree, getVars
  <1>4. Got' = Got  BY <1>1 DEF Got, getVars
  <1>5. CASE Faked
    <2>1. head # putAt  BY <1>1, <1>5 DEF IndInv, PutInv
    <2>2. head # tail  BY <1>1, <1>5 DEF IndInv, FakeInv
    <2>3. Contents = <<>> /\ Contents' = <<>>
      BY <1>1, <1>2, <1>3, <1>5, <2>1, <2>2, ContentsAre, ContentsBecome
    <2>4. Puts' = Puts  BY <1>1, <1>2, <2>1 DEF Puts
    <2> QED  BY <1>1, <1>4, <2>3, <2>4 DEF Hidden
  <1>6. CASE ~Faked
    <2>1. head = putAt /\ (head + 1) % Len(buf) # tail  BY <1>1, <1>6 DEF IndInv, PutInv, Wrap, Length
    <2>2. sent + 1 \in Items  BY <1>1, ItemFacts
    <2>3. Contents = RingOf(buf, tail, head)  BY <1>1, <1>6, ContentsAre
    <2>4. Contents' = RingOf([buf EXCEPT ![head + 1] = sent + 1], tail, (head + 1) % Len(buf))
      BY <1>1, <1>2, <1>3, <1>6, <2>1, ContentsBecome
    <2>5. Contents' = Append(Contents, sent + 1)
      <3>1. buf \in Seq(Items) /\ Len(buf) >= 2 /\ tail \in 0..(Len(buf) - 1) /\ head \in 0..(Len(buf) - 1)
        BY SizeFacts
      <3> QED  BY <2>1, <2>2, <2>3, <2>4, <3>1, RingPut
    <2>6. Puts = sent /\ Puts' = sent + 1  BY <1>1, <1>2, <2>1 DEF Puts
    <2> QED  BY <1>1, <1>4, <2>5, <2>6 DEF Fifo!Put
  <1> QED  BY <1>5, <1>6

\* put() finds the receiver asleep on an empty buffer.
LEMMA PutReviveRefines ==
  ASSUME IndInv, PutRevive
  PROVE  Fifo!Put
  <1>1. /\ putPc = "lock" /\ overflow = <<>> /\ Faked
        /\ buf' = [buf EXCEPT ![fallback + 1] = sent + 1] /\ head' = (fallback + 1) % Len(buf)
        /\ fallback' = NoFb /\ putPc' = "idle" /\ sent' = sent + 1
        /\ UNCHANGED <<tail, overflow, eof, out, received>>
    BY DEF PutRevive, Faked, PutReturn, Wrap, Length
  <1>2. head # tail /\ tail = fallback  BY <1>1 DEF IndInv, FakeInv
  <1>3. Contents = <<>>  BY <1>1, <1>2, ContentsAre
  <1>4. ~Faked'  BY <1>1 DEF Faked
  <1>5. Contents' = RingOf([buf EXCEPT ![tail + 1] = sent + 1], tail, (tail + 1) % Len(buf))
    BY <1>1, <1>2, <1>4, ContentsBecome
  <1>6. sent + 1 \in Items  BY <1>1, ItemFacts
  <1>7. (tail + 1) % Len(buf) # tail  BY SizeFacts, NextIndex
  <1>8. Contents' = Append(RingOf(buf, tail, tail), sent + 1) /\ RingOf(buf, tail, tail) = <<>>
    <2>1. buf \in Seq(Items) /\ Len(buf) >= 2 /\ tail \in 0..(Len(buf) - 1)  BY SizeFacts
    <2>2. RingOf(buf, tail, tail) = <<>>  BY <2>1, RingFacts
    <2>3. Contents' = Append(RingOf(buf, tail, tail), sent + 1)  BY <1>5, <1>6, <1>7, <2>1, RingPut
    <2> QED  BY <2>2, <2>3
  <1>9. Contents' = Append(Contents, sent + 1)  BY <1>3, <1>8
  <1>10. Puts = sent /\ Puts' = sent + 1  BY <1>1 DEF Puts
  <1>11. Got' = Got
    BY <1>1 DEF PutRevive, Got, Wake
  <1> QED  BY <1>1, <1>9, <1>10, <1>11 DEF Fifo!Put

\* put() adds to the overflow buffer.
LEMMA PutMoreRefines ==
  ASSUME IndInv, PutMore
  PROVE  Fifo!Put
  <1>1. /\ putPc = "lock" /\ overflow # <<>> /\ PutOverflow(Resized, overflowHead)
        /\ UNCHANGED <<eof, getVars>>
    BY DEF PutMore
  <1>2. /\ Resized \in Seq(Items) /\ overflowHead \in Nat /\ overflowHead + 2 <= Len(Resized)
        /\ \A i \in 1..overflowHead : Resized[i] = overflow[i]
        /\ overflow' # <<>> /\ overflowHead' = overflowHead + 1 /\ sent + 1 \in Items
        /\ putPc' \in {"wait", "idle"} /\ (putPc' = "wait" => sent' = sent) /\ (putPc' = "idle" => sent' = sent + 1)
    BY <1>1, ResizedFacts, PutOverflowFacts
  <1>3. overflow' = [Resized EXCEPT ![overflowHead + 1] = sent + 1]  BY <1>1 DEF PutOverflow
  <1>4. Contents = SubSeq(overflow, 1, overflowHead)  BY <1>1, ContentsAre
  <1>5. Contents' = SubSeq([Resized EXCEPT ![overflowHead + 1] = sent + 1], 1, overflowHead + 1)
    BY <1>2, <1>3, ContentsBecome
  <1>6. /\ Contents \in Seq(Items) /\ Len(Contents) = overflowHead
        /\ \A i \in 1..overflowHead : Contents[i] = overflow[i]
    <2>1. overflowHead \in 0..Len(overflow) /\ overflow \in Seq(Items)  BY <1>1, SizeFacts
    <2> QED  BY <1>4, <2>1, PrefixFacts
  <1>7. Contents' = Append(Contents, sent + 1)
    <2>1. overflowHead + 1 <= Len(Resized)
      <3>1. Len(Resized) \in Nat  BY <1>2, LenProperties
      <3> QED  BY <1>2, <3>1
    <2>2. /\ Resized \in Seq(Items) /\ overflowHead \in Nat /\ sent + 1 \in Items
          /\ Contents \in Seq(Items) /\ Len(Contents) = overflowHead
          /\ \A i \in 1..overflowHead : Contents[i] = Resized[i]
      BY <1>2, <1>6
    <2> DEFINE v == sent + 1
    <2>3. v \in Items /\ Contents' = SubSeq([Resized EXCEPT ![overflowHead + 1] = v], 1, overflowHead + 1)
      BY <1>5, <2>2
    <2> HIDE DEF v
    <2>4. Contents' = Append(Contents, v)  BY <2>1, <2>2, <2>3, PrefixPut
    <2> QED  BY <2>4 DEF v
  <1>8. Puts = sent /\ Puts' = sent + 1  BY <1>1, <1>2 DEF Puts
  <1>9. Got' = Got  BY <1>1 DEF Got, getVars
  <1> QED  BY <1>1, <1>7, <1>8, <1>9 DEF Fifo!Put

\* The overflow buffer starts with the items of the full buffer, in order.
LEMMA OverflowItems ==
  ASSUME IndInv, putPc = "swap"
  PROVE  /\ Overflow \in Seq(Items) /\ Len(Overflow) = Len(buf) + InitLength
         /\ RingOf(buf, fallback, head) \in Seq(Items)
         /\ Len(RingOf(buf, fallback, head)) = Len(buf) - 1
         /\ \A i \in 1..(Len(buf) - 1) : RingOf(buf, fallback, head)[i] = Overflow[i]
  <1> DEFINE n == Len(buf)
             r == RingOf(buf, fallback, head)
  <1>1. n \in Nat /\ n >= 2 /\ InitLength \in Nat  BY SizeFacts, ChannelAssumption
  <1>2. fallback = putAt /\ (head + 1) % n = fallback  BY DEF IndInv, MonitorInv, Wrap, Length
  <1>3. fallback \in 0..(n - 1) /\ head \in 0..(n - 1) /\ fallback # NoFb
    <2>1. fallback \in 0..(n - 1)  BY <1>2, SizeFacts
    <2> QED  BY <2>1, SizeFacts DEF NoFb
  <1>4. fallback = IF head = n - 1 THEN 0 ELSE head + 1  BY <1>1, <1>2, <1>3, NextIndex
  <1>5. Overflow \in Seq(Items) /\ Len(Overflow) = n + InitLength
    <2>1. Overflow \in [1..(n + InitLength) -> Items]  BY <1>3, OverflowFacts
    <2>2. n + InitLength \in Nat  BY <1>1
    <2>3. Overflow \in Seq(Items)  BY <2>1, <2>2, SeqDef
    <2>4. DOMAIN Overflow = 1..(n + InitLength)  BY <2>1
    <2> QED  BY <2>2, <2>3, <2>4, LenProperties
  <1>6. r \in Seq(Items) /\ Len(r) = IF fallback <= head THEN head - fallback ELSE head - fallback + n
    <2>1. buf \in Seq(Items)  BY SizeFacts
    <2>2. Len(buf) >= 2 /\ fallback \in 0..(Len(buf) - 1) /\ head \in 0..(Len(buf) - 1)  BY <1>1, <1>3
    <2> QED  BY <2>1, <2>2, RingFacts
  <1>7. Len(r) = n - 1
    <2> HIDE DEF n, r
    <2>1. (IF fallback <= head THEN head - fallback ELSE head - fallback + n) = n - 1
      BY <1>1, <1>3, <1>4
    <2> QED  BY <1>6, <2>1
  <1>8. (head - fallback) % n = n - 1
    <2>1. (head - fallback) % n = IF fallback <= head THEN head - fallback ELSE head - fallback + n
      BY <1>1, <1>3, ModFacts
    <2> HIDE DEF n, r
    <2> QED  BY <1>6, <1>7, <2>1
  <1>9. ASSUME NEW i \in 1..(n - 1)
        PROVE  r[i] = Overflow[i]
    <2>1. r[i] = buf[((fallback + i - 1) % n) + 1]  BY <1>8 DEF RingOf
    <2>2. i \in 1..(n + InitLength) /\ i < n  BY <1>1
    <2>3. Overflow[i] = buf[((fallback + i - 1) % n) + 1]  BY <2>2 DEF Overflow, At, Wrap, Length
    <2> QED  BY <2>1, <2>3
  <1> QED  BY <1>5, <1>6, <1>7, <1>9

\* put() makes a full buffer look empty and moves its items to the overflow
\* buffer, with the new one behind them, unless get() was quicker.
LEMMA PutSwapRefines ==
  ASSUME IndInv, PutSwap
  PROVE  Hidden \/ Fifo!Put
  <1>1. /\ putPc = "swap" /\ overflow = <<>> /\ fallback = putAt /\ getPc \notin {"swap", "restore"}
        /\ UNCHANGED <<buf, head, eof, putAt, getVars>>
    BY DEF PutSwap, IndInv, MonitorInv
  <1>2. ~Faked /\ Contents = RingOf(buf, tail, head)
    <2>1. ~Faked  BY <1>1 DEF Faked, MonitorFree
    <2> QED  BY <1>1, <2>1, ContentsAre
  <1>3. Got' = Got  BY <1>1 DEF Got, getVars
  <1>4. CASE tail # putAt
    <2>1. fallback' = NoFb /\ putPc' = "top" /\ UNCHANGED <<tail, overflow, overflowHead, sent>>
      BY <1>4 DEF PutSwap
    <2>2. ~Faked'  BY <2>1 DEF Faked
    <2>3. Contents' = Contents  BY <1>1, <1>2, <2>1, <2>2, ContentsBecome
    <2>4. Puts' = Puts  BY <1>1, <2>1 DEF Puts
    <2> QED  BY <1>1, <1>3, <2>3, <2>4 DEF Hidden
  <1>5. CASE tail = putAt /\ eof
    <2>1. tail' = head /\ putPc' = "idle" /\ UNCHANGED <<fallback, overflow, sent>>
      BY <1>1, <1>5 DEF PutSwap, PutReturn
    <2>2. fallback # NoFb
      <3>1. putAt >= 0  BY SizeFacts
      <3> QED  BY <1>1, <3>1 DEF NoFb
    <2>3. Faked'  BY <1>1, <2>1, <2>2 DEF Faked, MonitorFree, getVars
    <2>4. Contents' = RingOf(buf, fallback, head)  BY <1>1, <2>1, <2>3, ContentsBecome
    <2>5. Contents' = Contents  BY <1>1, <1>2, <1>5, <2>4
    <2>6. Puts' = Puts  BY <1>1, <2>1 DEF Puts
    <2> QED  BY <1>1, <1>3, <2>5, <2>6 DEF Hidden
  <1>6. CASE tail = putAt /\ ~eof
    <2>1. PutOverflow(Overflow, Len(buf) - 1)  BY <1>6 DEF PutSwap, Length
    <2>2. /\ Overflow \in Seq(Items) /\ Len(Overflow) = Len(buf) + InitLength
          /\ Contents \in Seq(Items) /\ Len(Contents) = Len(buf) - 1
          /\ \A i \in 1..(Len(buf) - 1) : Contents[i] = Overflow[i]
      BY <1>1, <1>2, <1>6, OverflowItems
    <2>3. InitLength \in Nat /\ InitLength >= 2 /\ Len(buf) \in Nat /\ Len(buf) >= 2
      BY SizeFacts, ChannelAssumption
    <2>4. Len(buf) - 1 \in Nat /\ (Len(buf) - 1) + 2 <= Len(Overflow) /\ (Len(buf) - 1) + 1 <= Len(Overflow)
      BY <2>2, <2>3
    <2>5. /\ overflow' # <<>> /\ overflowHead' = (Len(buf) - 1) + 1 /\ sent + 1 \in Items
          /\ putPc' \in {"wait", "idle"} /\ (putPc' = "wait" => sent' = sent) /\ (putPc' = "idle" => sent' = sent + 1)
      BY <1>1, <2>1, <2>2, <2>4, PutOverflowFacts
    <2>6. overflow' = [Overflow EXCEPT ![(Len(buf) - 1) + 1] = sent + 1]  BY <2>1 DEF PutOverflow
    <2>7. Contents' = SubSeq([Overflow EXCEPT ![(Len(buf) - 1) + 1] = sent + 1], 1, (Len(buf) - 1) + 1)
      BY <2>5, <2>6, ContentsBecome
    <2>8. Contents' = Append(Contents, sent + 1)
      <3> DEFINE k == Len(buf) - 1
                 v == sent + 1
      <3>1. /\ k \in Nat /\ k + 1 <= Len(Overflow) /\ v \in Items
            /\ Contents' = SubSeq([Overflow EXCEPT ![k + 1] = v], 1, k + 1)
        BY <2>4, <2>5, <2>7
      <3>2. /\ Overflow \in Seq(Items) /\ Contents \in Seq(Items) /\ Len(Contents) = k
            /\ \A i \in 1..k : Contents[i] = Overflow[i]
        BY <2>2
      <3> HIDE DEF k, v
      <3>3. Contents' = Append(Contents, v)  BY <3>1, <3>2, PrefixPut
      <3> QED  BY <3>3 DEF v
    <2>9. Puts = sent /\ Puts' = sent + 1  BY <1>1, <2>5 DEF Puts
    <2> QED  BY <1>1, <1>3, <2>8, <2>9 DEF Fifo!Put
  <1> QED  BY <1>4, <1>5, <1>6

\* get() takes the item at the tail, or finds that put() has moved it.
LEMMA GetTakeRefines ==
  ASSUME IndInv, GetTake
  PROVE  Hidden \/ Fifo!Get
  <1>1. /\ getPc = "take" /\ out' = buf[getAt + 1]
        /\ UNCHANGED <<buf, head, fallback, overflow, overflowHead, eof, putVars, received>>
        /\ tail' = IF tail = getAt THEN (getAt + 1) % Len(buf) ELSE tail
        /\ getPc' = IF tail = getAt THEN "done" ELSE "top"
    BY DEF GetTake, At, Wrap, Length
  <1>2. Faked' <=> Faked  BY <1>1 DEF Faked, MonitorFree, putVars
  <1>3. Puts' = Puts  BY <1>1 DEF Puts, putVars
  <1>4. CASE tail # getAt
    <2>1. tail' = tail /\ getPc' = "top"  BY <1>1, <1>4
    <2>2. Contents' = Contents  BY <1>1, <1>2, <2>1, ContentsAre, ContentsBecome
    <2>3. Got' = Got  BY <1>1, <2>1 DEF Got
    <2> QED  BY <1>1, <1>3, <2>2, <2>3 DEF Hidden
  <1>5. CASE tail = getAt
    <2>1. ~Faked /\ head # tail  BY <1>1, <1>5 DEF IndInv, GetInv
    <2>2. overflow = <<>>  BY <1>1, <2>1 DEF IndInv, MonitorInv, Faked, MonitorFree
    <2>3. Contents = RingOf(buf, tail, head)  BY <2>1, <2>2, ContentsAre
    <2>4. Contents' = RingOf(buf, (tail + 1) % Len(buf), head)
      BY <1>1, <1>2, <1>5, <2>1, <2>2, ContentsBecome
    <2>5. /\ Contents # <<>> /\ Head(Contents) = buf[tail + 1] /\ Contents' = Tail(Contents)
      <3>1. buf \in Seq(Items) /\ Len(buf) >= 2 /\ tail \in 0..(Len(buf) - 1) /\ head \in 0..(Len(buf) - 1)
        BY SizeFacts
      <3> QED  BY <2>1, <2>3, <2>4, <3>1, RingGet
    <2>6. Got = received /\ Got' = Append(received, buf[tail + 1])  BY <1>1, <1>5 DEF Got
    <2> QED  BY <1>1, <1>3, <2>5, <2>6 DEF Fifo!Get
  <1> QED  BY <1>4, <1>5

\* get() takes the first item of the overflow buffer and makes that the buffer.
LEMMA GetOverflowRefines ==
  ASSUME IndInv, GetOverflow
  PROVE  Fifo!Get
  <1>1. /\ getPc = "lock" /\ overflow # <<>> /\ getPc' = "restore" /\ out' = overflow[1]
        /\ buf' = overflow /\ tail' = 1 /\ head' = overflowHead /\ overflow' = <<>>
        /\ UNCHANGED <<eof, putVars, received>>
    BY DEF GetOverflow
  <1>2. ~Faked'  BY <1>1 DEF Faked, MonitorFree
  <1>3. Contents = SubSeq(overflow, 1, overflowHead)  BY <1>1, ContentsAre
  <1>4. Contents' = RingOf(overflow, 1, overflowHead)  BY <1>1, <1>2, ContentsBecome
  <1>5. Contents # <<>> /\ Head(Contents) = overflow[1] /\ Contents' = Tail(Contents)
    <2>1. overflow \in Seq(Items) /\ overflowHead \in 1..(Len(overflow) - 1)  BY <1>1, SizeFacts
    <2> QED  BY <1>3, <1>4, <2>1, PrefixGet
  <1>6. Got = received /\ Got' = Append(received, overflow[1])  BY <1>1 DEF Got
  <1>7. Puts' = Puts  BY <1>1 DEF Puts, putVars
  <1> QED  BY <1>1, <1>5, <1>6, <1>7 DEF Fifo!Get

\* close() leaves the items where they are.
LEMMA CloseRefines ==
  ASSUME Close
  PROVE  Fifo!Close
  <1>1. UNCHANGED <<bufVars, sent, out, received>> /\ eof' = TRUE /\ putPc # "swap" /\ putPc' # "swap"
    BY DEF Close, Wake, MonitorFree
  <1>2. Faked' <=> Faked  BY <1>1 DEF Faked, MonitorFree, bufVars, Close, Wake
  <1>3. Contents' = Contents  BY <1>1, <1>2, ContentsAre, ContentsBecome DEF bufVars
  <1>4. Puts' = Puts  BY <1>1 DEF Puts, Close, Wake
  <1>5. Got' = Got  BY <1>1 DEF Got, Close, Wake
  <1> QED  BY <1>1, <1>3, <1>4, <1>5 DEF Fifo!Close

\* A new channel is an empty queue.
LEMMA InitRefines == Init => Fifo!Init
  <1> SUFFICES ASSUME Init PROVE Fifo!Init  OBVIOUS
  <1>1. IndInv  BY InitInv
  <1>2. overflow = <<>> /\ ~Faked /\ head = tail  BY DEF Init, Faked
  <1>3. Contents = RingOf(buf, tail, head)  BY <1>2, ContentsAre
  <1>4. Contents = <<>>
    <2>1. buf \in Seq(Items) /\ Len(buf) >= 2 /\ tail \in 0..(Len(buf) - 1) /\ head \in 0..(Len(buf) - 1)
      BY <1>1, SizeFacts
    <2> QED  BY <1>2, <1>3, <2>1, RingFacts
  <1>5. Puts = 0 /\ Got = <<>> /\ eof = FALSE  BY DEF Init, Puts, Got
  <1> QED  BY <1>4, <1>5 DEF Fifo!Init

\* Every step is one of the queue, or hidden.
LEMMA NextRefines == IndInv /\ [Next]_vars => [Fifo!Next]_(Fifo!vars)
  <1> SUFFICES ASSUME IndInv, [Next]_vars PROVE Hidden \/ Fifo!Put \/ Fifo!Get \/ Fifo!Close
    BY DEF Hidden, Fifo!Next, Fifo!vars
  <1>1. CASE PutBegin \/ PutStep \/ SpuriousWake
    BY <1>1, PutWalksHide, PutStoreRefines, PutMoreRefines, PutReviveRefines, MarksHide, PutSwapRefines DEF PutStep
  <1>2. CASE GetBegin \/ GetStep
    BY <1>2, GetWalksHide, GetTakeRefines, GetOverflowRefines, MarksHide, GetSwapHides DEF GetStep
  <1>3. CASE Close  BY <1>3, CloseRefines
  <1>4. CASE UNCHANGED vars
    <2>1. UNCHANGED <<bufVars, eof, putVars, getVars>>  BY <1>4 DEF vars
    <2>2. Faked' <=> Faked  BY <2>1 DEF Faked, MonitorFree, bufVars, putVars, getVars
    <2>3. Contents' = Contents  BY <2>1, <2>2, ContentsAre, ContentsBecome DEF bufVars
    <2>4. Puts' = Puts /\ Got' = Got  BY <2>1 DEF Puts, Got, putVars, getVars
    <2> QED  BY <2>1, <2>3, <2>4 DEF Hidden
  <1> QED  BY <1>1, <1>2, <1>3, <1>4 DEF Next

-----------------------------------------------------------------------------
\* available() against the items in the channel.
LEMMA InvAvailable == IndInv => AvailableExact
  <1> SUFFICES ASSUME IndInv, getPc = "idle", MonitorFree, ~eof
               PROVE  Available <=> Contents # <<>>
    BY DEF AvailableExact
  <1>1. CASE overflow # <<>>
    <2>1. fallback # NoFb /\ Faked  BY <1>1 DEF IndInv, MonitorInv, Faked
    <2>2. (head + 1) % Len(buf) = fallback  BY <1>1, <2>1 DEF IndInv, FakeInv, Wrap, Length
    <2>3. (head + 1) % Len(buf) # head  BY SizeFacts, NextIndex
    <2>4. Available  BY <2>1, <2>2, <2>3 DEF Available
    <2>5. Contents # <<>>
      <3>1. overflow \in Seq(Items) /\ overflowHead \in 1..(Len(overflow) - 1)  BY <1>1, SizeFacts
      <3> QED  BY <1>1, <3>1, ContentsAre, PrefixGet
    <2> QED  BY <2>4, <2>5
  <1>2. CASE overflow = <<>>
    <2>1. ~Faked  BY <1>2 DEF IndInv, FakeInv
    <2>2. fallback = NoFb  BY <2>1 DEF Faked
    <2>3. Contents = RingOf(buf, tail, head)  BY <1>2, <2>1, ContentsAre
    <2>4. Contents = <<>> <=> tail = head
      <3>1. buf \in Seq(Items) /\ Len(buf) >= 2 /\ tail \in 0..(Len(buf) - 1) /\ head \in 0..(Len(buf) - 1)
        BY SizeFacts
      <3>2. RingOf(buf, tail, head) = <<>> <=> tail = head  BY <3>1, RingFacts
      <3> QED  BY <2>3, <3>2
    <2> QED  BY <2>2, <2>4 DEF Available
  <1> QED  BY <1>1, <1>2

\* The inductive invariant: the sizes, what the monitor protects, what the
\* faked states stand for, and what a side without the monitor still knows.
THEOREM Invariance == Spec => []IndInv
  BY InitInv, NextInv, PTL DEF Spec

\* put(), get() and available() index inside their buffers through growth,
\* wrap-around and change of buffers, and between two gets of an open channel
\* available() tells whether there is an item.
THEOREM BuffersConsistentHolds == Spec => []BuffersConsistent
  <1>1. IndInv => BuffersConsistent  BY InvAvailable DEF IndInv, BuffersConsistent
  <1> QED  BY Invariance, <1>1, PTL

\* put(), get() and close(), interleaved access by access, implement the queue
\* of FifoChannel: no item is lost, duplicated or overtaken.
THEOREM FifoHolds == Spec => IsFifo
  BY Invariance, InitRefines, NextRefines, PTL DEF Spec, IsFifo, Fifo!Spec
=============================================================================
