--------------------------- MODULE SafepointProofs ---------------------------
(***************************************************************************)
(* Safety of the safepoint protocol for every set of threads and managers  *)
(* and every nesting depth.                                                *)
(***************************************************************************)
EXTENDS Safepoint, TLAPS

\* Where a thread can be, given the depth of its record stack: outside every
\* context it runs or enters, and it enters only with room for a record.
ControlShape ==
    \A t \in Threads :
        /\ pc[t] \notin {"run", "enter"} => depth[t] > 0
        /\ pc[t] = "enter" => depth[t] < MaxDepth /\ target[t] \in Managers

\* While a task runs, every record of its manager is safe.
TaskSafe ==
    \A t \in Threads : pc[t] = "task" =>
        \A r \in Linked(Current(t)) : status[r[1]][r[2]] = "SAFE"

\* The inductive invariant.
IndInv ==
    /\ TypeOK
    /\ ControlShape
    /\ RecordsReset
    /\ BuriedSafe
    /\ RequesterHoldsMutex
    /\ SeenStaysSafe
    /\ TaskSafe

-----------------------------------------------------------------------------
\* The initial state satisfies the invariant.
LEMMA InitInv == Init => IndInv
  BY SafepointAssumption
  DEF Init, IndInv, TypeOK, ControlShape, RecordsReset, BuriedSafe, RequesterHoldsMutex,
      SeenStaysSafe, TaskSafe, PCs, Depths, Records, Linked, Current, Running


\* A step keeps what a scan has seen: no thread starts or changes a scan, and
\* no record on a scanned list appears or becomes unsafe.
ScanKept ==
    /\ \A u \in Threads : pc'[u] \in {"spin", "task"} =>
          /\ pc'[u] = pc[u]
          /\ Current(u)' = Current(u)
          /\ todo'[Current(u)] = todo[Current(u)]
    /\ \A u, v \in Threads : \A d \in Depths :
          /\ pc[u] \in {"spin", "task"}
          /\ pc'[u] \in {"spin", "task"}
          /\ manager'[v][d] = Current(u)
          => /\ manager[v][d] = Current(u)
             /\ status[v][d] = "SAFE" => status'[v][d] = "SAFE"

\* Such a step preserves both scan invariants.
LEMMA ScanStep ==
  ASSUME SeenStaysSafe, TaskSafe, ScanKept
  PROVE  SeenStaysSafe' /\ TaskSafe'
  <1>1. ASSUME NEW u \in Threads, pc'[u] = "spin", NEW r \in Linked(Current(u))' \ todo'[Current(u)']
        PROVE  status'[r[1]][r[2]] = "SAFE"
    <2>1. r[1] \in Threads /\ r[2] \in Depths /\ r \in Records /\ manager'[r[1]][r[2]] = Current(u)'
      BY <1>1 DEF Linked, Records, Depths
    <2>2. r \in Linked(Current(u)) \ todo[Current(u)]
      BY <1>1, <2>1 DEF ScanKept, Linked
    <2>3. status[r[1]][r[2]] = "SAFE"
      BY <1>1, <2>2 DEF SeenStaysSafe, ScanKept
    <2> QED  BY <1>1, <2>1, <2>3 DEF ScanKept
  <1>2. ASSUME NEW u \in Threads, pc'[u] = "task", NEW r \in Linked(Current(u))'
        PROVE  status'[r[1]][r[2]] = "SAFE"
    <2>1. r[1] \in Threads /\ r[2] \in Depths /\ r \in Records /\ manager'[r[1]][r[2]] = Current(u)'
      BY <1>2 DEF Linked, Records, Depths
    <2>2. r \in Linked(Current(u))
      BY <1>2, <2>1 DEF ScanKept, Linked
    <2>3. status[r[1]][r[2]] = "SAFE"
      BY <1>2, <2>2 DEF TaskSafe, ScanKept
    <2> QED  BY <1>2, <2>1, <2>3 DEF ScanKept
  <1>3. SeenStaysSafe'  BY <1>1 DEF SeenStaysSafe
  <1>4. TaskSafe'  BY <1>2 DEF TaskSafe
  <1> QED  BY <1>3, <1>4

\* A thread with a record is in the context of a manager.
LEMMA CurrentFacts ==
  ASSUME IndInv, NEW t \in Threads, depth[t] > 0
  PROVE  depth[t] \in Depths /\ Current(t) = manager[t][depth[t]] /\ Current(t) \in Managers
  <1>1. depth[t] \in Depths  BY SafepointAssumption DEF IndInv, TypeOK, Depths
  <1>2. Current(t) = manager[t][depth[t]]  BY <1>1 DEF Current, Depths
  <1>3. manager[t][depth[t]] \in Managers \cup {NoManager}  BY <1>1 DEF IndInv, TypeOK
  <1>4. manager[t][depth[t]] # NoManager  BY <1>1 DEF IndInv, RecordsReset, Depths
  <1> QED  BY <1>1, <1>2, <1>3, <1>4

\* A scanning thread holds the mutex of its manager.
LEMMA ScannerFacts ==
  ASSUME IndInv, NEW u \in Threads, pc[u] \in {"interrupt", "spin", "task"}
  PROVE  /\ depth[u] \in Depths /\ Current(u) = manager[u][depth[u]]
         /\ Current(u) \in Managers /\ owner[Current(u)] = u
  <1>1. depth[u] > 0  BY DEF IndInv, ControlShape
  <1>2. depth[u] \in Depths /\ Current(u) = manager[u][depth[u]] /\ Current(u) \in Managers
    BY <1>1, CurrentFacts
  <1> QED  BY <1>2 DEF IndInv, RequesterHoldsMutex

\* Entering, up to the lock: a nested entry makes the previous record safe.
LEMMA EnterBeginInv ==
  ASSUME IndInv, NEW t \in Threads, NEW m \in Managers, EnterBegin(t, m)
  PROVE  IndInv'
  <1> USE SafepointAssumption DEF IndInv, EnterBegin
  <1>0. /\ status' \in [Threads -> [Depths -> {"SAFE", "UNSAFE"}]]
        /\ \A u \in Threads : \A d \in Depths :
              status'[u][d] = IF u = t /\ d = depth[t] THEN "SAFE" ELSE status[u][d]
    <2>1. CASE depth[t] = 0  BY <2>1 DEF TypeOK, Depths
    <2>2. CASE depth[t] # 0
      <3>1. depth[t] \in Depths  BY <2>2 DEF TypeOK, Depths
      <3>2. status' = [status EXCEPT ![t] = [@ EXCEPT ![depth[t]] = "SAFE"]]
        BY <2>2 DEF SetStatus
      <3> QED  BY <3>1, <3>2 DEF TypeOK
    <2> QED  BY <2>1, <2>2
  <1>1. TypeOK'  BY <1>0 DEF TypeOK, PCs
  <1>2. ControlShape'  BY DEF ControlShape, TypeOK
  <1>3. RecordsReset'  
    <2>1. UNCHANGED <<depth, manager>>  OBVIOUS
    <2>2. depth[t] \in Nat  BY DEF TypeOK
    <2> HIDE DEF EnterBegin
    <2> QED  BY <1>0, <2>1, <2>2 DEF RecordsReset, Depths
  <1>4. BuriedSafe'  BY DEF BuriedSafe, TypeOK, Depths, Running, SetStatus
  <1>5. RequesterHoldsMutex'  BY DEF RequesterHoldsMutex, TypeOK, Current
  <1>6. ScanKept  BY <1>0 DEF ScanKept, TypeOK, Current
  <1> QED  BY <1>1, <1>2, <1>3, <1>4, <1>5, <1>6, ScanStep

\* Linking a record: only with the mutex free, so no scan is under way there.
LEMMA EnterLinkInv ==
  ASSUME IndInv, NEW t \in Threads, EnterLink(t)
  PROVE  IndInv'
  <1> USE SafepointAssumption DEF IndInv, EnterLink, NotifyAll
  <1>1. TypeOK'  BY DEF TypeOK, PCs, Depths, Records, Current, Linked, ControlShape
  <1>2. ControlShape'  BY DEF ControlShape, TypeOK, PCs, Current
  <1>3. RecordsReset'  BY DEF RecordsReset, TypeOK, Depths, Current, ControlShape
  <1>4. BuriedSafe'  BY DEF BuriedSafe, TypeOK, Depths, Running, Current, ControlShape, RecordsReset
  <1>5. RequesterHoldsMutex'  BY DEF RequesterHoldsMutex, TypeOK, Current, ControlShape, RecordsReset, Depths
  <1>6. ScanKept  BY DEF ScanKept, TypeOK, Depths, Current, RequesterHoldsMutex, RecordsReset, ControlShape
  <1> QED  BY <1>1, <1>2, <1>3, <1>4, <1>5, <1>6, ScanStep

\* Leaving with the mutex free.
LEMMA LeaveTryInv ==
  ASSUME IndInv, NEW t \in Threads, LeaveTry(t)
  PROVE  IndInv'
  <1> USE SafepointAssumption DEF IndInv
  <1> DEFINE m == Current(t)
  <1>0. /\ depth[t] \in Depths /\ m = manager[t][depth[t]] /\ m \in Managers
        /\ owner[m] = NoThread
        /\ depth' = [depth EXCEPT ![t] = @ - 1]
        /\ manager' = [manager EXCEPT ![t] = [@ EXCEPT ![depth[t]] = NoManager]]
        /\ UNCHANGED <<status, owner, requester, todo, target, intr>>
        /\ pc[t] \in {"run", "unwind"}
        /\ pc' = [NotifyAll(m) EXCEPT ![t] = IF depth[t] > 1 THEN "resume" ELSE "run"]
    BY DEF LeaveTry, Unlink, Running, TypeOK, Depths, Current, RecordsReset
  <1>1. TypeOK'  BY <1>0 DEF TypeOK, PCs, Depths, NotifyAll
  <1>2. ControlShape'  BY <1>0 DEF ControlShape, TypeOK, NotifyAll, Depths
  <1>3. RecordsReset'
    <2> SUFFICES ASSUME NEW u \in Threads, NEW d \in Depths
                 PROVE  /\ manager'[u][d] = NoManager <=> d > depth'[u]
                        /\ d > depth'[u] => status'[u][d] = "UNSAFE"
      BY DEF RecordsReset
    <2>1. CASE u = t
      <3>1. status[t][depth[t]] = "UNSAFE"  BY <1>0 DEF BuriedSafe, Running, Depths
      <3> QED  BY <1>0, <2>1, <3>1 DEF RecordsReset, TypeOK, Depths
    <2>2. CASE u # t
      BY <1>0, <2>2 DEF RecordsReset, TypeOK, Depths
    <2> QED  BY <2>1, <2>2
  <1>4. BuriedSafe'
    <2> SUFFICES ASSUME NEW u \in Threads
                 PROVE  /\ \A d \in Depths : d < depth'[u] => status'[u][d] = "SAFE"
                        /\ depth'[u] > 0 => (Running(u)' <=> status'[u][depth'[u]] = "UNSAFE")
      BY DEF BuriedSafe
    <2>1. CASE u = t
      <3>1. depth'[t] = depth[t] - 1 /\ (depth[t] > 1 => pc'[t] = "resume")
        BY <1>0 DEF TypeOK, Depths, NotifyAll
      <3> QED  BY <1>0, <2>1, <3>1 DEF BuriedSafe, TypeOK, Depths, Running
    <2>2. CASE u # t
      BY <1>0, <2>2 DEF BuriedSafe, TypeOK, Depths, Running, NotifyAll
    <2> QED  BY <2>1, <2>2
  <1>5. RequesterHoldsMutex'
    BY <1>0 DEF RequesterHoldsMutex, TypeOK, Current, ControlShape, Depths, NotifyAll
  <1>6. ScanKept
    <2>1. ASSUME NEW u \in Threads, pc'[u] \in {"spin", "task"}
          PROVE  u # t /\ pc'[u] = pc[u] /\ Current(u)' = Current(u) /\ Current(u) \in Managers \ {m}
      <3>1. u # t /\ pc'[u] = pc[u]  BY <1>0, <2>1 DEF NotifyAll, TypeOK
      <3>2. Current(u)' = Current(u)  BY <1>0, <3>1 DEF Current, TypeOK
      <3> QED  BY <1>0, <2>1, <3>1, <3>2, ScannerFacts
    <2>2. ASSUME NEW u \in Threads, pc'[u] \in {"spin", "task"}, NEW v \in Threads, NEW d \in Depths,
                 manager'[v][d] = Current(u)
          PROVE  manager[v][d] = Current(u) /\ (status[v][d] = "SAFE" => status'[v][d] = "SAFE")
      BY <1>0, <2>1, <2>2 DEF TypeOK
    <2> QED  BY <1>0, <2>1, <2>2 DEF ScanKept
  <1> QED  BY <1>1, <1>2, <1>3, <1>4, <1>5, <1>6, ScanStep

\* Blocking in leave() makes the record safe.
LEMMA LeaveBlockInv ==
  ASSUME IndInv, NEW t \in Threads, LeaveBlock(t)
  PROVE  IndInv'
  <1> USE SafepointAssumption DEF IndInv, LeaveBlock, SetStatus, Running
  <1>1. TypeOK'  BY DEF TypeOK, PCs, Depths, Records, Current, Linked, ControlShape
  <1>2. ControlShape'  BY DEF ControlShape, TypeOK, PCs, Current
  <1>3. RecordsReset'  BY DEF RecordsReset, TypeOK, Depths, Current, ControlShape
  <1>4. BuriedSafe'  BY DEF BuriedSafe, TypeOK, Depths, Running, Current, ControlShape, RecordsReset
  <1>5. RequesterHoldsMutex'  BY DEF RequesterHoldsMutex, TypeOK, Current, ControlShape, RecordsReset, Depths
  <1>6. ScanKept  BY DEF ScanKept, TypeOK, Depths, Current, RequesterHoldsMutex, RecordsReset, ControlShape
  <1> QED  BY <1>1, <1>2, <1>3, <1>4, <1>5, <1>6, ScanStep

\* The blocked leaver unlinks its record.
LEMMA LeaveLockedInv ==
  ASSUME IndInv, NEW t \in Threads, LeaveLocked(t)
  PROVE  IndInv'
  <1> USE SafepointAssumption DEF IndInv
  <1> DEFINE m == Current(t)
  <1>0. /\ depth[t] \in Depths /\ m = manager[t][depth[t]] /\ m \in Managers
        /\ owner[m] = NoThread
        /\ depth' = [depth EXCEPT ![t] = @ - 1]
        /\ manager' = [manager EXCEPT ![t] = [@ EXCEPT ![depth[t]] = NoManager]]
        /\ status' = [status EXCEPT ![t] = [@ EXCEPT ![depth[t]] = "UNSAFE"]]
        /\ UNCHANGED <<owner, requester, todo, target, intr>>
        /\ pc[t] = "leave"
        /\ pc' = [NotifyAll(m) EXCEPT ![t] = IF depth[t] > 1 THEN "resume" ELSE "run"]
    <2>1. depth[t] > 0  BY DEF LeaveLocked, ControlShape
    <2> QED  BY <2>1, CurrentFacts DEF LeaveLocked, Unlink, SetStatus
  <1>1. TypeOK'  BY <1>0 DEF TypeOK, PCs, Depths, NotifyAll
  <1>2. ControlShape'  BY <1>0 DEF ControlShape, TypeOK, NotifyAll, Depths
  <1>3. RecordsReset'  BY <1>0 DEF RecordsReset, TypeOK, Depths
  <1>4. BuriedSafe'
    <2> SUFFICES ASSUME NEW u \in Threads
                 PROVE  /\ \A d \in Depths : d < depth'[u] => status'[u][d] = "SAFE"
                        /\ depth'[u] > 0 => (Running(u)' <=> status'[u][depth'[u]] = "UNSAFE")
      BY DEF BuriedSafe
    <2>1. CASE u = t
      <3>1. depth'[t] = depth[t] - 1 /\ (depth[t] > 1 => pc'[t] = "resume")
        BY <1>0 DEF TypeOK, Depths, NotifyAll
      <3> QED  BY <1>0, <2>1, <3>1 DEF BuriedSafe, TypeOK, Depths, Running
    <2>2. CASE u # t
      BY <1>0, <2>2 DEF BuriedSafe, TypeOK, Depths, Running, NotifyAll
    <2> QED  BY <2>1, <2>2
  <1>5. RequesterHoldsMutex'
    BY <1>0 DEF RequesterHoldsMutex, TypeOK, Current, ControlShape, Depths, NotifyAll
  <1>6. ScanKept
    <2>1. ASSUME NEW u \in Threads, pc'[u] \in {"spin", "task"}
          PROVE  u # t /\ pc'[u] = pc[u] /\ Current(u)' = Current(u) /\ Current(u) \in Managers \ {m}
      <3>1. u # t /\ pc'[u] = pc[u]  BY <1>0, <2>1 DEF NotifyAll, TypeOK
      <3>2. Current(u)' = Current(u)  BY <1>0, <3>1 DEF Current, TypeOK
      <3> QED  BY <1>0, <2>1, <3>1, <3>2, ScannerFacts
    <2>2. ASSUME NEW u \in Threads, pc'[u] \in {"spin", "task"}, NEW v \in Threads, NEW d \in Depths,
                 manager'[v][d] = Current(u)
          PROVE  manager[v][d] = Current(u) /\ (status[v][d] = "SAFE" => status'[v][d] = "SAFE")
      BY <1>0, <2>1, <2>2 DEF TypeOK
    <2> QED  BY <1>0, <2>1, <2>2 DEF ScanKept
  <1> QED  BY <1>1, <1>2, <1>3, <1>4, <1>5, <1>6, ScanStep

\* Unwinding into the previous record.
LEMMA ResumeInv ==
  ASSUME IndInv, NEW t \in Threads, Resume(t)
  PROVE  IndInv'
  <1> USE SafepointAssumption DEF IndInv, Resume, SetStatus, NotifyAll
  <1>1. TypeOK'  BY DEF TypeOK, PCs, Depths, Records, Current, Linked, ControlShape
  <1>2. ControlShape'  BY DEF ControlShape, TypeOK, PCs, Current
  <1>3. RecordsReset'  BY DEF RecordsReset, TypeOK, Depths, Current, ControlShape
  <1>4. BuriedSafe'  BY DEF BuriedSafe, TypeOK, Depths, Running, Current, ControlShape, RecordsReset
  <1>5. RequesterHoldsMutex'  BY DEF RequesterHoldsMutex, TypeOK, Current, ControlShape, RecordsReset, Depths
  <1>6. ScanKept  BY DEF ScanKept, TypeOK, Depths, Current, RequesterHoldsMutex, RecordsReset, ControlShape
  <1> QED  BY <1>1, <1>2, <1>3, <1>4, <1>5, <1>6, ScanStep

\* Opening a gate.
LEMMA GateOpenInv ==
  ASSUME IndInv, NEW t \in Threads, GateOpen(t)
  PROVE  IndInv'
  <1> USE SafepointAssumption DEF IndInv, GateOpen, SetStatus
  <1>1. TypeOK'  BY DEF TypeOK, PCs, Depths, Records, Current, Linked, ControlShape
  <1>2. ControlShape'  BY DEF ControlShape, TypeOK, PCs, Current
  <1>3. RecordsReset'  BY DEF RecordsReset, TypeOK, Depths, Current, ControlShape
  <1>4. BuriedSafe'  BY DEF BuriedSafe, TypeOK, Depths, Running, Current, ControlShape, RecordsReset
  <1>5. RequesterHoldsMutex'  BY DEF RequesterHoldsMutex, TypeOK, Current, ControlShape, RecordsReset, Depths
  <1>6. ScanKept  BY DEF ScanKept, TypeOK, Depths, Current, RequesterHoldsMutex, RecordsReset, ControlShape
  <1> QED  BY <1>1, <1>2, <1>3, <1>4, <1>5, <1>6, ScanStep

\* Closing a gate: only with the mutex free.
LEMMA GateCloseInv ==
  ASSUME IndInv, NEW t \in Threads, GateClose(t)
  PROVE  IndInv'
  <1> USE SafepointAssumption DEF IndInv, GateClose, SetStatus, NotifyAll
  <1>1. TypeOK'  BY DEF TypeOK, PCs, Depths, Records, Current, Linked, ControlShape
  <1>2. ControlShape'  BY DEF ControlShape, TypeOK, PCs, Current
  <1>3. RecordsReset'  BY DEF RecordsReset, TypeOK, Depths, Current, ControlShape
  <1>4. BuriedSafe'  BY DEF BuriedSafe, TypeOK, Depths, Running, Current, ControlShape, RecordsReset
  <1>5. RequesterHoldsMutex'  BY DEF RequesterHoldsMutex, TypeOK, Current, ControlShape, RecordsReset, Depths
  <1>6. ScanKept  BY DEF ScanKept, TypeOK, Depths, Current, RequesterHoldsMutex, RecordsReset, ControlShape
  <1> QED  BY <1>1, <1>2, <1>3, <1>4, <1>5, <1>6, ScanStep

\* Taking the free mutex for a request.
LEMMA RequestTryInv ==
  ASSUME IndInv, NEW t \in Threads, RequestTry(t)
  PROVE  IndInv'
  <1> USE SafepointAssumption DEF IndInv, RequestTry, StartPass, SetStatus
  <1>1. TypeOK'  BY DEF TypeOK, PCs, Depths, Records, Current, Linked, ControlShape
  <1>2. ControlShape'  BY DEF ControlShape, TypeOK, PCs, Current
  <1>3. RecordsReset'  BY DEF RecordsReset, TypeOK, Depths, Current, ControlShape
  <1>4. BuriedSafe'  BY DEF BuriedSafe, TypeOK, Depths, Running, Current, ControlShape, RecordsReset
  <1>5. RequesterHoldsMutex'  BY DEF RequesterHoldsMutex, TypeOK, Current, ControlShape, RecordsReset, Depths
  <1>6. ScanKept  BY DEF ScanKept, TypeOK, Depths, Current, RequesterHoldsMutex, RecordsReset, ControlShape
  <1> QED  BY <1>1, <1>2, <1>3, <1>4, <1>5, <1>6, ScanStep

\* Blocking for a request makes the record safe.
LEMMA RequestBlockInv ==
  ASSUME IndInv, NEW t \in Threads, RequestBlock(t)
  PROVE  IndInv'
  <1> USE SafepointAssumption DEF IndInv, RequestBlock, SetStatus
  <1>1. TypeOK'  BY DEF TypeOK, PCs, Depths, Records, Current, Linked, ControlShape
  <1>2. ControlShape'  BY DEF ControlShape, TypeOK, PCs, Current
  <1>3. RecordsReset'  BY DEF RecordsReset, TypeOK, Depths, Current, ControlShape
  <1>4. BuriedSafe'  BY DEF BuriedSafe, TypeOK, Depths, Running, Current, ControlShape, RecordsReset
  <1>5. RequesterHoldsMutex'  BY DEF RequesterHoldsMutex, TypeOK, Current, ControlShape, RecordsReset, Depths
  <1>6. ScanKept  BY DEF ScanKept, TypeOK, Depths, Current, RequesterHoldsMutex, RecordsReset, ControlShape
  <1> QED  BY <1>1, <1>2, <1>3, <1>4, <1>5, <1>6, ScanStep

\* The blocked or woken requester takes the mutex.
LEMMA RequestLockedInv ==
  ASSUME IndInv, NEW t \in Threads, RequestLocked(t)
  PROVE  IndInv'
  <1> USE SafepointAssumption DEF IndInv, RequestLocked, StartPass, SetStatus, NotifyAll
  <1>1. TypeOK'  BY DEF TypeOK, PCs, Depths, Records, Current, Linked, ControlShape
  <1>2. ControlShape'  BY DEF ControlShape, TypeOK, PCs, Current
  <1>3. RecordsReset'  BY DEF RecordsReset, TypeOK, Depths, Current, ControlShape
  <1>4. BuriedSafe'
    <2>1. /\ depth' = depth /\ depth[t] \in Depths
          /\ status' = [status EXCEPT ![t] = [@ EXCEPT ![depth[t]] = "SAFE"]]
          /\ \A u \in Threads : Running(u)' => Running(u) /\ u # t
          /\ \A u \in Threads : u # t /\ Running(u) => Running(u)'
      <3>1. depth[t] \in Depths  BY CurrentFacts DEF ControlShape
      <3>2. \A u \in Threads : u # t => (Running(u)' <=> Running(u))  BY DEF Running, TypeOK
      <3>3. ~Running(t)'  BY DEF Running, TypeOK
      <3> QED  BY <3>1, <3>2, <3>3
    <2> QED  BY <2>1 DEF BuriedSafe, TypeOK, Depths
  <1>5. RequesterHoldsMutex'  BY DEF RequesterHoldsMutex, TypeOK, Current, ControlShape, RecordsReset, Depths
  <1>6. ScanKept  BY DEF ScanKept, TypeOK, Depths, Current, RequesterHoldsMutex, RecordsReset, ControlShape
  <1> QED  BY <1>1, <1>2, <1>3, <1>4, <1>5, <1>6, ScanStep

\* A spurious wake-up changes only the waiter.
LEMMA SpuriousWakeInv ==
  ASSUME IndInv, NEW t \in Threads, SpuriousWake(t)
  PROVE  IndInv'
  <1> USE SafepointAssumption DEF IndInv, SpuriousWake
  <1>1. TypeOK'  BY DEF TypeOK, PCs, Depths, Records, Current, Linked, ControlShape
  <1>2. ControlShape'  BY DEF ControlShape, TypeOK, PCs, Current
  <1>3. RecordsReset'  BY DEF RecordsReset, TypeOK, Depths, Current, ControlShape
  <1>4. BuriedSafe'  BY DEF BuriedSafe, TypeOK, Depths, Running, Current, ControlShape, RecordsReset
  <1>5. RequesterHoldsMutex'  BY DEF RequesterHoldsMutex, TypeOK, Current, ControlShape, RecordsReset, Depths
  <1>6. ScanKept  BY DEF ScanKept, TypeOK, Depths, Current, RequesterHoldsMutex, RecordsReset, ControlShape
  <1> QED  BY <1>1, <1>2, <1>3, <1>4, <1>5, <1>6, ScanStep

\* Visiting a record changes only the scan and an interrupt word.
LEMMA InterruptRecordInv ==
  ASSUME IndInv, NEW t \in Threads, NEW r \in Records, InterruptRecord(t, r)
  PROVE  IndInv'
  <1> USE SafepointAssumption DEF IndInv, InterruptRecord
  <1>1. TypeOK'  BY DEF TypeOK, PCs, Depths, Records, Current, Linked, ControlShape
  <1>2. ControlShape'  BY DEF ControlShape, TypeOK, PCs, Current
  <1>3. RecordsReset'  BY DEF RecordsReset, TypeOK, Depths, Current, ControlShape
  <1>4. BuriedSafe'  BY DEF BuriedSafe, TypeOK, Depths, Running, Current, ControlShape, RecordsReset
  <1>5. RequesterHoldsMutex'  BY DEF RequesterHoldsMutex, TypeOK, Current, ControlShape, RecordsReset, Depths
  <1>6. ScanKept  BY DEF ScanKept, TypeOK, Depths, Current, RequesterHoldsMutex, RecordsReset, ControlShape
  <1> QED  BY <1>1, <1>2, <1>3, <1>4, <1>5, <1>6, ScanStep

\* Backing off gives the mutex and the announcement back.
LEMMA BackOffInv ==
  ASSUME IndInv, NEW t \in Threads, NEW r \in Records, BackOff(t, r)
  PROVE  IndInv'
  <1> USE SafepointAssumption DEF IndInv, BackOff, SetStatus
  <1>1. TypeOK'  BY DEF TypeOK, PCs, Depths, Records, Current, Linked, ControlShape
  <1>2. ControlShape'  BY DEF ControlShape, TypeOK, PCs, Current
  <1>3. RecordsReset'  BY DEF RecordsReset, TypeOK, Depths, Current, ControlShape
  <1>4. BuriedSafe'  BY DEF BuriedSafe, TypeOK, Depths, Running, Current, ControlShape, RecordsReset
  <1>5. RequesterHoldsMutex'  BY DEF RequesterHoldsMutex, TypeOK, Current, ControlShape, RecordsReset, Depths
  <1>6. ScanKept  BY DEF ScanKept, TypeOK, Depths, Current, RequesterHoldsMutex, RecordsReset, ControlShape
  <1> QED  BY <1>1, <1>2, <1>3, <1>4, <1>5, <1>6, ScanStep

\* The end of the task.
LEMMA FinishTaskInv ==
  ASSUME IndInv, NEW t \in Threads, FinishTask(t)
  PROVE  IndInv'
  <1> USE SafepointAssumption DEF IndInv, FinishTask, SetStatus
  <1>1. TypeOK'  BY DEF TypeOK, PCs, Depths, Records, Current, Linked, ControlShape
  <1>2. ControlShape'  BY DEF ControlShape, TypeOK, PCs, Current
  <1>3. RecordsReset'  BY DEF RecordsReset, TypeOK, Depths, Current, ControlShape
  <1>4. BuriedSafe'  BY DEF BuriedSafe, TypeOK, Depths, Running, Current, ControlShape, RecordsReset
  <1>5. RequesterHoldsMutex'  BY DEF RequesterHoldsMutex, TypeOK, Current, ControlShape, RecordsReset, Depths
  <1>6. ScanKept  BY DEF ScanKept, TypeOK, Depths, Current, RequesterHoldsMutex, RecordsReset, ControlShape
  <1> QED  BY <1>1, <1>2, <1>3, <1>4, <1>5, <1>6, ScanStep

\* An external interrupt changes only the word.
LEMMA RaiseInterruptInv ==
  ASSUME IndInv, NEW t \in Threads, RaiseInterrupt(t)
  PROVE  IndInv'
  <1> USE SafepointAssumption DEF IndInv, RaiseInterrupt
  <1>1. TypeOK'  BY DEF TypeOK, PCs, Depths, Records, Current, Linked, ControlShape
  <1>2. ControlShape'  BY DEF ControlShape, TypeOK, PCs, Current
  <1>3. RecordsReset'  BY DEF RecordsReset, TypeOK, Depths, Current, ControlShape
  <1>4. BuriedSafe'  BY DEF BuriedSafe, TypeOK, Depths, Running, Current, ControlShape, RecordsReset
  <1>5. RequesterHoldsMutex'  BY DEF RequesterHoldsMutex, TypeOK, Current, ControlShape, RecordsReset, Depths
  <1>6. ScanKept  BY DEF ScanKept, TypeOK, Depths, Current, RequesterHoldsMutex, RecordsReset, ControlShape
  <1> QED  BY <1>1, <1>2, <1>3, <1>4, <1>5, <1>6, ScanStep

\* Handling a poll: through a gate, or nothing.
LEMMA HandlePollInv ==
  ASSUME IndInv, NEW t \in Threads, HandlePoll(t)
  PROVE  IndInv'
  <1> USE SafepointAssumption DEF IndInv
  <1>0. /\ depth[t] \in Depths
        /\ intr' = [intr EXCEPT ![t] = "none"]
        /\ pc[t] = "run"
        /\ UNCHANGED <<depth, manager, owner, requester, todo, target>>
    BY DEF HandlePoll, TypeOK, Depths
  <1>1. CASE requester[Current(t)] # NoThread
    <2>0. /\ status' = [status EXCEPT ![t] = [@ EXCEPT ![depth[t]] = "SAFE"]]
          /\ pc' = [pc EXCEPT ![t] = "gate"]
      BY <1>1 DEF HandlePoll, SetStatus
    <2>1. TypeOK'  BY <1>0, <2>0 DEF TypeOK, PCs, Depths
    <2>2. ControlShape'  BY <1>0, <2>0 DEF ControlShape, TypeOK, Depths
    <2>3. RecordsReset'  BY <1>0, <2>0 DEF RecordsReset, TypeOK, Depths
    <2>4. BuriedSafe'  BY <1>0, <2>0 DEF BuriedSafe, TypeOK, Depths, Running
    <2>5. RequesterHoldsMutex'  BY <1>0, <2>0 DEF RequesterHoldsMutex, TypeOK, Current
    <2>6. ScanKept  BY <1>0, <2>0 DEF ScanKept, TypeOK, Depths, Current
    <2> QED  BY <2>1, <2>2, <2>3, <2>4, <2>5, <2>6, ScanStep
  <1>2. CASE requester[Current(t)] = NoThread
    <2>0. UNCHANGED <<pc, status>>  BY <1>2 DEF HandlePoll
    <2>1. TypeOK'  BY <1>0, <2>0 DEF TypeOK
    <2>2. ControlShape' /\ RecordsReset' /\ BuriedSafe' /\ RequesterHoldsMutex'
      BY <1>0, <2>0 DEF ControlShape, RecordsReset, BuriedSafe, RequesterHoldsMutex, Running, Current
    <2>3. ScanKept  BY <1>0, <2>0 DEF ScanKept, Current
    <2> QED  BY <2>1, <2>2, <2>3, ScanStep
  <1> QED  BY <1>1, <1>2

\* Handling a terminating interrupt.
LEMMA HandleUnwindInv ==
  ASSUME IndInv, NEW t \in Threads, HandleUnwind(t)
  PROVE  IndInv'
  <1> USE SafepointAssumption DEF IndInv, HandleUnwind
  <1>1. TypeOK'  BY DEF TypeOK, PCs, Depths, Records, Current, Linked, ControlShape
  <1>2. ControlShape'  BY DEF ControlShape, TypeOK, PCs, Current
  <1>3. RecordsReset'  BY DEF RecordsReset, TypeOK, Depths, Current, ControlShape
  <1>4. BuriedSafe'  BY DEF BuriedSafe, TypeOK, Depths, Running, Current, ControlShape, RecordsReset
  <1>5. RequesterHoldsMutex'  BY DEF RequesterHoldsMutex, TypeOK, Current, ControlShape, RecordsReset, Depths
  <1>6. ScanKept  BY DEF ScanKept, TypeOK, Depths, Current, RequesterHoldsMutex, RecordsReset, ControlShape
  <1> QED  BY <1>1, <1>2, <1>3, <1>4, <1>5, <1>6, ScanStep

\* The busy-wait starts with nothing seen.
LEMMA StartSpinInv ==
  ASSUME IndInv, NEW t \in Threads, StartSpin(t)
  PROVE  IndInv'
  <1> USE SafepointAssumption DEF IndInv, StartSpin
  <1>1. TypeOK'  BY DEF TypeOK, PCs, Linked, Current
  <1>2. ControlShape'  BY DEF ControlShape, TypeOK
  <1>3. RecordsReset'  BY DEF RecordsReset
  <1>4. BuriedSafe'  BY DEF BuriedSafe, TypeOK, Running
  <1>5. RequesterHoldsMutex'  BY DEF RequesterHoldsMutex, TypeOK, Current
  <1>6. SeenStaysSafe'
    <2> SUFFICES ASSUME NEW u \in Threads, pc'[u] = "spin",
                        NEW r \in Linked(Current(u))' \ todo'[Current(u)']
                 PROVE  status'[r[1]][r[2]] = "SAFE"
      BY DEF SeenStaysSafe
    <2>1. Current(u)' = Current(u) /\ Linked(Current(u))' = Linked(Current(u))
      BY DEF Current, Linked
    <2>2. Current(t) \in Managers  BY ScannerFacts
    <2>3. CASE u = t  BY <2>1, <2>2, <2>3 DEF TypeOK
    <2>4. CASE u # t
      <3>1. pc[u] = "spin"  BY <2>4 DEF TypeOK
      <3>2. Current(u) # Current(t)
        BY <2>2, <2>4, <3>1 DEF RequesterHoldsMutex
      <3> QED  BY <2>1, <3>1, <3>2 DEF SeenStaysSafe, TypeOK
    <2> QED  BY <2>3, <2>4
  <1>7. TaskSafe'  BY DEF TaskSafe, TypeOK, Current, Linked
  <1> QED  BY <1>1, <1>2, <1>3, <1>4, <1>5, <1>6, <1>7

\* The busy-wait goes past a safe record.
LEMMA SpinPastInv ==
  ASSUME IndInv, NEW t \in Threads, NEW r \in Records, SpinPast(t, r)
  PROVE  IndInv'
  <1> USE SafepointAssumption DEF IndInv, SpinPast
  <1>1. TypeOK'  BY DEF TypeOK
  <1>2. ControlShape'  BY DEF ControlShape
  <1>3. RecordsReset'  BY DEF RecordsReset
  <1>4. BuriedSafe'  BY DEF BuriedSafe, Running
  <1>5. RequesterHoldsMutex'  BY DEF RequesterHoldsMutex, Current
  <1>6. SeenStaysSafe'
    <2> SUFFICES ASSUME NEW u \in Threads, pc[u] = "spin",
                        NEW q \in Linked(Current(u)) \ todo'[Current(u)]
                 PROVE  status[q[1]][q[2]] = "SAFE"
      BY DEF SeenStaysSafe, Current, Linked
    <2>1. CASE q \in todo[Current(u)]
      <3>1. q = r  BY <2>1 DEF TypeOK
      <3> QED  BY <3>1
    <2>2. CASE q \notin todo[Current(u)]  BY <2>2 DEF SeenStaysSafe
    <2> QED  BY <2>1, <2>2
  <1>7. TaskSafe'  BY DEF TaskSafe, Current, Linked
  <1> QED  BY <1>1, <1>2, <1>3, <1>4, <1>5, <1>6, <1>7

\* The task starts when the whole list has been seen.
LEMMA StartTaskInv ==
  ASSUME IndInv, NEW t \in Threads, StartTask(t)
  PROVE  IndInv'
  <1> USE SafepointAssumption DEF IndInv, StartTask
  <1>1. TypeOK'  BY DEF TypeOK, PCs
  <1>2. ControlShape'  BY DEF ControlShape, TypeOK
  <1>3. RecordsReset'  BY DEF RecordsReset
  <1>4. BuriedSafe'  BY DEF BuriedSafe, Running, TypeOK
  <1>5. RequesterHoldsMutex'  BY DEF RequesterHoldsMutex, Current, TypeOK
  <1>6. SeenStaysSafe'  BY DEF SeenStaysSafe, Current, Linked, TypeOK
  <1>7. TaskSafe'
    <2> SUFFICES ASSUME NEW u \in Threads, pc'[u] = "task", NEW r \in Linked(Current(u))
                 PROVE  status[r[1]][r[2]] = "SAFE"
      BY DEF TaskSafe, Current, Linked
    <2>1. CASE u = t  BY <2>1 DEF SeenStaysSafe
    <2>2. CASE u # t  BY <2>2 DEF TaskSafe, TypeOK
    <2> QED  BY <2>1, <2>2
  <1> QED  BY <1>1, <1>2, <1>3, <1>4, <1>5, <1>6, <1>7

-----------------------------------------------------------------------------
\* Every step of the protocol preserves the invariant.
LEMMA NextInv == IndInv /\ [Next]_vars => IndInv'
  <1> SUFFICES ASSUME IndInv, [Next]_vars PROVE IndInv'
    OBVIOUS
  <1>1. CASE UNCHANGED vars
    BY <1>1 DEF vars, IndInv, TypeOK, ControlShape, RecordsReset, BuriedSafe, RequesterHoldsMutex,
                SeenStaysSafe, TaskSafe, Linked, Current, Running
  <1>2. ASSUME NEW t \in Threads, Enter(t) PROVE IndInv'
    BY <1>2, EnterBeginInv, EnterLinkInv DEF Enter
  <1>3. ASSUME NEW t \in Threads, Leave(t) PROVE IndInv'
    BY <1>3, LeaveTryInv, LeaveBlockInv, LeaveLockedInv, ResumeInv DEF Leave
  <1>4. ASSUME NEW t \in Threads, Gate(t) PROVE IndInv'
    BY <1>4, GateOpenInv, GateCloseInv DEF Gate
  <1>5. ASSUME NEW t \in Threads, Visit(t) PROVE IndInv'
    BY <1>5, InterruptRecordInv, BackOffInv, SpinPastInv DEF Visit
  <1>6. ASSUME NEW t \in Threads, Request(t) PROVE IndInv'
    BY <1>5, <1>6, RequestTryInv, RequestBlockInv, RequestLockedInv, SpuriousWakeInv,
       StartSpinInv, StartTaskInv, FinishTaskInv DEF Request
  <1>7. ASSUME NEW t \in Threads, Interrupt(t) PROVE IndInv'
    BY <1>7, RaiseInterruptInv, HandlePollInv, HandleUnwindInv DEF Interrupt
  <1> QED  BY <1>1, <1>2, <1>3, <1>4, <1>6, <1>7 DEF Next

\* The protocol never leaves the inductive invariant.
THEOREM Invariance == Spec => []IndInv
  BY InitInv, NextInv, PTL DEF Spec

\* A running task excludes every other thread from the manager's context.
LEMMA Exclusion == IndInv => TaskExclusion
  <1> SUFFICES ASSUME IndInv, NEW t \in Threads, pc[t] = "task"
               PROVE  /\ \A r \in Linked(Current(t)) : status[r[1]][r[2]] = "SAFE"
                      /\ \A u \in Threads \ {t} : ~(Running(u) /\ Current(u) = Current(t))
    BY DEF TaskExclusion
  <1>1. \A r \in Linked(Current(t)) : status[r[1]][r[2]] = "SAFE"
    BY DEF IndInv, TaskSafe
  <1>2. ASSUME NEW u \in Threads, Running(u), Current(u) = Current(t)
        PROVE  FALSE
    <2>1. Current(t) \in Managers  BY ScannerFacts
    <2>2. depth[u] > 0
      BY <1>2, <2>1, SafepointAssumption DEF Current, IndInv, TypeOK
    <2>3. depth[u] \in Depths /\ manager[u][depth[u]] = Current(t)
      BY <1>2, <2>2, CurrentFacts
    <2>4. <<u, depth[u]>> \in Linked(Current(t))
      BY <2>3 DEF Linked, Records
    <2>5. status[u][depth[u]] = "SAFE"  BY <1>1, <2>4
    <2> QED  BY <1>2, <2>2, <2>5 DEF IndInv, BuriedSafe
  <1> QED  BY <1>1, <1>2

\* While a task runs on a manager every linked record is SP_SAFE and no other
\* thread executes code in its context (SafepointManager::requestSafepointTask).
THEOREM TaskExclusionHolds == Spec => []TaskExclusion
  BY Invariance, Exclusion, PTL

\* The books of SafepointManager and SafepointRecord, for any number of threads, managers
\* and depths: records under the top-most one and those the busy-wait has gone past are
\* SP_SAFE, the top-most one is SP_UNSAFE exactly while its thread runs, unlinked ones are
\* reset (the assertion of ~SafepointRecord), and m_requester holds the request mutex.
THEOREM RecordsConsistentHolds == Spec => []RecordsConsistent
  BY Invariance, PTL DEF IndInv, RecordsConsistent

\* A step changes a list only while nobody is announced as its requester.
LEMMA FrozenStep ==
  ASSUME IndInv, [Next]_vars, NEW m \in Managers, requester[m] # NoThread
  PROVE  Linked(m)' = Linked(m)
  <1>1. CASE UNCHANGED manager  BY <1>1 DEF Linked
  <1>2. ASSUME NEW t \in Threads, EnterLink(t) PROVE Linked(m)' = Linked(m)
    <2>1. /\ target[t] \in Managers /\ owner[target[t]] = NoThread
          /\ manager' = [manager EXCEPT ![t] = [@ EXCEPT ![depth[t] + 1] = target[t]]]
          /\ manager[t][depth[t] + 1] = NoManager
      <3>1. target[t] \in Managers /\ depth[t] \in Nat /\ depth[t] < MaxDepth
        BY <1>2, SafepointAssumption DEF EnterLink, IndInv, ControlShape, TypeOK
      <3>2. depth[t] + 1 \in Depths /\ depth[t] + 1 > depth[t]
        BY <3>1, SafepointAssumption DEF Depths
      <3>3. manager[t][depth[t] + 1] = NoManager
        BY <3>2 DEF IndInv, RecordsReset
      <3> QED  BY <1>2, <3>1, <3>3 DEF EnterLink
    <2>2. m # target[t]  BY <2>1 DEF IndInv, RequesterHoldsMutex
    <2>3. \A r \in Records : manager'[r[1]][r[2]] = m <=> manager[r[1]][r[2]] = m
      BY <2>1, <2>2, SafepointAssumption DEF IndInv, TypeOK, Records
    <2> QED  BY <2>3 DEF Linked
  <1>3. ASSUME NEW t \in Threads, LeaveTry(t) \/ LeaveLocked(t) PROVE Linked(m)' = Linked(m)
    <2>1. depth[t] > 0 /\ owner[Current(t)] = NoThread
      BY <1>3 DEF LeaveTry, LeaveLocked, IndInv, ControlShape
    <2>2. depth[t] \in Depths /\ Current(t) = manager[t][depth[t]] /\ Current(t) \in Managers
      BY <2>1, CurrentFacts
    <2>3. m # Current(t)  BY <2>1, <2>2 DEF IndInv, RequesterHoldsMutex
    <2>4. manager' = [manager EXCEPT ![t] = [@ EXCEPT ![depth[t]] = NoManager]]
      BY <1>3 DEF LeaveTry, LeaveLocked, Unlink
    <2>5. \A r \in Records : manager'[r[1]][r[2]] = m <=> manager[r[1]][r[2]] = m
      BY <2>2, <2>3, <2>4, SafepointAssumption DEF IndInv, TypeOK, Records
    <2> QED  BY <2>5 DEF Linked
  <1>4. ASSUME NEW t \in Threads, ~EnterLink(t), ~LeaveTry(t), ~LeaveLocked(t),
               Enter(t) \/ Leave(t) \/ Gate(t) \/ Request(t) \/ Interrupt(t)
        PROVE  UNCHANGED manager
    <2>1. CASE Enter(t)  BY <1>4, <2>1 DEF Enter, EnterBegin
    <2>2. CASE Leave(t)  BY <1>4, <2>2 DEF Leave, LeaveBlock, Resume
    <2>3. CASE Gate(t)  BY <2>3 DEF Gate, GateOpen, GateClose
    <2>4. CASE Request(t)
      BY <2>4 DEF Request, RequestTry, RequestBlock, RequestLocked, SpuriousWake, Visit,
                  InterruptRecord, BackOff, SpinPast, StartSpin, StartTask, FinishTask
    <2>5. CASE Interrupt(t)  BY <2>5 DEF Interrupt, RaiseInterrupt, HandlePoll, HandleUnwind
    <2> QED  BY <1>4, <2>1, <2>2, <2>3, <2>4, <2>5
  <1> QED  BY <1>1, <1>2, <1>3, <1>4 DEF Next, vars

\* No thread enters or leaves a context with a pending or ongoing task.
THEOREM MembershipFrozenHolds == Spec => MembershipFrozen
  <1>1. IndInv /\ [Next]_vars =>
          [\A m \in Managers : requester[m] # NoThread => Linked(m)' = Linked(m)]_vars
    BY FrozenStep
  <1> QED  BY <1>1, Invariance, PTL DEF Spec, MembershipFrozen

-----------------------------------------------------------------------------
(***************************************************************************)
(* The protocol implements the stop-the-world service.  Every action is a  *)
(* Pause or a stutter of the service, except the ones that make a record   *)
(* unsafe (Run), the start of a task and its end.                          *)
(***************************************************************************)

\* The task map changes only where a thread starts or ends a task.
LEMMA TaskMapKept ==
  ASSUME IndInv, UNCHANGED <<owner>>,
         \A u \in Threads : pc'[u] = "task" <=> pc[u] = "task"
  PROVE  TaskMap' = TaskMap
  <1>1. \A m \in Managers : owner[m] # NoThread => owner[m] \in Threads
    BY DEF IndInv, TypeOK
  <1> QED  BY <1>1 DEF TaskMap

\* A step in which the thread stops running, or nothing changes for the
\* service, is a Pause of that thread.
LEMMA PauseStep ==
  ASSUME NEW t \in Threads, TaskMap' = TaskMap,
         ~Running(t)' \/ Current(t)' = NoManager,
         \A u \in Threads \ {t} : (Running(u)' <=> Running(u)) /\ Current(u)' = Current(u)
  PROVE  STW!Pause(t)
  <1>1. RunMap' = [RunMap EXCEPT ![t] = NoManager]  BY DEF RunMap
  <1> QED  BY <1>1 DEF STW!Pause

\* A thread outside a task that starts to run in a context whose mutex is free.
LEMMA RunStep ==
  ASSUME IndInv, NEW t \in Threads, NEW m \in Managers, TaskMap' = TaskMap,
         ~Running(t) \/ Current(t) = NoManager, pc[t] # "task",
         Running(t)', Current(t)' = m, owner[m] = NoThread,
         \A u \in Threads \ {t} : (Running(u)' <=> Running(u)) /\ Current(u)' = Current(u)
  PROVE  STW!Run(t, m)
  <1>1. RunMap' = [RunMap EXCEPT ![t] = m]
    <2>1. (IF Running(t)' THEN Current(t)' ELSE NoManager) = m  OBVIOUS
    <2> QED  BY <2>1, Zenon DEF RunMap
  <1>2. RunMap[t] = NoManager  BY DEF RunMap
  <1>3. TaskMap[m] = NoThread  BY DEF TaskMap
  <1>4. \A n \in Managers : TaskMap[n] # t  BY SafepointAssumption DEF TaskMap
  <1> QED  BY <1>1, <1>2, <1>3, <1>4 DEF STW!Run

\* A step that changes neither the threads' activity nor the tasks.
LEMMA StutterStep ==
  ASSUME TaskMap' = TaskMap,
         \A u \in Threads : (Running(u)' <=> Running(u)) /\ Current(u)' = Current(u)
  PROVE  UNCHANGED STW!vars
  BY DEF STW!vars, RunMap

\* Notification moves waiting threads only, which neither run nor do a task.
LEMMA NotifyKeeps ==
  ASSUME IndInv, NEW t \in Threads, NEW m, NEW c, pc' = [NotifyAll(m) EXCEPT ![t] = c]
  PROVE  /\ pc'[t] = c
         /\ \A u \in Threads \ {t} : /\ Running(u)' <=> Running(u)
                                     /\ pc'[u] = "task" <=> pc[u] = "task"
  BY DEF NotifyAll, Running, IndInv, TypeOK

\* Initial states map to initial states.
LEMMA RefineInit == Init => STW!Init
  BY DEF Init, STW!Init, RunMap, TaskMap, Running, Current

\* Each entry step maps to a step of the service.
LEMMA RefineEnter ==
  ASSUME IndInv, NEW t \in Threads, Enter(t)
  PROVE  [STW!Next]_STW!vars
  <1>1. ASSUME NEW m \in Managers, EnterBegin(t, m) PROVE STW!Pause(t)
    <2>1. /\ pc[t] = "run" /\ pc' = [pc EXCEPT ![t] = "enter"] /\ UNCHANGED <<depth, manager, owner>>
      BY <1>1 DEF EnterBegin
    <2>2. TaskMap' = TaskMap  BY <2>1, TaskMapKept DEF IndInv, TypeOK
    <2>3. /\ ~Running(t)'
          /\ \A u \in Threads \ {t} : (Running(u)' <=> Running(u)) /\ Current(u)' = Current(u)
      BY <2>1 DEF Running, Current, IndInv, TypeOK
    <2> QED  BY <2>2, <2>3, PauseStep
  <1>2. CASE EnterLink(t)
    <2> DEFINE m == target[t]
    <2>1. /\ pc[t] = "enter" /\ m \in Managers /\ owner[m] = NoThread /\ UNCHANGED <<owner>>
          /\ pc' = [NotifyAll(m) EXCEPT ![t] = "run"]
          /\ depth[t] \in Nat /\ depth[t] + 1 \in Depths
          /\ depth' = [depth EXCEPT ![t] = @ + 1]
          /\ manager' = [manager EXCEPT ![t] = [@ EXCEPT ![depth[t] + 1] = m]]
      BY <1>2, SafepointAssumption DEF EnterLink, IndInv, ControlShape, TypeOK, Depths
    <2>2. TaskMap' = TaskMap  BY <2>1, TaskMapKept, NotifyKeeps
    <2>3. /\ ~Running(t) /\ pc[t] # "task" /\ Running(t)'
          /\ Current(t)' = m
      <3>1. depth'[t] = depth[t] + 1 /\ depth'[t] # 0  BY <2>1 DEF IndInv, TypeOK
      <3>2. manager'[t][depth[t] + 1] = m  BY <2>1 DEF IndInv, TypeOK
      <3>3. Current(t)' = m  BY <3>1, <3>2 DEF Current
      <3>4. pc'[t] = "run"  BY <2>1, NotifyKeeps
      <3> QED  BY <2>1, <3>3, <3>4 DEF Running
    <2>4. \A u \in Threads \ {t} : (Running(u)' <=> Running(u)) /\ Current(u)' = Current(u)
      BY <2>1, NotifyKeeps DEF Current, IndInv, TypeOK
    <2>5. STW!Run(t, m)  BY <2>1, <2>2, <2>3, <2>4, RunStep
    <2> QED  BY <2>1, <2>5 DEF STW!Next
  <1> QED  BY <1>1, <1>2 DEF Enter, STW!Next

\* Leaving pauses the thread; resuming the previous record lets it run.
LEMMA RefineLeave ==
  ASSUME IndInv, NEW t \in Threads, Leave(t)
  PROVE  [STW!Next]_STW!vars
  <1>1. CASE LeaveTry(t) \/ LeaveLocked(t)
    <2> DEFINE c == IF depth[t] > 1 THEN "resume" ELSE "run"
    <2>1. /\ depth[t] \in Depths /\ UNCHANGED <<owner>>
          /\ pc[t] # "task" /\ c # "task"
          /\ pc' = [NotifyAll(Current(t)) EXCEPT ![t] = c]
          /\ depth' = [depth EXCEPT ![t] = @ - 1]
          /\ manager' = [manager EXCEPT ![t] = [@ EXCEPT ![depth[t]] = NoManager]]
      <3>1. depth[t] > 0  BY <1>1 DEF LeaveTry, LeaveLocked, IndInv, ControlShape
      <3> QED  BY <1>1, <3>1, CurrentFacts DEF LeaveTry, LeaveLocked, Unlink, Running
    <2>2. pc'[t] = c  BY <2>1, NotifyKeeps
    <2>3. TaskMap' = TaskMap
      <3> HIDE DEF c
      <3> QED  BY <2>1, <2>2, TaskMapKept, NotifyKeeps
    <2>4. ~Running(t)' \/ Current(t)' = NoManager
      <3>1. CASE depth[t] > 1  BY <2>2, <3>1 DEF Running
      <3>2. CASE ~(depth[t] > 1)
        <4>1. depth'[t] = 0  BY <2>1, <3>2, SafepointAssumption DEF Depths, IndInv, TypeOK
        <4> QED  BY <4>1 DEF Current
      <3> QED  BY <3>1, <3>2
    <2>5. \A u \in Threads \ {t} : (Running(u)' <=> Running(u)) /\ Current(u)' = Current(u)
      <3>1. \A u \in Threads \ {t} : Current(u)' = Current(u)  BY <2>1 DEF Current, IndInv, TypeOK
      <3> HIDE DEF c
      <3> QED  BY <2>1, <3>1, NotifyKeeps
    <2>6. STW!Pause(t)  BY <2>3, <2>4, <2>5, PauseStep
    <2> QED  BY <2>6 DEF STW!Next
  <1>2. CASE LeaveBlock(t)
    <2>1. pc[t] # "task" /\ pc' = [pc EXCEPT ![t] = "leave"] /\ UNCHANGED <<depth, manager, owner>>
      BY <1>2 DEF LeaveBlock, Running
    <2>2. TaskMap' = TaskMap  BY <2>1, TaskMapKept DEF IndInv, TypeOK
    <2>3. /\ ~Running(t)'
          /\ \A u \in Threads \ {t} : (Running(u)' <=> Running(u)) /\ Current(u)' = Current(u)
      BY <2>1 DEF Running, Current, IndInv, TypeOK
    <2>4. STW!Pause(t)  BY <2>2, <2>3, PauseStep
    <2> QED  BY <2>4 DEF STW!Next
  <1>3. CASE Resume(t)
    <2>1. /\ pc[t] = "resume" /\ owner[Current(t)] = NoThread /\ UNCHANGED <<depth, manager, owner>>
          /\ pc' = [NotifyAll(Current(t)) EXCEPT ![t] = "run"]
      BY <1>3 DEF Resume
    <2>2. Current(t) \in Managers  BY <2>1, CurrentFacts DEF IndInv, ControlShape
    <2>3. TaskMap' = TaskMap  BY <2>1, TaskMapKept, NotifyKeeps
    <2>4. \A u \in Threads : Current(u)' = Current(u)  BY <2>1 DEF Current
    <2>5. ~Running(t) /\ Running(t)'
      <3>1. pc'[t] = "run"  BY <2>1, NotifyKeeps
      <3> QED  BY <2>1, <3>1 DEF Running
    <2>6. STW!Run(t, Current(t))  BY <2>1, <2>2, <2>3, <2>4, <2>5, NotifyKeeps, RunStep
    <2> QED  BY <2>2, <2>6 DEF STW!Next
  <1> QED  BY <1>1, <1>2, <1>3 DEF Leave

\* A gate pauses the thread and lets it run again.
LEMMA RefineGate ==
  ASSUME IndInv, NEW t \in Threads, Gate(t)
  PROVE  [STW!Next]_STW!vars
  <1>1. CASE GateOpen(t)
    <2>1. pc[t] # "task" /\ pc' = [pc EXCEPT ![t] = "gate"] /\ UNCHANGED <<depth, manager, owner>>
      BY <1>1 DEF GateOpen
    <2>2. TaskMap' = TaskMap  BY <2>1, TaskMapKept DEF IndInv, TypeOK
    <2>3. /\ ~Running(t)'
          /\ \A u \in Threads \ {t} : (Running(u)' <=> Running(u)) /\ Current(u)' = Current(u)
      BY <2>1 DEF Running, Current, IndInv, TypeOK
    <2>4. STW!Pause(t)  BY <2>2, <2>3, PauseStep
    <2> QED  BY <2>4 DEF STW!Next
  <1>2. CASE GateClose(t)
    <2>1. /\ pc[t] = "gate" /\ owner[Current(t)] = NoThread /\ UNCHANGED <<depth, manager, owner>>
          /\ pc' = [NotifyAll(Current(t)) EXCEPT ![t] = "run"]
      BY <1>2 DEF GateClose
    <2>2. Current(t) \in Managers  BY <2>1, CurrentFacts DEF IndInv, ControlShape
    <2>3. TaskMap' = TaskMap  BY <2>1, TaskMapKept, NotifyKeeps
    <2>4. \A u \in Threads : Current(u)' = Current(u)  BY <2>1 DEF Current
    <2>5. ~Running(t) /\ Running(t)'
      <3>1. pc'[t] = "run"  BY <2>1, NotifyKeeps
      <3> QED  BY <2>1, <3>1 DEF Running
    <2>6. STW!Run(t, Current(t))  BY <2>1, <2>2, <2>3, <2>4, <2>5, NotifyKeeps, RunStep
    <2> QED  BY <2>2, <2>6 DEF STW!Next
  <1> QED  BY <1>1, <1>2 DEF Gate

\* Nobody runs in a context all of whose records are safe.
LEMMA NoneRuns ==
  ASSUME IndInv, NEW m \in Managers, \A r \in Linked(m) : status[r[1]][r[2]] = "SAFE",
         NEW u \in Threads, Running(u)
  PROVE  Current(u) # m
  <1> SUFFICES ASSUME Current(u) = m PROVE FALSE
    OBVIOUS
  <1>1. depth[u] > 0  BY SafepointAssumption DEF Current, IndInv, TypeOK
  <1>2. depth[u] \in Depths /\ manager[u][depth[u]] = m  BY <1>1, CurrentFacts
  <1>3. <<u, depth[u]>> \in Linked(m)  BY <1>2 DEF Linked, Records
  <1>4. status[u][depth[u]] = "SAFE"  BY <1>3
  <1> QED  BY <1>1, <1>4 DEF IndInv, BuriedSafe

\* Taking or returning the mutex without a task does not change the task map.
LEMMA MutexStep ==
  ASSUME IndInv, NEW t \in Threads, NEW m \in Managers, pc[t] # "task", pc'[t] # "task",
         \/ owner[m] = NoThread /\ owner' = [owner EXCEPT ![m] = t]
         \/ owner[m] = t /\ owner' = [owner EXCEPT ![m] = NoThread],
         \A u \in Threads : pc'[u] = "task" <=> pc[u] = "task"
  PROVE  TaskMap' = TaskMap
  <1>1. \A n \in Managers : n # m => owner'[n] = owner[n]  BY DEF IndInv, TypeOK
  <1>2. \A n \in Managers : owner[n] # NoThread => owner[n] \in Threads  BY DEF IndInv, TypeOK
  <1>3. owner'[m] \in {t, NoThread} /\ owner[m] \in {t, NoThread}  BY DEF IndInv, TypeOK
  <1> QED  BY <1>1, <1>2, <1>3 DEF TaskMap

\* The steps of a request other than the start and the end of the task do not
\* let anybody run; the start finds nobody running; the end is the task's end.
LEMMA RefineRequest ==
  ASSUME IndInv, NEW t \in Threads, Request(t)
  PROVE  [STW!Next]_STW!vars
  <1> DEFINE m == Current(t)
  <1>0. ASSUME ~Running(t)', UNCHANGED <<depth, manager>>, TaskMap' = TaskMap,
               \A u \in Threads \ {t} : Running(u)' <=> Running(u)
        PROVE  STW!Next
    <2>1. \A u \in Threads : Current(u)' = Current(u)  BY <1>0 DEF Current
    <2>2. STW!Pause(t)  BY <1>0, <2>1, PauseStep
    <2> QED  BY <2>2 DEF STW!Next
  <1>1. CASE RequestTry(t)
    <2>1. /\ pc[t] = "run" /\ pc' = [pc EXCEPT ![t] = "interrupt"] /\ UNCHANGED <<depth, manager>>
          /\ owner[m] = NoThread /\ owner' = [owner EXCEPT ![m] = t] /\ depth[t] > 0
      BY <1>1 DEF RequestTry
    <2>2. m \in Managers  BY <2>1, CurrentFacts
    <2>3. TaskMap' = TaskMap  BY <2>1, <2>2, MutexStep DEF IndInv, TypeOK
    <2> QED  BY <1>0, <2>1, <2>3 DEF Running, IndInv, TypeOK
  <1>2. CASE RequestBlock(t)
    <2>1. /\ pc[t] = "run" /\ pc' = [pc EXCEPT ![t] = "request"] /\ UNCHANGED <<depth, manager, owner>>
      BY <1>2 DEF RequestBlock
    <2>2. TaskMap' = TaskMap  BY <2>1, TaskMapKept DEF IndInv, TypeOK
    <2> QED  BY <1>0, <2>1, <2>2 DEF Running, IndInv, TypeOK
  <1>3. CASE RequestLocked(t)
    <2>1. /\ pc[t] \in {"request", "woken"} /\ pc' = [NotifyAll(m) EXCEPT ![t] = "interrupt"]
          /\ UNCHANGED <<depth, manager>> /\ owner[m] = NoThread /\ owner' = [owner EXCEPT ![m] = t]
      BY <1>3 DEF RequestLocked
    <2>2. m \in Managers  BY <2>1, CurrentFacts DEF IndInv, ControlShape
    <2>3. /\ pc'[t] = "interrupt"
          /\ \A u \in Threads \ {t} : /\ Running(u)' <=> Running(u)
                                      /\ pc'[u] = "task" <=> pc[u] = "task"
      BY <2>1, NotifyKeeps
    <2>4. TaskMap' = TaskMap  BY <2>1, <2>2, <2>3, MutexStep
    <2>5. ~Running(t)'  BY <2>3 DEF Running
    <2> QED  BY <1>0, <2>1, <2>3, <2>4, <2>5
  <1>4. CASE SpuriousWake(t)
    <2>1. pc[t] = "wait" /\ pc' = [pc EXCEPT ![t] = "woken"] /\ UNCHANGED <<depth, manager, owner>>
      BY <1>4 DEF SpuriousWake
    <2>2. TaskMap' = TaskMap  BY <2>1, TaskMapKept DEF IndInv, TypeOK
    <2> QED  BY <1>0, <2>1, <2>2 DEF Running, IndInv, TypeOK
  <1>5. ASSUME NEW r \in Records, InterruptRecord(t, r) \/ SpinPast(t, r) PROVE STW!Next
    <2>1. ~Running(t) /\ UNCHANGED <<pc, depth, manager, owner>>
      BY <1>5 DEF InterruptRecord, SpinPast, Running
    <2>2. TaskMap' = TaskMap  BY <2>1, TaskMapKept
    <2> QED  BY <1>0, <2>1, <2>2 DEF Running
  <1>6. ASSUME NEW r \in Records, BackOff(t, r) PROVE STW!Next
    <2>1. /\ pc[t] = "interrupt" /\ pc' = [pc EXCEPT ![t] = "wait"] /\ UNCHANGED <<depth, manager>>
          /\ owner' = [owner EXCEPT ![m] = NoThread]
      BY <1>6 DEF BackOff
    <2>2. m \in Managers /\ owner[m] = t  BY <2>1, ScannerFacts
    <2>3. TaskMap' = TaskMap  BY <2>1, <2>2, MutexStep DEF IndInv, TypeOK
    <2> QED  BY <1>0, <2>1, <2>3 DEF Running, IndInv, TypeOK
  <1>7. CASE StartSpin(t)
    <2>1. pc[t] = "interrupt" /\ pc' = [pc EXCEPT ![t] = "spin"] /\ UNCHANGED <<depth, manager, owner>>
      BY <1>7 DEF StartSpin
    <2>2. TaskMap' = TaskMap  BY <2>1, TaskMapKept DEF IndInv, TypeOK
    <2> QED  BY <1>0, <2>1, <2>2 DEF Running, IndInv, TypeOK
  <1>8. CASE StartTask(t)
    <2>1. /\ pc[t] = "spin" /\ todo[m] = {} /\ pc' = [pc EXCEPT ![t] = "task"]
          /\ UNCHANGED <<depth, manager, owner>>
      BY <1>8 DEF StartTask
    <2>2. m \in Managers /\ owner[m] = t  BY <2>1, ScannerFacts
    <2>3. \A n \in Managers : owner[n] = t => n = m
      BY <2>2 DEF IndInv, RequesterHoldsMutex
    <2>4. \A u \in Threads : RunMap[u] # m
      <3>1. \A r \in Linked(m) : status[r[1]][r[2]] = "SAFE"
        BY <2>1 DEF IndInv, SeenStaysSafe
      <3> HIDE DEF m
      <3> QED  BY <2>2, <3>1, NoneRuns, SafepointAssumption DEF RunMap
    <2>5. RunMap' = RunMap /\ RunMap[t] = NoManager
      BY <2>1 DEF RunMap, Running, Current, IndInv, TypeOK
    <2>6. TaskMap' = [TaskMap EXCEPT ![m] = t]
      <3>1. \A n \in Managers : owner[n] # NoThread => owner[n] \in Threads  BY DEF IndInv, TypeOK
      <3>2. \A n \in Managers : TaskMap'[n] = IF n = m THEN t ELSE TaskMap[n]
        BY <2>1, <2>2, <2>3, <3>1, SafepointAssumption DEF TaskMap, IndInv, TypeOK
      <3> QED  BY <2>2, <3>2 DEF TaskMap
    <2>7. TaskMap[m] = NoThread /\ \A n \in Managers : TaskMap[n] # t
      BY <2>1, <2>2, SafepointAssumption DEF TaskMap
    <2>8. STW!BeginTask(t, m)  BY <2>4, <2>5, <2>6, <2>7 DEF STW!BeginTask
    <2> QED  BY <2>2, <2>8 DEF STW!Next
  <1>9. CASE FinishTask(t)
    <2>1. /\ pc[t] = "task" /\ pc' = [pc EXCEPT ![t] = "run"]
          /\ UNCHANGED <<depth, manager>> /\ owner' = [owner EXCEPT ![m] = NoThread]
      BY <1>9 DEF FinishTask
    <2>2. m \in Managers /\ owner[m] = t  BY <2>1, ScannerFacts
    <2>3. \A n \in Managers : owner[n] = t => n = m
      BY <2>2 DEF IndInv, RequesterHoldsMutex
    <2>4. TaskMap[m] = t  BY <2>1, <2>2, SafepointAssumption DEF TaskMap
    <2>5. TaskMap' = [TaskMap EXCEPT ![m] = NoThread]
      <3>1. \A n \in Managers : owner[n] # NoThread => owner[n] \in Threads  BY DEF IndInv, TypeOK
      <3>2. \A n \in Managers : TaskMap'[n] = IF n = m THEN NoThread ELSE TaskMap[n]
        BY <2>1, <2>2, <2>3, <3>1, SafepointAssumption DEF TaskMap, IndInv, TypeOK
      <3> QED  BY <2>2, <3>2 DEF TaskMap
    <2>6. RunMap' = [RunMap EXCEPT ![t] = m]
      <3>1. \A u \in Threads : Current(u)' = Current(u)  BY <2>1 DEF Current
      <3>2. Running(t)' /\ \A u \in Threads \ {t} : Running(u)' <=> Running(u)
        BY <2>1 DEF Running, IndInv, TypeOK
      <3> QED  BY <3>1, <3>2 DEF RunMap
    <2>7. STW!EndTask(t, m)  BY <2>4, <2>5, <2>6 DEF STW!EndTask
    <2> QED  BY <2>2, <2>7 DEF STW!Next
  <1> QED  BY <1>1, <1>2, <1>3, <1>4, <1>5, <1>6, <1>7, <1>8, <1>9 DEF Request, Visit

\* Interrupts pause a thread at a poll and are invisible otherwise.
LEMMA RefineInterrupt ==
  ASSUME IndInv, NEW t \in Threads, Interrupt(t)
  PROVE  [STW!Next]_STW!vars
  <1>1. /\ UNCHANGED <<depth, manager, owner>>
        /\ pc' = pc \/ (pc[t] = "run" /\ \E c \in {"gate", "unwind"} : pc' = [pc EXCEPT ![t] = c])
    BY DEF Interrupt, RaiseInterrupt, HandlePoll, HandleUnwind
  <1>2. TaskMap' = TaskMap  BY <1>1, TaskMapKept DEF IndInv, TypeOK
  <1>3. \A u \in Threads : Current(u)' = Current(u)  BY <1>1 DEF Current
  <1>4. \A u \in Threads \ {t} : Running(u)' <=> Running(u)  BY <1>1 DEF Running, IndInv, TypeOK
  <1>5. CASE ~Running(t)'
    <2>1. STW!Pause(t)  BY <1>2, <1>3, <1>4, <1>5, PauseStep
    <2> QED  BY <2>1 DEF STW!Next
  <1>6. CASE Running(t)'
    <2>1. Running(t)  BY <1>1, <1>6 DEF Running, IndInv, TypeOK
    <2> QED  BY <1>2, <1>3, <1>4, <1>6, <2>1, StutterStep
  <1> QED  BY <1>5, <1>6

\* The protocol of SafepointManager, SafepointRecord and SafepointGate
\* implements the stop-the-world service.
THEOREM Refinement == Spec => StopsTheWorld
  <1>1. IndInv /\ [Next]_vars => [STW!Next]_STW!vars
    <2> SUFFICES ASSUME IndInv, [Next]_vars PROVE [STW!Next]_STW!vars
      OBVIOUS
    <2>1. CASE UNCHANGED vars
      BY <2>1 DEF vars, STW!vars, RunMap, TaskMap, Running, Current
    <2>2. CASE Next
      BY <2>2, RefineEnter, RefineLeave, RefineGate, RefineRequest, RefineInterrupt DEF Next
    <2> QED  BY <2>1, <2>2
  <1> QED  BY <1>1, RefineInit, Invariance, PTL DEF Spec, StopsTheWorld, STW!Spec

=============================================================================
