--------------------------- MODULE VMThreadProofs ---------------------------
(***************************************************************************)
(* VMThread for any number of joiners: the types, FreedUnused and          *)
(* JoinedEnded.  What makes them inductive is that m_joinerQty counts the  *)
(* clients inside wait(), and what m_state says about the native thread.   *)
(***************************************************************************)
EXTENDS VMThread, FiniteSetTheorems, TLAPS

Waiters == {c \in Clients : pc[c] \in {"waiting", "woken"}}
DtorPlaces == {"dtorLock", "dtorWait", "dtorWoken", "freed"}

\* m_state against the native thread and the places of the clients.
StateInv ==
    /\ native = "none" => state = "NOT_STARTED"
    /\ state = "NOT_STARTED" => native = "none" \/ pc[Owner] = "creating"
    /\ pc[Owner] = "creating" => native = "born" /\ state = "NOT_STARTED"
    /\ pc[Owner] \in {"idle", "failed"} => native = "none"
    /\ pc[Owner] \in {"started"} \cup (JoinPlaces \ {"idle"}) => state # "NOT_STARTED"
    /\ state = "TERMINATED" <=> native = "gone"
    /\ \A c \in Joiners : pc[c] # "idle" => state # "NOT_STARTED"

IndInv ==
    /\ TypeOK
    /\ joinerQty = Cardinality(Waiters)
    /\ StateInv
    /\ pc[Owner] \in DtorPlaces => \A c \in Joiners : pc[c] # "joinLock"
    /\ \A c \in Clients : pc[c] = "joined" => state = "TERMINATED"
    /\ pc[Owner] = "freed" => Waiters = {} /\ native \in {"none", "gone"}

LEMMA ClientsFinite == IsFiniteSet(Clients) /\ Owner \in Clients
  <1>1. IsFiniteSet(Joiners)  BY VMThreadAssumption
  <1>2. IsFiniteSet(Joiners \cup {Owner})  BY <1>1, FS_AddElement
  <1> QED  BY <1>2 DEF Clients

\* The number of waiting clients is a possible value of m_joinerQty.
LEMMA WaitersBound ==
  ASSUME NEW W, W \subseteq Clients
  PROVE  IsFiniteSet(W) /\ Cardinality(W) \in 0..Cardinality(Clients)
  <1>1. IsFiniteSet(W) /\ Cardinality(W) <= Cardinality(Clients)
    BY ClientsFinite, FS_Subset
  <1>2. Cardinality(W) \in Nat /\ Cardinality(Clients) \in Nat
    BY <1>1, ClientsFinite, FS_CardinalityType
  <1> QED  BY <1>1, <1>2

LEMMA InitInv == Init => IndInv
  <1> SUFFICES ASSUME Init PROVE IndInv  OBVIOUS
  <1>1. Waiters = {}  BY DEF Init, Waiters
  <1>2. joinerQty = Cardinality(Waiters)  BY <1>1, FS_EmptySet DEF Init
  <1>3. joinerQty \in 0..Cardinality(Clients)  BY <1>1, <1>2, WaitersBound
  <1>4. pc \in [Clients -> OwnerPlaces \cup JoinPlaces] /\ \A c \in Clients : pc[c] = "idle"
    BY DEF Init, JoinPlaces
  <1>5. Joiners \subseteq Clients  BY DEF Clients
  <1>6. TypeOK  BY <1>3, <1>4, <1>5 DEF TypeOK, Init, States, NativePlaces, JoinPlaces
  <1> QED  BY <1>1, <1>2, <1>4, <1>5, <1>6, ClientsFinite DEF IndInv, StateInv, Init, DtorPlaces, JoinPlaces

\* A step of client c to a place outside or inside wait(), as the count follows it.
LEMMA MoveKeeps ==
  ASSUME IndInv, NEW c \in Clients, NEW place \in OwnerPlaces \cup JoinPlaces, Goto(c, place),
         c \in Joiners => place \in JoinPlaces
  PROVE  /\ pc' \in [Clients -> OwnerPlaces \cup JoinPlaces]
         /\ \A d \in Joiners : pc'[d] \in JoinPlaces
         /\ pc'[c] = place /\ \A d \in Clients \ {c} : pc'[d] = pc[d]
         /\ Waiters' = IF place \in {"waiting", "woken"} THEN Waiters \cup {c} ELSE Waiters \ {c}
  <1>1. /\ pc' \in [Clients -> OwnerPlaces \cup JoinPlaces]
        /\ pc'[c] = place /\ \A d \in Clients \ {c} : pc'[d] = pc[d]
    BY DEF Goto, IndInv, TypeOK
  <1>2. \A d \in Joiners : pc'[d] \in JoinPlaces
    BY <1>1 DEF IndInv, TypeOK, Clients
  <1>3. Waiters' = IF place \in {"waiting", "woken"} THEN Waiters \cup {c} ELSE Waiters \ {c}
    BY <1>1 DEF Waiters
  <1> QED  BY <1>1, <1>2, <1>3

LEMMA CountMove ==
  ASSUME IndInv, NEW c \in Clients, NEW place \in OwnerPlaces \cup JoinPlaces, Goto(c, place),
         c \in Joiners => place \in JoinPlaces,
         joinerQty' = joinerQty + (IF place \in {"waiting", "woken"} THEN 1 ELSE 0)
                                - (IF pc[c] \in {"waiting", "woken"} THEN 1 ELSE 0)
  PROVE  joinerQty' = Cardinality(Waiters') /\ joinerQty' \in 0..Cardinality(Clients)
  <1>1. Waiters' = IF place \in {"waiting", "woken"} THEN Waiters \cup {c} ELSE Waiters \ {c}
    BY MoveKeeps
  <1>2. Waiters \subseteq Clients /\ Waiters' \subseteq Clients
    BY <1>1 DEF Waiters
  <1>3. IsFiniteSet(Waiters) /\ Cardinality(Waiters) \in Nat
    BY <1>2, WaitersBound, FS_CardinalityType
  <1>4. c \in Waiters <=> pc[c] \in {"waiting", "woken"}  BY DEF Waiters
  <1>5. Cardinality(Waiters \cup {c}) = IF c \in Waiters THEN Cardinality(Waiters) ELSE Cardinality(Waiters) + 1
    BY <1>3, FS_AddElement
  <1>6. Cardinality(Waiters \ {c}) = IF c \in Waiters THEN Cardinality(Waiters) - 1 ELSE Cardinality(Waiters)
    BY <1>3, FS_RemoveElement
  <1>7. joinerQty = Cardinality(Waiters)  BY DEF IndInv
  <1>8. joinerQty' = Cardinality(Waiters')
    <2>1. CASE place \in {"waiting", "woken"} /\ c \in Waiters  BY <2>1, <1>1, <1>3, <1>4, <1>5, <1>7
    <2>2. CASE place \in {"waiting", "woken"} /\ c \notin Waiters  BY <2>2, <1>1, <1>3, <1>4, <1>5, <1>7
    <2>3. CASE place \notin {"waiting", "woken"} /\ c \in Waiters  BY <2>3, <1>1, <1>3, <1>4, <1>6, <1>7
    <2>4. CASE place \notin {"waiting", "woken"} /\ c \notin Waiters  BY <2>4, <1>1, <1>3, <1>4, <1>6, <1>7
    <2> QED  BY <2>1, <2>2, <2>3, <2>4
  <1> QED  BY <1>2, <1>8, WaitersBound

\* start() up to the creation of the native thread.
LEMMA StartInv ==
  ASSUME IndInv, Start
  PROVE  IndInv'
  <1>1. Goto(Owner, "creating") /\ joinerQty' = joinerQty /\ pc[Owner] \notin {"waiting", "woken"}
    BY DEF Start
  <1>2. /\ pc' \in [Clients -> OwnerPlaces \cup JoinPlaces]
        /\ \A d \in Joiners : pc'[d] \in JoinPlaces
        /\ pc'[Owner] = "creating" /\ \A d \in Clients \ {Owner} : pc'[d] = pc[d]
        /\ Waiters' = Waiters \ {Owner}
    BY <1>1, MoveKeeps, ClientsFinite, VMThreadAssumption DEF OwnerPlaces, JoinPlaces
  <1>3. joinerQty \in Int  BY DEF IndInv, TypeOK
  <1>4. joinerQty' = Cardinality(Waiters') /\ joinerQty' \in 0..Cardinality(Clients)
    BY <1>1, <1>3, CountMove, ClientsFinite, VMThreadAssumption DEF OwnerPlaces, JoinPlaces
  <1>5. \A d \in Joiners : d \in Clients \ {Owner} /\ pc'[d] = pc[d]
    BY <1>2, VMThreadAssumption DEF Clients
  <1> QED
    BY <1>2, <1>4, <1>5, ClientsFinite DEF Start, IndInv, TypeOK, StateInv, DtorPlaces, JoinPlaces, OwnerPlaces, NativePlaces, States, Clients

\* The rest of start().
LEMMA StartedInv ==
  ASSUME IndInv, Started
  PROVE  IndInv'
  <1>1. Goto(Owner, "started") /\ joinerQty' = joinerQty /\ pc[Owner] \notin {"waiting", "woken"}
    BY DEF Started
  <1>2. /\ pc' \in [Clients -> OwnerPlaces \cup JoinPlaces]
        /\ \A d \in Joiners : pc'[d] \in JoinPlaces
        /\ pc'[Owner] = "started" /\ \A d \in Clients \ {Owner} : pc'[d] = pc[d]
        /\ Waiters' = Waiters \ {Owner}
    BY <1>1, MoveKeeps, ClientsFinite, VMThreadAssumption DEF OwnerPlaces, JoinPlaces
  <1>3. joinerQty \in Int  BY DEF IndInv, TypeOK
  <1>4. joinerQty' = Cardinality(Waiters') /\ joinerQty' \in 0..Cardinality(Clients)
    BY <1>1, <1>3, CountMove, ClientsFinite, VMThreadAssumption DEF OwnerPlaces, JoinPlaces
  <1>5. \A d \in Joiners : d \in Clients \ {Owner} /\ pc'[d] = pc[d]
    BY <1>2, VMThreadAssumption DEF Clients
  <1> QED
    BY <1>2, <1>4, <1>5, ClientsFinite DEF Started, IndInv, TypeOK, StateInv, DtorPlaces, JoinPlaces, OwnerPlaces, NativePlaces, States, Clients

\* start() whose thread could not be created.
LEMMA StartFailsInv ==
  ASSUME IndInv, StartFails
  PROVE  IndInv'
  <1>1. Goto(Owner, "failed") /\ joinerQty' = joinerQty /\ pc[Owner] \notin {"waiting", "woken"}
    BY DEF StartFails
  <1>2. /\ pc' \in [Clients -> OwnerPlaces \cup JoinPlaces]
        /\ \A d \in Joiners : pc'[d] \in JoinPlaces
        /\ pc'[Owner] = "failed" /\ \A d \in Clients \ {Owner} : pc'[d] = pc[d]
        /\ Waiters' = Waiters \ {Owner}
    BY <1>1, MoveKeeps, ClientsFinite, VMThreadAssumption DEF OwnerPlaces, JoinPlaces
  <1>3. joinerQty \in Int  BY DEF IndInv, TypeOK
  <1>4. joinerQty' = Cardinality(Waiters') /\ joinerQty' \in 0..Cardinality(Clients)
    BY <1>1, <1>3, CountMove, ClientsFinite, VMThreadAssumption DEF OwnerPlaces, JoinPlaces
  <1>5. \A d \in Joiners : d \in Clients \ {Owner} /\ pc'[d] = pc[d]
    BY <1>2, VMThreadAssumption DEF Clients
  <1> QED
    BY <1>2, <1>4, <1>5, ClientsFinite DEF StartFails, IndInv, TypeOK, StateInv, DtorPlaces, JoinPlaces, OwnerPlaces, NativePlaces, States, Clients

\* The call of the destructor.
LEMMA CallDestroyInv ==
  ASSUME IndInv, CallDestroy
  PROVE  IndInv'
  <1>1. Goto(Owner, "dtorLock") /\ joinerQty' = joinerQty /\ pc[Owner] \notin {"waiting", "woken"}
    BY DEF CallDestroy
  <1>2. /\ pc' \in [Clients -> OwnerPlaces \cup JoinPlaces]
        /\ \A d \in Joiners : pc'[d] \in JoinPlaces
        /\ pc'[Owner] = "dtorLock" /\ \A d \in Clients \ {Owner} : pc'[d] = pc[d]
        /\ Waiters' = Waiters \ {Owner}
    BY <1>1, MoveKeeps, ClientsFinite, VMThreadAssumption DEF OwnerPlaces, JoinPlaces
  <1>3. joinerQty \in Int  BY DEF IndInv, TypeOK
  <1>4. joinerQty' = Cardinality(Waiters') /\ joinerQty' \in 0..Cardinality(Clients)
    BY <1>1, <1>3, CountMove, ClientsFinite, VMThreadAssumption DEF OwnerPlaces, JoinPlaces
  <1>5. \A d \in Joiners : d \in Clients \ {Owner} /\ pc'[d] = pc[d]
    BY <1>2, VMThreadAssumption DEF Clients
  <1> QED
    BY <1>2, <1>4, <1>5, ClientsFinite DEF CallDestroy, IndInv, TypeOK, StateInv, DtorPlaces, JoinPlaces, OwnerPlaces, NativePlaces, States, Clients

\* The native thread comes to run().
LEMMA ThreadBeginsInv ==
  ASSUME IndInv, ThreadBegins
  PROVE  IndInv'
  <1>1. pc' = pc /\ joinerQty' = joinerQty /\ state' = state  BY DEF ThreadBegins
  <1>2. Waiters' = Waiters  BY <1>1 DEF Waiters
  <1> QED
    BY <1>1, <1>2 DEF ThreadBegins, MonitorFree, IndInv, TypeOK, StateInv, DtorPlaces, JoinPlaces, OwnerPlaces, NativePlaces, States, Clients

\* run() returns.
LEMMA RunReturnsInv ==
  ASSUME IndInv, RunReturns
  PROVE  IndInv'
  <1>1. pc' = pc /\ joinerQty' = joinerQty /\ state' = state  BY DEF RunReturns
  <1>2. Waiters' = Waiters  BY <1>1 DEF Waiters
  <1> QED
    BY <1>1, <1>2 DEF RunReturns, MonitorFree, IndInv, TypeOK, StateInv, DtorPlaces, JoinPlaces, OwnerPlaces, NativePlaces, States, Clients

\* The native thread ends: the waiting clients become woken ones, which are counted.
LEMMA TerminateInv ==
  ASSUME IndInv, Terminate
  PROVE  IndInv'
  <1>1. \A c \in Clients : pc'[c] = Notified(pc[c])  BY DEF Terminate
  <1>2. \A c \in Clients :
          /\ pc'[c] \in OwnerPlaces \cup JoinPlaces
          /\ pc[c] \in JoinPlaces => pc'[c] \in JoinPlaces
          /\ pc'[c] \in {"waiting", "woken"} <=> pc[c] \in {"waiting", "woken"}
          /\ pc[c] \notin {"waiting", "dtorWait"} => pc'[c] = pc[c]
          /\ pc[c] = "waiting" => pc'[c] = "woken"
          /\ pc[c] = "dtorWait" => pc'[c] = "dtorWoken"
    BY <1>1 DEF Notified, IndInv, TypeOK, OwnerPlaces, JoinPlaces
  <1>3. Waiters' = Waiters  BY <1>2 DEF Waiters
  <1>4. pc' \in [Clients -> OwnerPlaces \cup JoinPlaces]
    BY <1>1, <1>2 DEF Terminate
  <1>5. Joiners \subseteq Clients  BY DEF Clients
  <1>6. TypeOK'
    BY <1>2, <1>4, <1>5 DEF Terminate, IndInv, TypeOK, States, NativePlaces
  <1>7. StateInv'
    BY <1>2, <1>5, ClientsFinite DEF Terminate, MonitorFree, IndInv, StateInv, JoinPlaces
  <1>8. joinerQty' = Cardinality(Waiters')  BY <1>3 DEF Terminate, IndInv
  <1>9. pc'[Owner] \in DtorPlaces => \A c \in Joiners : pc'[c] # "joinLock"
    BY <1>2, <1>5, ClientsFinite DEF IndInv, DtorPlaces, TypeOK, JoinPlaces
  <1>10. \A c \in Clients : pc'[c] = "joined" => state' = "TERMINATED"  BY DEF Terminate
  <1>11. pc'[Owner] = "freed" => Waiters' = {} /\ native' \in {"none", "gone"}
    BY <1>2, <1>3, ClientsFinite DEF IndInv, Terminate
  <1> QED  BY <1>6, <1>7, <1>8, <1>9, <1>10, <1>11 DEF IndInv

\* A client calls join().
LEMMA CallJoinInv ==
  ASSUME IndInv, NEW c \in Clients, CallJoin(c)
  PROVE  IndInv'
  <1>1. Goto(c, "joinLock") /\ joinerQty' = joinerQty /\ pc[c] \notin {"waiting", "woken"}
    BY DEF CallJoin, MayJoin
  <1>2. /\ pc' \in [Clients -> OwnerPlaces \cup JoinPlaces]
        /\ \A d \in Joiners : pc'[d] \in JoinPlaces
        /\ pc'[c] = "joinLock" /\ \A d \in Clients \ {c} : pc'[d] = pc[d]
        /\ Waiters' = Waiters \ {c}
    BY <1>1, MoveKeeps DEF OwnerPlaces, JoinPlaces
  <1>3. joinerQty \in Int  BY DEF IndInv, TypeOK
  <1>4. joinerQty' = Cardinality(Waiters') /\ joinerQty' \in 0..Cardinality(Clients)
    BY <1>1, <1>3, CountMove DEF OwnerPlaces, JoinPlaces
  <1> QED
    BY <1>2, <1>4, ClientsFinite, VMThreadAssumption
    DEF CallJoin, MayJoin, IndInv, TypeOK, StateInv, DtorPlaces, JoinPlaces, OwnerPlaces, NativePlaces, States, Clients

\* A client is inside join() for the first time: it waits, or the thread is gone.
LEMMA EnterJoinInv ==
  ASSUME IndInv, NEW c \in Clients, EnterJoin(c)
  PROVE  IndInv'
  <1>1. joinerQty \in Int /\ pc[c] = "joinLock" /\ Waiters \subseteq Clients /\ c \notin Waiters
    BY DEF IndInv, TypeOK, EnterJoin, Waiters
  <1>2. CASE state = "TERMINATED"
    <2>1. Goto(c, "joined") /\ joinerQty' = joinerQty
      BY <1>2 DEF EnterJoin
    <2>2. /\ pc' \in [Clients -> OwnerPlaces \cup JoinPlaces]
          /\ \A d \in Joiners : pc'[d] \in JoinPlaces
          /\ pc'[c] = "joined" /\ \A d \in Clients \ {c} : pc'[d] = pc[d]
          /\ Waiters' = Waiters \ {c}
      BY <2>1, MoveKeeps DEF OwnerPlaces, JoinPlaces
    <2>3. joinerQty' = Cardinality(Waiters') /\ joinerQty' \in 0..Cardinality(Clients)
      BY <2>1, <1>1, CountMove DEF OwnerPlaces, JoinPlaces
    <2> QED
      BY <1>2, <1>1, <2>2, <2>3, ClientsFinite, VMThreadAssumption
      DEF EnterJoin, MonitorFree, IndInv, TypeOK, StateInv, DtorPlaces, JoinPlaces, OwnerPlaces, NativePlaces, States, Clients
  <1>3. CASE state # "TERMINATED"
    <2>1. Goto(c, "waiting") /\ joinerQty' = joinerQty + 1
      BY <1>3 DEF EnterJoin
    <2>2. /\ pc' \in [Clients -> OwnerPlaces \cup JoinPlaces]
          /\ \A d \in Joiners : pc'[d] \in JoinPlaces
          /\ pc'[c] = "waiting" /\ \A d \in Clients \ {c} : pc'[d] = pc[d]
          /\ Waiters' = Waiters \cup {c}
      BY <2>1, MoveKeeps DEF OwnerPlaces, JoinPlaces
    <2>3. joinerQty' = Cardinality(Waiters') /\ joinerQty' \in 0..Cardinality(Clients)
      BY <2>1, <1>1, CountMove DEF OwnerPlaces, JoinPlaces
    <2> QED
      BY <1>3, <1>1, <2>2, <2>3, ClientsFinite, VMThreadAssumption
      DEF EnterJoin, MonitorFree, IndInv, TypeOK, StateInv, DtorPlaces, JoinPlaces, OwnerPlaces, NativePlaces, States, Clients
  <1> QED  BY <1>2, <1>3

\* A client comes back from wait(): it waits again, or leaves join().
LEMMA ResumeJoinInv ==
  ASSUME IndInv, NEW c \in Clients, ResumeJoin(c)
  PROVE  IndInv'
  <1>1. joinerQty \in Int /\ pc[c] = "woken" /\ Waiters \subseteq Clients /\ c \in Waiters
    BY DEF IndInv, TypeOK, ResumeJoin, Waiters
  <1>2. CASE state = "TERMINATED"
    <2>1. Goto(c, "joined") /\ joinerQty' = joinerQty - 1
      BY <1>2 DEF ResumeJoin
    <2>2. /\ pc' \in [Clients -> OwnerPlaces \cup JoinPlaces]
          /\ \A d \in Joiners : pc'[d] \in JoinPlaces
          /\ pc'[c] = "joined" /\ \A d \in Clients \ {c} : pc'[d] = pc[d]
          /\ Waiters' = Waiters \ {c}
      BY <2>1, MoveKeeps DEF OwnerPlaces, JoinPlaces
    <2>3. joinerQty' = Cardinality(Waiters') /\ joinerQty' \in 0..Cardinality(Clients)
      BY <2>1, <1>1, CountMove DEF OwnerPlaces, JoinPlaces
    <2> QED
      BY <1>2, <1>1, <2>2, <2>3, ClientsFinite, VMThreadAssumption
      DEF ResumeJoin, MonitorFree, IndInv, TypeOK, StateInv, DtorPlaces, JoinPlaces, OwnerPlaces, NativePlaces, States, Clients
  <1>3. CASE state # "TERMINATED"
    <2>1. Goto(c, "waiting") /\ joinerQty' = joinerQty
      BY <1>3 DEF ResumeJoin
    <2>2. /\ pc' \in [Clients -> OwnerPlaces \cup JoinPlaces]
          /\ \A d \in Joiners : pc'[d] \in JoinPlaces
          /\ pc'[c] = "waiting" /\ \A d \in Clients \ {c} : pc'[d] = pc[d]
          /\ Waiters' = Waiters \cup {c}
      BY <2>1, MoveKeeps DEF OwnerPlaces, JoinPlaces
    <2>3. joinerQty' = Cardinality(Waiters') /\ joinerQty' \in 0..Cardinality(Clients)
      BY <2>1, <1>1, CountMove DEF OwnerPlaces, JoinPlaces
    <2> QED
      BY <1>3, <1>1, <2>2, <2>3, ClientsFinite, VMThreadAssumption
      DEF ResumeJoin, MonitorFree, IndInv, TypeOK, StateInv, DtorPlaces, JoinPlaces, OwnerPlaces, NativePlaces, States, Clients
  <1> QED  BY <1>2, <1>3

\* A wait ends without a notification; a joiner never waits as the destructor does.
LEMMA WakeInv ==
  ASSUME IndInv, NEW c \in Clients, Wake(c)
  PROVE  IndInv'
  <1>1. joinerQty \in Int /\ pc[c] \in {"waiting", "dtorWait"} /\ Waiters \subseteq Clients
    BY DEF IndInv, TypeOK, Wake, Waiters
  <1>2. CASE pc[c] = "waiting"
    <2>1. Goto(c, "woken") /\ joinerQty' = joinerQty
      BY <1>2 DEF Wake, Notified
    <2>2. /\ pc' \in [Clients -> OwnerPlaces \cup JoinPlaces]
          /\ \A d \in Joiners : pc'[d] \in JoinPlaces
          /\ pc'[c] = "woken" /\ \A d \in Clients \ {c} : pc'[d] = pc[d]
          /\ Waiters' = Waiters \cup {c}
      BY <2>1, MoveKeeps DEF OwnerPlaces, JoinPlaces
    <2>3. joinerQty' = Cardinality(Waiters') /\ joinerQty' \in 0..Cardinality(Clients)
      BY <1>2, <2>1, <1>1, CountMove DEF OwnerPlaces, JoinPlaces
    <2>4. Waiters' = Waiters /\ c \in Waiters  BY <1>2, <2>2 DEF Waiters
    <2> QED
      BY <1>2, <1>1, <2>2, <2>3, <2>4, ClientsFinite, VMThreadAssumption
      DEF Wake, MonitorFree, IndInv, TypeOK, StateInv, DtorPlaces, JoinPlaces, OwnerPlaces, NativePlaces, States, Clients
  <1>3. CASE pc[c] = "dtorWait"
    <2>1. Goto(c, "dtorWoken") /\ joinerQty' = joinerQty
      BY <1>3 DEF Wake, Notified
    <2>5. c \notin Joiners  BY <1>3 DEF IndInv, TypeOK, JoinPlaces
    <2>2. /\ pc' \in [Clients -> OwnerPlaces \cup JoinPlaces]
          /\ \A d \in Joiners : pc'[d] \in JoinPlaces
          /\ pc'[c] = "dtorWoken" /\ \A d \in Clients \ {c} : pc'[d] = pc[d]
          /\ Waiters' = Waiters \ {c}
      BY <2>1, <2>5, MoveKeeps DEF OwnerPlaces, JoinPlaces
    <2>3. joinerQty' = Cardinality(Waiters') /\ joinerQty' \in 0..Cardinality(Clients)
      BY <1>3, <2>1, <2>5, <1>1, CountMove DEF OwnerPlaces, JoinPlaces
    <2> QED
      BY <1>3, <1>1, <2>5, <2>2, <2>3, ClientsFinite, VMThreadAssumption
      DEF Wake, MonitorFree, IndInv, TypeOK, StateInv, DtorPlaces, JoinPlaces, OwnerPlaces, NativePlaces, States, Clients
  <1> QED  BY <1>1, <1>2, <1>3

\* The destructor with the monitor: it frees the object only when nobody is counted.
LEMMA DestroyInv ==
  ASSUME IndInv, Destroy
  PROVE  IndInv'
  <1>1. /\ joinerQty \in Int /\ pc[Owner] \in {"dtorLock", "dtorWoken"} /\ joinerQty' = joinerQty
        /\ state' = state /\ native' = native
    BY DEF IndInv, TypeOK, Destroy
  <1>2. PICK place \in {"dtorWait", "freed"} :
           Goto(Owner, place) /\ (place = "freed" => ~MustWait)
    BY DEF Destroy
  <1>3. /\ pc' \in [Clients -> OwnerPlaces \cup JoinPlaces]
        /\ \A d \in Joiners : pc'[d] \in JoinPlaces
        /\ pc'[Owner] = place /\ \A d \in Clients \ {Owner} : pc'[d] = pc[d]
        /\ Waiters' = Waiters \ {Owner}
    BY <1>2, MoveKeeps, ClientsFinite, VMThreadAssumption DEF OwnerPlaces, JoinPlaces
  <1>4. joinerQty' = Cardinality(Waiters') /\ joinerQty' \in 0..Cardinality(Clients)
    BY <1>1, <1>2, CountMove, ClientsFinite, VMThreadAssumption DEF OwnerPlaces, JoinPlaces
  <1>5. \A d \in Joiners : d \in Clients \ {Owner} /\ pc'[d] = pc[d]
    BY <1>3, VMThreadAssumption DEF Clients
  <1>6. ASSUME place = "freed" PROVE Waiters' = {} /\ native \in {"none", "gone"}
    <2>1. CASE state = "NOT_STARTED"
      <3>1. \A d \in Joiners : pc'[d] = "idle"  BY <1>5, <2>1 DEF IndInv, StateInv
      <3>2. Waiters' = {}  BY <3>1, <1>3, <1>6 DEF Waiters, Clients
      <3> QED  BY <1>1, <2>1, <3>2 DEF IndInv, StateInv
    <2>2. CASE state # "NOT_STARTED"
      <3>1. state = "TERMINATED" /\ joinerQty = 0
        BY <1>2, <1>6, <2>2 DEF MustWait, IndInv, TypeOK, States
      <3>2. Waiters' \subseteq Clients  BY DEF Waiters, Clients
      <3>3. Waiters' = {}  BY <1>1, <1>4, <3>1, <3>2, WaitersBound, FS_EmptySet
      <3> QED  BY <3>1, <3>3 DEF IndInv, StateInv
    <2> QED  BY <2>1, <2>2
  <1> QED
    BY <1>1, <1>2, <1>3, <1>4, <1>5, <1>6, ClientsFinite DEF IndInv, TypeOK, StateInv, DtorPlaces, JoinPlaces, OwnerPlaces, NativePlaces, States, Clients

LEMMA NextInv == IndInv /\ [Next]_vars => IndInv'
  <1> SUFFICES ASSUME IndInv, [Next]_vars PROVE IndInv'  OBVIOUS
  <1>1. CASE UNCHANGED vars
    BY <1>1 DEF vars, IndInv, TypeOK, StateInv, Waiters
  <1>2. CASE Start \/ Started \/ StartFails \/ CallDestroy \/ Destroy
    BY <1>2, StartInv, StartedInv, StartFailsInv, CallDestroyInv, DestroyInv
  <1>3. CASE ThreadBegins \/ RunReturns \/ Terminate
    BY <1>3, ThreadBeginsInv, RunReturnsInv, TerminateInv
  <1>4. CASE \E c \in Clients : CallJoin(c) \/ EnterJoin(c) \/ ResumeJoin(c) \/ Wake(c)
    BY <1>4, CallJoinInv, EnterJoinInv, ResumeJoinInv, WakeInv
  <1> QED  BY <1>1, <1>2, <1>3, <1>4 DEF Next

THEOREM Invariance == Spec => []IndInv
  BY InitInv, NextInv, PTL DEF Spec

\* m_state, m_joinerQty and the places of the threads keep their types, for any number of
\* joiners: the count never exceeds the clients and never becomes negative.
THEOREM TypesHold == Spec => []TypeOK
  BY Invariance, PTL DEF IndInv

\* When the destructor has returned nobody is inside join() and the native thread is done
\* with the object (~VMThread, startInternal).
THEOREM FreedUnusedHolds == Spec => []FreedUnused
  <1>1. IndInv => FreedUnused
    BY DEF IndInv, FreedUnused, InJoin, Waiters, DtorPlaces, Clients
  <1> QED  BY <1>1, Invariance, PTL

\* join() returns only after run() has, and the assertion of startInternal holds.
THEOREM JoinedEndedHolds == Spec => []JoinedEnded
  <1>1. IndInv => JoinedEnded
    BY DEF IndInv, JoinedEnded, StateInv, TypeOK, States
  <1> QED  BY <1>1, Invariance, PTL
=============================================================================
