---------------------- MODULE IsolateLifecycleProofs ----------------------
(***************************************************************************)
(* IsolateLifecycle for any finite set of workers and any number of code   *)
(* blobs: Accounted and NoCodeOutlives.  What makes them inductive is what *)
(* the state of an isolate says about its thread (a start is in the hands  *)
(* of one script and finds no thread, and a start that a shutdown overtakes*)
(* is of a worker that is marked), and which threads the iterator of the   *)
(* cleanup has still to meet.                                              *)
(***************************************************************************)
EXTENDS IsolateLifecycle, FiniteSetTheorems, TLAPS

\* The isolates that are counted in, and the places between the spawning of a
\* thread and the end of its script.
Counted == {i \in Isolates : state[i] \in Active}
SetUp   == {"spawned", "go", "init", "query", "trans", "ready", "failed"}
Early   == SetUp \cup {"script"}

\* Where Main is; before a shutdown nobody stops it but the end of the process.
MainInv ==
    /\ pc[Main] \notin {"none", "done"}
    /\ \A i \in Workers : pc[i] \notin {"exit", "wait", "join", "end"}
    /\ \A i \in Isolates : pc[i] # "killed"
    /\ IF inShutdown THEN pc[Main] \in {"cleanup", "deleted", "wait", "join", "end"}
       ELSE pc[Main] \in Early \cup {"exit"} /\ ~interrupted[Main]

\* What the state of an isolate says about its thread and its mark.
StateInv ==
    \A i \in Isolates :
        /\ state[i] # "ABORTED"
        /\ state[i] \in {"NONE", "NEW", "FAILED"} => pc[i] = "none"
        /\ state[i] \in {"TERMINATED", "EXCEPTION", "FINISHING"} => interrupted[i]
        /\ state[i] = "NONE" => i \notin inMap /\ ~interrupted[i]
        /\ state[i] = "NEW" => i \in inMap /\ ~interrupted[i] /\ ~inShutdown
        /\ pc[i] \in Early \cup {"none"} => blobs[i] >= 1

\* A child that is being started belongs to one script, which waits for it,
\* and has no thread yet; only a shutdown overtakes the start.
StartInv ==
    \A p \in Isolates : starting[p] # NoIsolate =>
        /\ pc[p] = "script"
        /\ pc[starting[p]] = "none"
        /\ parent[starting[p]] \in {p, NoIsolate}
        /\ state[starting[p]] = IF inShutdown THEN "TERMINATED" ELSE "NEW"
        /\ \A q \in Isolates : starting[q] = starting[p] => q = p

\* The threads that are left are in the map; when Main walks through it, those
\* that the iterator does not meet have nothing to do.
ThreadInv ==
    /\ pc[Main] \notin {"join", "end"} => \A i \in Workers : pc[i] \in {"none", "done"} \/ i \in threads
    /\ pc[Main] = "join" => \A i \in Workers :
          pc[i] \in {"none", "done"} \/ i \in unjoined \/ (pc[i] = "spawned" /\ interrupted[i])
    /\ NoCodeOutlives

\* A thread that has not ended is counted in, unless it died of an exception.
LiveInv ==
    ~inShutdown => \A i \in Isolates :
        /\ pc[i] \in SetUp => state[i] \in Active
        /\ pc[i] \in {"script", "cleanup", "deleted"} => state[i] \in Active \cup {"EXCEPTION"}

IndInv ==
    /\ TypeOK
    /\ MainInv
    /\ StateInv
    /\ StartInv
    /\ ThreadInv
    /\ ShutdownMarksAll
    /\ LiveInv
    /\ CountExact

\* The process is gone.
Gone ==
    /\ TypeOK /\ ShutdownMarksAll
    /\ timer = NoIsolate
    /\ \A i \in Isolates : pc[i] = "killed" /\ starting[i] = NoIsolate

Places == {"none", "spawned", "go", "init", "query", "trans", "ready", "failed", "script", "exit",
           "cleanup", "deleted", "wait", "join", "done", "end", "killed"}
States == Active \cup Over \cup {"NONE"}

\* The word and the timer hold what they may hold.
WordOK ==
    /\ raised \in [Isolates -> BOOLEAN] /\ grace \in [Isolates -> BOOLEAN] /\ lost \in [Isolates -> BOOLEAN]
    /\ timer \in Isolates \cup {NoIsolate}

-----------------------------------------------------------------------------
\* There are finitely many isolates.
LEMMA IsolatesFinite == IsFiniteSet(Isolates) /\ Main \in Isolates /\ Workers \subseteq Isolates
  <1>1. IsFiniteSet(Workers \cup {Main})  BY IsolateAssumption, FS_AddElement
  <1> QED  BY <1>1 DEF Isolates

\* What stateTransition leaves behind.
LEMMA TransitionFacts ==
  ASSUME TypeOK, NEW i \in Isolates, NEW to \in Active \cup Inactive, StateTransition(i, to)
  PROVE  /\ state' \in [Isolates -> States]
         /\ interrupted' \in [Isolates -> BOOLEAN]
         /\ count' \in Int /\ again' \in Nat
         /\ state'[i] = to
         /\ interrupted'[i] <=> (interrupted[i] \/ to \in {"FINISHING", "TERMINATED", "EXCEPTION"})
         /\ \A j \in Isolates \ {i} : state'[j] = state[j] /\ (interrupted'[j] <=> interrupted[j])
  <1>1. /\ state' \in [Isolates -> States]
        /\ interrupted' \in [Isolates -> BOOLEAN]
        /\ state'[i] = to
        /\ \A j \in Isolates \ {i} : state'[j] = state[j] /\ interrupted'[j] = interrupted[j]
    BY DEF TypeOK, StateTransition, States, Over
  <1>2. interrupted'[i] = (interrupted[i] \/ to \in {"FINISHING", "TERMINATED", "EXCEPTION"})
    BY DEF TypeOK, StateTransition
  <1>3. count' \in Int /\ again' \in Nat  BY DEF TypeOK, StateTransition
  <1> QED  BY <1>1, <1>2, <1>3

\* What an interrupt of some cores and the setting of the timer leave behind.
LEMMA InterruptFacts ==
  ASSUME NEW S
  PROVE  Interrupt(S) => raised' \in [Isolates -> BOOLEAN] /\ lost' \in [Isolates -> BOOLEAN]
  BY DEF Interrupt

LEMMA SetTimerFacts ==
  ASSUME WordOK, NEW i \in Isolates
  PROVE  SetTimer(i) \/ UNCHANGED <<timer, lost>> =>
           lost' \in [Isolates -> BOOLEAN] /\ timer' \in Isolates \cup {NoIsolate}
  BY DEF WordOK, SetTimer

\* The number of the isolates that are not over is a number.
LEMMA CountedFinite == IsFiniteSet(Counted) /\ Cardinality(Counted) \in Nat
  <1>1. Counted \subseteq Isolates  BY DEF Counted
  <1>2. IsFiniteSet(Counted)  BY <1>1, IsolatesFinite, FS_Subset
  <1> QED  BY <1>2, FS_CardinalityType

\* A transition of an isolate that is counted in keeps the count exact, and so
\* does a second exception.
LEMMA TransitionCount ==
  ASSUME TypeOK, NEW i \in Isolates, NEW to \in Active \cup Inactive, StateTransition(i, to),
         state[i] \in Active \/ (state[i] = "EXCEPTION" /\ to = "EXCEPTION"),
         count = Cardinality(Counted) - again
  PROVE  count' = Cardinality(Counted') - again'
  <1>1. state'[i] = to /\ \A j \in Isolates \ {i} : state'[j] = state[j]
    BY TransitionFacts
  <1>n. count \in Int /\ again \in Nat /\ Cardinality(Counted) \in Nat  BY CountedFinite DEF TypeOK
  <1>2. CASE to \in Active
    <2>0. to \notin Inactive /\ to # "EXCEPTION"  BY <1>2 DEF Active, Inactive
    <2>1. Counted' = Counted  BY <1>1, <1>2, <2>0 DEF Counted
    <2>2. count' = count /\ again' = again  BY <2>0 DEF StateTransition
    <2> QED  BY <2>1, <2>2
  <1>3. CASE to \in Inactive /\ state[i] \in Active
    <2>1. to \notin Active /\ state[i] # to  BY <1>3 DEF Active, Inactive
    <2>2. Counted' = Counted \ {i} /\ i \in Counted  BY <1>1, <2>1, <1>3 DEF Counted
    <2>3. Cardinality(Counted \ {i}) = Cardinality(Counted) - 1
      BY <2>2, CountedFinite, FS_RemoveElement
    <2>4. count' = count - 1 /\ again' = again  BY <1>3, <2>1 DEF StateTransition
    <2> QED  BY <2>2, <2>3, <2>4, <1>n
  <1>4. CASE state[i] = "EXCEPTION" /\ to = "EXCEPTION"
    <2>1. Counted' = Counted  BY <1>1, <1>4 DEF Counted
    <2>2. count' = count - 1 /\ again' = again + 1  BY <1>4 DEF StateTransition, Inactive
    <2> QED  BY <2>1, <2>2, <1>n
  <1> QED  BY <1>2, <1>3, <1>4

\* CountExact after a step that leaves count and states alone.
LEMMA CountStays ==
  ASSUME IndInv, UNCHANGED <<state, count, again, inShutdown>>
  PROVE  CountExact'
  <1>1. pc[Main] # "killed"  BY IsolatesFinite DEF IndInv, MainInv
  <1> QED  BY <1>1 DEF CountExact, IndInv

\* The invariant holds initially.
LEMMA InitInv == Init => IndInv
  <1> SUFFICES ASSUME Init PROVE IndInv  OBVIOUS
  <1>1. Counted = {Main}  BY IsolatesFinite DEF Init, Counted, Active, Isolates
  <1>2. CountExact
    <2>1. Cardinality(Counted) = 1  BY <1>1, FS_Singleton
    <2> QED  BY <2>1 DEF CountExact, Counted, Init
  <1>3. TypeOK
    <2>1. state \in [Isolates -> Active \cup Over \cup {"NONE"}]  BY DEF Init, Active
    <2>2. interrupted \in [Isolates -> BOOLEAN] /\ raised \in [Isolates -> BOOLEAN]
          /\ grace \in [Isolates -> BOOLEAN] /\ lost \in [Isolates -> BOOLEAN]
      BY DEF Init
    <2>3. blobs \in [Isolates -> 0..NumBlobs]  BY IsolateAssumption DEF Init
    <2>4. \A i \in Isolates : core[i] # "live" /\ pc[i] \in {"none", "spawned"}  BY DEF Init
    <2>5. /\ parent \in [Isolates -> Isolates \cup {NoIsolate}] /\ core \in [Isolates -> {"null", "live", "deleted"}]
          /\ starting \in [Isolates -> Workers \cup {NoIsolate}]
          /\ pc \in [Isolates -> Places]
      BY DEF Init, Places
    <2>6. inMap \subseteq Isolates /\ threads \subseteq Workers /\ unjoined \subseteq threads
      BY IsolatesFinite DEF Init
    <2>7. count = 1 /\ inShutdown = FALSE /\ again = 0 /\ timer = NoIsolate  BY Zenon DEF Init
    <2>8. inShutdown \in BOOLEAN /\ timer \in Isolates \cup {NoIsolate}  BY <2>7, Zenon
    <2>9. count \in Int /\ again \in Nat  BY <2>7
    <2> QED  BY <2>1, <2>2, <2>3, <2>4, <2>5, <2>6, <2>8, <2>9 DEF TypeOK, Places
  <1>4. MainInv /\ StateInv /\ ThreadInv
    BY IsolatesFinite, IsolateAssumption DEF Init, MainInv, StateInv, ThreadInv, NoCodeOutlives, Early, SetUp, Isolates
  <1>5. StartInv /\ ShutdownMarksAll  BY DEF Init, StartInv, ShutdownMarksAll
  <1>6. LiveInv  BY IsolatesFinite, IsolateAssumption DEF Init, LiveInv, SetUp, Active
  <1> QED  BY <1>2, <1>3, <1>4, <1>5, <1>6 DEF IndInv

\* new Worker.
LEMMA NewIsolateInv ==
  ASSUME IndInv, NEW p \in Isolates, NEW c \in Workers, NewIsolate(p, c)
  PROVE  IndInv'
  <1> USE IsolatesFinite, IsolateAssumption DEF IndInv, NewIsolate, wordVars
  <1>1. TypeOK'  BY DEF TypeOK, Active
  <1>2. MainInv'  BY DEF MainInv
  <1>3. StateInv'  BY DEF TypeOK, StateInv
  <1>4. StartInv'  BY DEF TypeOK, StartInv, StateInv, Scripting
  <1>5. ThreadInv'  BY DEF ThreadInv, NoCodeOutlives
  <1>6. ShutdownMarksAll'  BY DEF ShutdownMarksAll
  <1>7. LiveInv'  BY DEF TypeOK, LiveInv, StateInv, Active, SetUp
  <1>8. CountExact'
    <2>1. Counted' = Counted \cup {c} /\ c \notin Counted  BY DEF TypeOK, Counted, Active
    <2>2. Cardinality(Counted') = Cardinality(Counted) + 1 /\ Cardinality(Counted) \in Nat
      BY <2>1, CountedFinite, FS_AddElement
    <2>3. count = Cardinality(Counted) - again  BY DEF CountExact, Counted, MainInv
    <2>4. count' = count + 1 /\ again' = again /\ count \in Int /\ again \in Nat  BY DEF TypeOK
    <2>5. count' = Cardinality(Counted') - again'  BY <2>2, <2>3, <2>4
    <2> QED  BY <2>5 DEF CountExact, Counted
  <1> QED  BY <1>1, <1>2, <1>3, <1>4, <1>5, <1>6, <1>7, <1>8 DEF IndInv

\* Worker.start, checked.
LEMMA StartCheckInv ==
  ASSUME IndInv, NEW p \in Isolates, NEW c \in Workers, StartCheck(p, c)
  PROVE  IndInv'
  <1> USE IsolatesFinite, IsolateAssumption DEF IndInv, StartCheck, stateVars, isolateVars, wordVars
  <1>1. TypeOK'  BY DEF TypeOK
  <1>2. MainInv'  BY DEF MainInv
  <1>3. StateInv'  BY DEF TypeOK, StateInv
  <1>4. StartInv'
    <2>1. \A q \in Isolates : starting'[q] = IF q = p THEN c ELSE starting[q]  BY DEF TypeOK
    <2>2. pc[p] = "script" /\ pc[c] = "none" /\ starting[p] = NoIsolate /\ c # NoIsolate /\ ~inShutdown
      BY DEF StateInv, Scripting
    <2>3. \A q \in Isolates : starting[q] # c  BY <2>2 DEF StartInv, Isolates
    <2> QED  BY <2>1, <2>2, <2>3 DEF StartInv
  <1>5. ThreadInv'  BY DEF ThreadInv, NoCodeOutlives
  <1>6. ShutdownMarksAll'  BY DEF ShutdownMarksAll
  <1>7. LiveInv'  BY DEF TypeOK, LiveInv
  <1>8. CountExact'  BY CountStays
  <1> QED  BY <1>1, <1>2, <1>3, <1>4, <1>5, <1>6, <1>7, <1>8 DEF IndInv

\* spawnIsolateThread.  A worker whose start a shutdown has overtaken is marked.
LEMMA SpawnInv ==
  ASSUME IndInv, NEW p \in Isolates, Spawn(p)
  PROVE  IndInv'
  <1> DEFINE c == starting[p]
  <1>0. c \in Workers /\ c \in Isolates  BY IsolatesFinite DEF Spawn, IndInv, TypeOK
  <1>a. PICK to \in {"CANSTART", "FAILED"} :
          /\ StateTransition(c, to)
          /\ to = "CANSTART" => /\ threads' = threads \cup {c} /\ pc' = [pc EXCEPT ![c] = "spawned"]
                                /\ unjoined' \in IF pc[Main] = "join" THEN {unjoined, unjoined \cup {c}} ELSE {unjoined}
          /\ to = "FAILED" => threads' = threads /\ pc' = pc /\ unjoined' = unjoined
    BY DEF Spawn
  <1>b. to \in Active \cup Inactive  BY DEF Active, Inactive
  <1>c. /\ state' \in [Isolates -> States]
        /\ interrupted' \in [Isolates -> BOOLEAN]
        /\ count' \in Int /\ again' \in Nat
        /\ state'[c] = to
        /\ \A j \in Isolates : interrupted'[j] <=> interrupted[j]
        /\ \A j \in Isolates \ {c} : state'[j] = state[j]
    BY <1>0, <1>a, <1>b, TransitionFacts DEF IndInv
  <1>d. /\ pc[c] = "none" /\ pc[p] = "script" /\ c # p /\ starting[p] # NoIsolate
        /\ state[c] = IF inShutdown THEN "TERMINATED" ELSE "NEW"
        /\ \A q \in Isolates : starting[q] = c => q = p
        /\ starting' = [starting EXCEPT ![p] = NoIsolate]
        /\ UNCHANGED <<parent, core, raised, grace, timer, lost, blobs, inMap, inShutdown>>
    BY DEF Spawn, IndInv, StartInv, isolateVars, wordVars
  <1>e. inShutdown => interrupted[c]  BY <1>0, <1>d DEF IndInv, StateInv
  <1> HIDE DEF c
  <1> USE IsolatesFinite, IsolateAssumption DEF IndInv
  <1>f. unjoined' \subseteq threads' /\ threads' \subseteq Workers  BY <1>0, <1>a DEF TypeOK
  <1>g. pc' \in [Isolates -> Places] /\ \A j \in Isolates \ {c} : pc'[j] = pc[j]
    BY <1>0, <1>a DEF TypeOK, Places
  <1>h. pc'[c] = IF to = "CANSTART" THEN "spawned" ELSE "none"  BY <1>0, <1>a, <1>d DEF TypeOK
  <1>i. c # Main  BY <1>0
  <1>1. TypeOK'  BY <1>0, <1>c, <1>d, <1>f, <1>g, <1>h DEF TypeOK, Places, States
  <1>2. MainInv'  BY <1>0, <1>c, <1>d, <1>g, <1>h, <1>i DEF TypeOK, MainInv, Early, SetUp
  <1>3. StateInv'  BY <1>0, <1>c, <1>d, <1>g, <1>h DEF TypeOK, StateInv, Early, SetUp
  <1>4. StartInv'
    <2>1. \A q \in Isolates : starting'[q] = IF q = p THEN NoIsolate ELSE starting[q]  BY <1>d DEF TypeOK
    <2>2. \A q \in Isolates : q # c => pc'[q] = pc[q]  BY <1>g
    <2> QED  BY <2>1, <2>2, <1>0, <1>c, <1>d DEF TypeOK, StartInv
  <1>5. ThreadInv'
    <2>1. c \in threads' \/ pc'[c] = "none"  BY <1>a, <1>h
    <2>2. threads \subseteq threads' /\ unjoined \subseteq unjoined'  BY <1>a
    <2>3. pc[Main] \in {"join", "end"} => inShutdown  BY DEF MainInv, Early, SetUp
    <2>4. interrupted'[c] <=> interrupted[c]  BY <1>c, <1>0
    <2>5. pc'[Main] = pc[Main]  BY <1>g, <1>i
    <2>6. pc'[Main] \notin {"join", "end"} => \A i \in Workers : pc'[i] \in {"none", "done"} \/ i \in threads'
      BY <2>1, <2>2, <2>5, <1>g DEF ThreadInv, Isolates
    <2>7. pc[Main] \in {"join", "end"} => pc'[c] = "none" \/ (pc'[c] = "spawned" /\ interrupted'[c])
      BY <2>3, <2>4, <1>e, <1>h
    <2>8. pc'[Main] = "join" => \A i \in Workers :
            pc'[i] \in {"none", "done"} \/ i \in unjoined' \/ (pc'[i] = "spawned" /\ interrupted'[i])
      BY <2>2, <2>5, <2>7, <1>c, <1>g DEF ThreadInv, Isolates
    <2>9. NoCodeOutlives'
      BY <2>5, <2>7, <1>c, <1>g DEF ThreadInv, NoCodeOutlives, Isolates
    <2> QED  BY <2>6, <2>8, <2>9 DEF ThreadInv
  <1>6. ShutdownMarksAll'  BY <1>0, <1>c, <1>d, <1>e DEF TypeOK, ShutdownMarksAll
  <1>7. LiveInv'  BY <1>0, <1>b, <1>c, <1>d, <1>g, <1>h DEF TypeOK, LiveInv, Active, SetUp
  <1>8. CountExact'
    <2> SUFFICES ASSUME ~inShutdown PROVE count' = Cardinality(Counted') - again'
      BY <1>d DEF CountExact, Counted
    <2>1. count = Cardinality(Counted) - again  BY DEF CountExact, Counted, MainInv
    <2>2. state[c] \in Active  BY <1>d DEF Active
    <2> QED  BY <2>1, <2>2, <1>0, <1>a, <1>b, TransitionCount
  <1> QED  BY <1>1, <1>2, <1>3, <1>4, <1>5, <1>6, <1>7, <1>8 DEF IndInv

\* A transition by the thread of i itself, on the way to place q: what every such
\* step has to keep.
LEMMA ThreadStep ==
  ASSUME IndInv, NEW i \in Isolates, NEW q \in Places \ {"none", "end", "join", "killed"},
         pc[i] \in Early \cup {"cleanup", "deleted"}, starting[i] = NoIsolate,
         pc[i] = "spawned" /\ interrupted[i] => q = "done",
         pc' = [pc EXCEPT ![i] = q],
         UNCHANGED <<parent, tableVars>>,
         i = Main => q # "done", i # Main => q \notin {"exit", "wait"},
         i = Main => inShutdown \/ q \in Early \cup {"exit"},
         i = Main /\ inShutdown => q \in {"cleanup", "deleted", "wait"},
         UNCHANGED <<state, interrupted>> \/ \E to \in Active \cup Inactive :
            /\ to \notin {"NEW", "FAILED"} /\ StateTransition(i, to)
            /\ i = Main => inShutdown \/ to \notin {"FINISHING", "TERMINATED", "EXCEPTION"}
  PROVE  /\ MainInv' /\ StartInv' /\ ThreadInv' /\ ShutdownMarksAll'
         /\ state[i] \notin {"NONE", "NEW", "FAILED"}
         /\ pc' \in [Isolates -> Places] /\ pc'[i] = q /\ \A j \in Isolates \ {i} : pc'[j] = pc[j]
         /\ \A j \in Isolates \ {i} : state'[j] = state[j] /\ (interrupted'[j] <=> interrupted[j])
         /\ interrupted[i] => interrupted'[i]
         /\ state'[i] \notin {"NONE", "NEW", "FAILED"}
         /\ state'[i] \in {"TERMINATED", "EXCEPTION", "FINISHING"} => interrupted'[i]
         /\ state' \in [Isolates -> States]
         /\ interrupted' \in [Isolates -> BOOLEAN]
  <1>1. pc' \in [Isolates -> Places] /\ pc'[i] = q /\ \A j \in Isolates \ {i} : pc'[j] = pc[j]
    BY DEF IndInv, TypeOK, Places
  <1>2. state[i] \notin {"NONE", "NEW", "FAILED"}  BY DEF IndInv, StateInv, Early, SetUp
  <1>3. /\ state' \in [Isolates -> States]
        /\ interrupted' \in [Isolates -> BOOLEAN]
        /\ \A j \in Isolates \ {i} : state'[j] = state[j] /\ (interrupted'[j] <=> interrupted[j])
        /\ interrupted[i] => interrupted'[i]
        /\ state'[i] \notin {"NONE", "NEW", "FAILED"}
        /\ state'[i] \in {"TERMINATED", "EXCEPTION", "FINISHING"} => interrupted'[i]
        /\ i = Main /\ ~inShutdown /\ ~interrupted[i] => ~interrupted'[i]
    <2>1. CASE state' = state /\ interrupted' = interrupted
      BY <2>1, <1>2 DEF IndInv, TypeOK, StateInv, States
    <2>2. ASSUME NEW to \in Active \cup Inactive, to \notin {"NEW", "FAILED"}, StateTransition(i, to),
                 i = Main => inShutdown \/ to \notin {"FINISHING", "TERMINATED", "EXCEPTION"}
          PROVE  <1>3!1 /\ <1>3!2 /\ <1>3!3 /\ <1>3!4 /\ <1>3!5 /\ <1>3!6 /\ <1>3!7
      <3>1. to # "NONE"  BY DEF Active, Inactive
      <3> QED  BY <2>2, <3>1, TransitionFacts DEF IndInv
    <2> QED  BY <2>1, <2>2
  <1>4. UNCHANGED <<inMap, threads, unjoined, inShutdown, starting>>  BY DEF tableVars
  <1>5. MainInv'
    <2>1. CASE i = Main  BY <2>1, <1>1, <1>3, <1>4, IsolatesFinite, IsolateAssumption DEF IndInv, MainInv, Early, SetUp
    <2>2. CASE i # Main  BY <2>2, <1>1, <1>3, <1>4, IsolatesFinite, IsolateAssumption DEF IndInv, MainInv, Early, SetUp
    <2> QED  BY <2>1, <2>2
  <1>6. StartInv'
    <2> SUFFICES ASSUME NEW p \in Isolates, starting[p] # NoIsolate
                 PROVE  /\ pc'[p] = "script" /\ pc'[starting[p]] = "none"
                        /\ parent[starting[p]] \in {p, NoIsolate}
                        /\ state'[starting[p]] = IF inShutdown THEN "TERMINATED" ELSE "NEW"
                        /\ \A r \in Isolates : starting[r] = starting[p] => r = p
      BY <1>4 DEF StartInv
    <2>1. /\ starting[p] \in Isolates /\ p # i /\ starting[p] # i
      BY IsolatesFinite DEF IndInv, TypeOK, StartInv, Early, SetUp
    <2> QED  BY <2>1, <1>1, <1>3 DEF IndInv, StartInv
  <1>7. ThreadInv'
    <2>0. pc[i] \notin {"none", "done", "join", "end"}  BY DEF Early, SetUp
    <2>1. pc[Main] = "end" => pc[i] = "spawned" /\ interrupted[i] /\ i \in Workers
      BY <2>0 DEF IndInv, ThreadInv, NoCodeOutlives, Isolates
    <2>2. pc'[Main] = "end" => pc[Main] = "end" /\ pc'[i] = "done"
      BY <2>1, <1>1, IsolatesFinite
    <2>3. NoCodeOutlives'
      BY <2>2, <1>1, <1>3, IsolatesFinite DEF IndInv, ThreadInv, NoCodeOutlives
    <2>4. pc'[Main] \notin {"join", "end"} => \A j \in Workers : pc'[j] \in {"none", "done"} \/ j \in threads'
      <3>1. pc'[Main] \notin {"join", "end"} => pc[Main] \notin {"join", "end"}
        BY <2>0, <1>1, IsolatesFinite
      <3> QED  BY <3>1, <2>0, <1>1, <1>4, IsolatesFinite DEF IndInv, ThreadInv
    <2>5. pc'[Main] = "join" => \A j \in Workers :
            pc'[j] \in {"none", "done"} \/ j \in unjoined' \/ (pc'[j] = "spawned" /\ interrupted'[j])
      <3>1. pc'[Main] = "join" => pc[Main] = "join"  BY <1>1, IsolatesFinite
      <3> QED  BY <3>1, <2>0, <1>1, <1>3, <1>4, IsolatesFinite DEF IndInv, ThreadInv
    <2> QED  BY <2>3, <2>4, <2>5 DEF ThreadInv
  <1>8. ShutdownMarksAll'
    BY <1>2, <1>3, <1>4 DEF IndInv, TypeOK, ShutdownMarksAll, StateInv, Inactive, Over
  <1> QED  BY <1>1, <1>2, <1>3, <1>5, <1>6, <1>7, <1>8

\* The same with the data of the isolate: the core, the blobs that are left, the
\* word and the count.
LEMMA ThreadStepInv ==
  ASSUME IndInv, NEW i \in Isolates, NEW q \in Places \ {"none", "end", "join", "killed"},
         pc[i] \in Early \cup {"cleanup", "deleted"}, starting[i] = NoIsolate,
         pc[i] = "spawned" /\ interrupted[i] => q = "done",
         pc' = [pc EXCEPT ![i] = q],
         UNCHANGED <<parent, tableVars>>, WordOK',
         i = Main => q # "done", i # Main => q \notin {"exit", "wait"},
         i = Main => inShutdown \/ q \in Early \cup {"exit"},
         i = Main /\ inShutdown => q \in {"cleanup", "deleted", "wait"},
         UNCHANGED stateVars \/ \E to \in Active \cup Inactive :
            /\ to \notin {"NEW", "FAILED"} /\ StateTransition(i, to)
            /\ i = Main => inShutdown \/ to \notin {"FINISHING", "TERMINATED", "EXCEPTION"}
            /\ ~inShutdown => state[i] \in Active \/ (state[i] = "EXCEPTION" /\ to = "EXCEPTION"),
         core' = [core EXCEPT ![i] = core'[i]], core'[i] \in {"null", "live", "deleted"},
         core'[i] = "live" <=> q \in {"query", "trans", "ready", "script", "exit", "cleanup"},
         blobs' = [blobs EXCEPT ![i] = blobs'[i]], blobs'[i] \in 0..NumBlobs,
         q \in Early => blobs'[i] >= 1,
         ~inShutdown =>
            /\ q \in SetUp => state'[i] \in Active
            /\ q \in {"script", "cleanup", "deleted"} => state'[i] \in Active \cup {"EXCEPTION"}
  PROVE  IndInv'
  <1>1. UNCHANGED <<state, interrupted>> \/ \E to \in Active \cup Inactive :
            /\ to \notin {"NEW", "FAILED"} /\ StateTransition(i, to)
            /\ i = Main => inShutdown \/ to \notin {"FINISHING", "TERMINATED", "EXCEPTION"}
    BY DEF stateVars
  <1>2. /\ MainInv' /\ StartInv' /\ ThreadInv' /\ ShutdownMarksAll'
        /\ state[i] \notin {"NONE", "NEW", "FAILED"}
        /\ pc' \in [Isolates -> Places] /\ pc'[i] = q /\ \A j \in Isolates \ {i} : pc'[j] = pc[j]
        /\ \A j \in Isolates \ {i} : state'[j] = state[j] /\ (interrupted'[j] <=> interrupted[j])
        /\ state'[i] \notin {"NONE", "NEW", "FAILED"}
        /\ state'[i] \in {"TERMINATED", "EXCEPTION", "FINISHING"} => interrupted'[i]
        /\ state' \in [Isolates -> States]
        /\ interrupted' \in [Isolates -> BOOLEAN]
    BY <1>1, ThreadStep
  <1>3. count' \in Int /\ again' \in Nat /\ CountExact'
    <2>1. CASE UNCHANGED stateVars
      <3>1. UNCHANGED <<state, count, again, inShutdown>>  BY <2>1 DEF stateVars, tableVars
      <3>2. count' \in Int /\ again' \in Nat  BY <3>1 DEF IndInv, TypeOK
      <3> QED  BY <3>1, <3>2, CountStays
    <2>2. ASSUME NEW to \in Active \cup Inactive, StateTransition(i, to),
                 ~inShutdown => state[i] \in Active \/ (state[i] = "EXCEPTION" /\ to = "EXCEPTION")
          PROVE  count' \in Int /\ again' \in Nat /\ CountExact'
      <3>1. count' \in Int /\ again' \in Nat  BY <2>2, TransitionFacts DEF IndInv
      <3>2. ASSUME ~inShutdown PROVE count' = Cardinality(Counted') - again'
        <4>1. count = Cardinality(Counted) - again
          BY <3>2, IsolatesFinite DEF IndInv, CountExact, Counted, MainInv
        <4> QED  BY <4>1, <3>2, <2>2, TransitionCount DEF IndInv
      <3>3. inShutdown' = inShutdown  BY DEF tableVars
      <3> QED  BY <3>1, <3>2, <3>3 DEF CountExact, Counted
    <2> QED  BY <2>1, <2>2
  <1>4. /\ core' \in [Isolates -> {"null", "live", "deleted"}] /\ \A j \in Isolates \ {i} : core'[j] = core[j]
        /\ blobs' \in [Isolates -> 0..NumBlobs] /\ \A j \in Isolates \ {i} : blobs'[j] = blobs[j]
    BY DEF IndInv, TypeOK
  <1>5. TypeOK'
    <2>1. UNCHANGED <<parent, inMap, threads, unjoined, inShutdown, starting>>  BY DEF tableVars
    <2>2. parent' \in [Isolates -> Isolates \cup {NoIsolate}] /\ inMap' \subseteq Isolates
          /\ threads' \subseteq Workers /\ unjoined' \subseteq threads'
          /\ inShutdown' \in BOOLEAN /\ starting' \in [Isolates -> Workers \cup {NoIsolate}]
      BY <2>1 DEF IndInv, TypeOK
    <2>3. \A j \in Isolates : core'[j] = "live" <=>
             pc'[j] \in {"query", "trans", "ready", "script", "exit", "cleanup"}
      BY <1>2, <1>4 DEF IndInv, TypeOK
    <2> QED  BY <1>2, <1>3, <1>4, <2>2, <2>3 DEF TypeOK, Places, States, WordOK
  <1>6. StateInv'
    <2>1. state'[i] # "ABORTED"
      BY <1>1, TransitionFacts DEF IndInv, StateInv, Active, Inactive
    <2> QED  BY <2>1, <1>2, <1>4 DEF IndInv, StateInv, tableVars
  <1>7. LiveInv'  BY <1>2 DEF IndInv, LiveInv, tableVars
  <1> QED  BY <1>2, <1>3, <1>5, <1>6, <1>7 DEF IndInv

\* What holds of the thread of i before such a step.
LEMMA Before ==
  ASSUME IndInv, NEW i \in Isolates
  PROVE  /\ blobs[i] \in 0..NumBlobs /\ core[i] \in {"null", "live", "deleted"}
         /\ pc[i] \in Early => blobs[i] >= 1
         /\ pc[i] # "script" => starting[i] = NoIsolate
         /\ i = Main /\ pc[i] \in Early => ~inShutdown /\ ~interrupted[i]
         /\ i = Main /\ pc[i] \in {"cleanup", "deleted"} => inShutdown
         /\ ~inShutdown => /\ pc[i] \in SetUp => state[i] \in Active
                           /\ pc[i] \in {"script", "cleanup", "deleted"} => state[i] \in Active \cup {"EXCEPTION"}
         /\ core[i] = "live" <=> pc[i] \in {"query", "trans", "ready", "script", "exit", "cleanup"}
         /\ core = [core EXCEPT ![i] = core[i]] /\ blobs = [blobs EXCEPT ![i] = blobs[i]]
         /\ WordOK
  <1>1. blobs[i] \in 0..NumBlobs /\ core[i] \in {"null", "live", "deleted"}
        /\ core = [core EXCEPT ![i] = core[i]] /\ blobs = [blobs EXCEPT ![i] = blobs[i]]
        /\ (core[i] = "live" <=> pc[i] \in {"query", "trans", "ready", "script", "exit", "cleanup"})
    BY DEF IndInv, TypeOK
  <1>2. WordOK  BY DEF IndInv, TypeOK, WordOK
  <1>3. /\ pc[i] \in Early => blobs[i] >= 1
        /\ pc[i] # "script" => starting[i] = NoIsolate
    BY DEF IndInv, StateInv, StartInv
  <1>4. /\ i = Main /\ pc[i] \in Early => ~inShutdown /\ ~interrupted[i]
        /\ i = Main /\ pc[i] \in {"cleanup", "deleted"} => inShutdown
    BY DEF IndInv, MainInv, Early, SetUp
  <1>5. ~inShutdown => /\ pc[i] \in SetUp => state[i] \in Active
                       /\ pc[i] \in {"script", "cleanup", "deleted"} => state[i] \in Active \cup {"EXCEPTION"}
    BY DEF IndInv, LiveInv
  <1> QED  BY <1>1, <1>2, <1>3, <1>4, <1>5

\* Isolate::run.  Main is not interrupted at that point.
LEMMA RunCheckInv ==
  ASSUME IndInv, NEW i \in Isolates, RunCheck(i)
  PROVE  IndInv'
  <1>1. pc[i] = "spawned"  BY DEF RunCheck
  <1>2. UNCHANGED <<parent, core, blobs, tableVars>> /\ WordOK'
    BY Before DEF RunCheck, isolateVars, wordVars, WordOK
  <1>3. CASE interrupted[i]
    <2>1. StateTransition(i, "TERMINATED") /\ pc' = [pc EXCEPT ![i] = "done"]  BY <1>3 DEF RunCheck
    <2>2. "TERMINATED" \in Active \cup Inactive /\ "done" \in Places  BY DEF Inactive, Places
    <2> QED  BY <2>1, <2>2, <1>1, <1>2, <1>3, Before, ThreadStepInv DEF Early, SetUp
  <1>4. CASE ~interrupted[i]
    <2>1. UNCHANGED stateVars /\ pc' = [pc EXCEPT ![i] = "go"]  BY <1>4 DEF RunCheck
    <2>2. "go" \in Places  BY DEF Places
    <2> QED  BY <2>1, <2>2, <1>1, <1>2, <1>4, Before, ThreadStepInv DEF Early, SetUp, stateVars
  <1> QED  BY <1>3, <1>4

\* Isolate::run, otherwise.
LEMMA GoStartingInv ==
  ASSUME IndInv, NEW i \in Isolates, GoStarting(i)
  PROVE  IndInv'
  <1>1. pc[i] = "go"  BY DEF GoStarting
  <1>2. UNCHANGED <<parent, core, blobs, tableVars>> /\ WordOK'
    BY Before DEF GoStarting, isolateVars, wordVars, WordOK
  <1>3. StateTransition(i, "STARTING") /\ pc' = [pc EXCEPT ![i] = "init"]  BY DEF GoStarting
  <1>4. "STARTING" \in Active /\ "init" \in Places  BY DEF Active, Places
  <1>5. state'[i] = "STARTING"  BY <1>3, <1>4, TransitionFacts DEF IndInv
  <1> QED  BY <1>1, <1>2, <1>3, <1>4, <1>5, Before, ThreadStepInv DEF Early, SetUp

\* doRun makes a core.
LEMMA InitializeInv ==
  ASSUME IndInv, NEW i \in Isolates, Initialize(i)
  PROVE  IndInv'
  <1>1. pc[i] = "init"  BY DEF Initialize
  <1>2. UNCHANGED <<parent, blobs, tableVars>> /\ UNCHANGED stateVars /\ WordOK'
    BY Before DEF Initialize, wordVars, WordOK
  <1>3. core' = [core EXCEPT ![i] = core'[i]] /\ core'[i] = "live"  BY DEF Initialize, IndInv, TypeOK
  <1>4. pc' = [pc EXCEPT ![i] = "query"] /\ "query" \in Places  BY DEF Initialize, Places
  <1> QED  BY <1>1, <1>2, <1>3, <1>4, Before, ThreadStepInv DEF Early, SetUp, stateVars

\* The set-up of the core asks for the state ...
LEMMA SetupQueryInv ==
  ASSUME IndInv, NEW i \in Isolates, SetupQuery(i)
  PROVE  IndInv'
  <1>1. pc[i] = "query"  BY DEF SetupQuery
  <1>2. UNCHANGED <<parent, core, blobs, tableVars>> /\ UNCHANGED stateVars /\ WordOK'
    BY Before DEF SetupQuery, isolateVars, wordVars, WordOK
  <1>3. PICK q \in {"trans", "ready"} : pc' = [pc EXCEPT ![i] = q]  BY DEF SetupQuery
  <1>4. q \in Places  BY DEF Places
  <1> QED  BY <1>1, <1>2, <1>3, <1>4, Before, ThreadStepInv DEF Early, SetUp, stateVars

\* ... and makes the isolate RUNNING.
LEMMA SetupRunInv ==
  ASSUME IndInv, NEW i \in Isolates, SetupRun(i)
  PROVE  IndInv'
  <1>1. pc[i] = "trans"  BY DEF SetupRun
  <1>2. UNCHANGED <<parent, core, blobs, tableVars>> /\ WordOK'
    BY Before DEF SetupRun, isolateVars, wordVars, WordOK
  <1>3. StateTransition(i, "RUNNING") /\ pc' = [pc EXCEPT ![i] = "ready"]  BY DEF SetupRun
  <1>4. "RUNNING" \in Active /\ "ready" \in Places  BY DEF Active, Places
  <1>5. state'[i] = "RUNNING"  BY <1>3, <1>4, TransitionFacts DEF IndInv
  <1> QED  BY <1>1, <1>2, <1>3, <1>4, <1>5, Before, ThreadStepInv DEF Early, SetUp

\* The set-up fails.
LEMMA SetupFailsInv ==
  ASSUME IndInv, NEW i \in Isolates, SetupFails(i)
  PROVE  IndInv'
  <1>1. pc[i] \in {"query", "ready"}  BY DEF SetupFails
  <1>2. UNCHANGED <<parent, blobs, tableVars>> /\ UNCHANGED stateVars /\ WordOK'
    BY Before DEF SetupFails, wordVars, WordOK
  <1>3. core' = [core EXCEPT ![i] = core'[i]] /\ core'[i] = "deleted"  BY DEF SetupFails, IndInv, TypeOK
  <1>4. pc' = [pc EXCEPT ![i] = "failed"] /\ "failed" \in Places  BY DEF SetupFails, Places
  <1> QED  BY <1>1, <1>2, <1>3, <1>4, Before, ThreadStepInv DEF Early, SetUp, stateVars

\* doRun evaluates the code only if RUNNING.
LEMMA DoRunQueryInv ==
  ASSUME IndInv, NEW i \in Isolates, DoRunQuery(i)
  PROVE  IndInv'
  <1>1. pc[i] = "ready"  BY DEF DoRunQuery
  <1>2. UNCHANGED <<parent, core, blobs, raised, grace, tableVars>> /\ UNCHANGED stateVars
    BY DEF DoRunQuery, isolateVars
  <1>3. SetTimer(i) \/ UNCHANGED <<timer, lost>>  BY DEF DoRunQuery, LimitBlob
  <1>4. WordOK'  BY <1>2, <1>3, Before, SetTimerFacts DEF WordOK
  <1>5. PICK q \in {"script", "cleanup"} : pc' = [pc EXCEPT ![i] = q] /\ (i = Main => q = "script")
    BY DEF DoRunQuery
  <1>6. q \in Places  BY DEF Places
  <1> QED  BY <1>1, <1>2, <1>4, <1>5, <1>6, Before, ThreadStepInv DEF Early, SetUp, stateVars

\* The end of a code blob.
LEMMA EndBlobFacts ==
  ASSUME IndInv, NEW i \in Isolates, Scripting(i), EndBlob(i)
  PROVE  /\ \E q \in {"script", "exit", "cleanup"} :
              /\ pc' = [pc EXCEPT ![i] = q] /\ q \in Places
              /\ q = "script" => blobs'[i] >= 1
              /\ q = "exit" <=> (i = Main /\ q # "script")
         /\ blobs' = [blobs EXCEPT ![i] = blobs'[i]] /\ blobs'[i] \in 0..NumBlobs
         /\ pc[i] = "script" /\ starting[i] = NoIsolate /\ core[i] = "live"
         /\ SetTimer(i) \/ UNCHANGED <<timer, lost>>
  <1>1. pc[i] = "script" /\ starting[i] = NoIsolate /\ core[i] = "live"
    BY Before DEF Scripting
  <1>2. blobs \in [Isolates -> 0..NumBlobs] /\ blobs[i] >= 1 /\ NumBlobs \in Nat
    BY <1>1, IsolateAssumption DEF IndInv, TypeOK, StateInv, Early
  <1>3. blobs'[i] = blobs[i] - 1 /\ blobs' = [blobs EXCEPT ![i] = blobs[i] - 1]
    BY <1>2 DEF EndBlob
  <1>4. blobs' = [blobs EXCEPT ![i] = blobs'[i]] /\ blobs'[i] \in 0..NumBlobs
    BY <1>2, <1>3
  <1>5. blobs[i] > 1 => blobs'[i] >= 1  BY <1>2, <1>3
  <1>6. \E q \in {"script", "exit", "cleanup"} :
              /\ pc' = [pc EXCEPT ![i] = q] /\ q \in Places
              /\ q = "script" => blobs'[i] >= 1
              /\ q = "exit" <=> (i = Main /\ q # "script")
    <2>1. CASE blobs[i] > 1
      <3>1. pc' = [pc EXCEPT ![i] = "script"]  BY <2>1 DEF EndBlob
      <3> QED  BY <3>1, <2>1, <1>5 DEF Places
    <2>2. CASE ~(blobs[i] > 1) /\ i = Main
      <3>1. pc' = [pc EXCEPT ![i] = "exit"]  BY <2>2 DEF EndBlob
      <3> QED  BY <3>1, <2>2 DEF Places
    <2>3. CASE ~(blobs[i] > 1) /\ i # Main
      <3>1. pc' = [pc EXCEPT ![i] = "cleanup"]  BY <2>3 DEF EndBlob
      <3> QED  BY <3>1, <2>3 DEF Places
    <2> QED  BY <2>1, <2>2, <2>3
  <1>7. SetTimer(i) \/ UNCHANGED <<timer, lost>>  BY DEF EndBlob, LimitBlob
  <1> QED  BY <1>1, <1>4, <1>6, <1>7

\* What follows the end of a code blob, whether or not it was an exception.
LEMMA EndBlobInv ==
  ASSUME IndInv, NEW i \in Isolates, Scripting(i), EndBlob(i),
         UNCHANGED <<parent, core, tableVars>>,
         raised' \in [Isolates -> BOOLEAN], grace' \in [Isolates -> BOOLEAN],
         UNCHANGED stateVars \/ (i # Main /\ StateTransition(i, "EXCEPTION"))
  PROVE  IndInv'
  <1>1. PICK q \in {"script", "exit", "cleanup"} :
              /\ pc' = [pc EXCEPT ![i] = q] /\ q \in Places
              /\ q = "script" => blobs'[i] >= 1
              /\ q = "exit" <=> (i = Main /\ q # "script")
    BY EndBlobFacts
  <1>2. /\ blobs' = [blobs EXCEPT ![i] = blobs'[i]] /\ blobs'[i] \in 0..NumBlobs
        /\ pc[i] = "script" /\ starting[i] = NoIsolate /\ core[i] = "live"
        /\ SetTimer(i) \/ UNCHANGED <<timer, lost>>
    BY EndBlobFacts
  <1>3. WordOK'  BY <1>2, Before, SetTimerFacts DEF WordOK
  <1>4. i = Main => ~inShutdown  BY <1>2, Before DEF Early
  <1>5. ~inShutdown => state[i] \in Active \cup {"EXCEPTION"}  BY <1>2, Before
  <1>6. CASE UNCHANGED stateVars
    <2>1. state' = state  BY <1>6 DEF stateVars
    <2> QED  BY <2>1, <1>1, <1>2, <1>3, <1>4, <1>5, <1>6, Before, ThreadStepInv DEF Early, SetUp
  <1>7. CASE i # Main /\ StateTransition(i, "EXCEPTION")
    <2>1. "EXCEPTION" \in Active \cup Inactive  BY DEF Inactive
    <2>2. state'[i] = "EXCEPTION"  BY <1>7, <2>1, TransitionFacts DEF IndInv
    <2> QED  BY <2>1, <2>2, <1>1, <1>2, <1>3, <1>5, <1>7, Before, ThreadStepInv DEF Early, SetUp
  <1> QED  BY <1>6, <1>7

\* A script returns.
LEMMA ScriptEndInv ==
  ASSUME IndInv, NEW i \in Isolates, ScriptEnd(i)
  PROVE  IndInv'
  <1>1. Scripting(i) /\ EndBlob(i) /\ UNCHANGED <<parent, core, tableVars>> /\ UNCHANGED stateVars  BY DEF ScriptEnd
  <1>2. raised' \in [Isolates -> BOOLEAN] /\ grace' \in [Isolates -> BOOLEAN]  BY Before DEF ScriptEnd, WordOK
  <1> QED  BY <1>1, <1>2, EndBlobInv

\* A script leaves an exception uncaught.
LEMMA ScriptThrowInv ==
  ASSUME IndInv, NEW i \in Isolates, ScriptThrow(i)
  PROVE  IndInv'
  <1>1. /\ Scripting(i) /\ EndBlob(i) /\ i # Main /\ StateTransition(i, "EXCEPTION")
        /\ UNCHANGED <<parent, core, tableVars>>
    BY DEF ScriptThrow
  <1>2. raised' \in [Isolates -> BOOLEAN] /\ grace' \in [Isolates -> BOOLEAN]  BY Before DEF ScriptThrow, WordOK
  <1> QED  BY <1>1, <1>2, EndBlobInv

\* A step that is of the interrupt word or the timer only.
LEMMA WordStepInv ==
  ASSUME IndInv, WordOK', UNCHANGED <<stateVars, isolateVars, tableVars, pc>>
  PROVE  IndInv'
  <1> USE DEF IndInv, stateVars, isolateVars, tableVars
  <1>1. TypeOK'  BY DEF TypeOK, WordOK
  <1>2. MainInv' /\ StateInv' /\ StartInv'  BY DEF MainInv, StateInv, StartInv
  <1>3. ThreadInv' /\ ShutdownMarksAll' /\ LiveInv'
    BY DEF ThreadInv, NoCodeOutlives, ShutdownMarksAll, LiveInv
  <1>4. CountExact'  BY CountStays
  <1> QED  BY <1>1, <1>2, <1>3, <1>4

\* ShellCore::interrupt, the first time.
LEMMA FirstInterruptInv ==
  ASSUME IndInv, NEW i \in Isolates, FirstInterrupt(i)
  PROVE  IndInv'
  <1>1. raised' \in [Isolates -> BOOLEAN] /\ grace' \in [Isolates -> BOOLEAN]
    BY Before DEF FirstInterrupt, WordOK
  <1>2. lost' \in [Isolates -> BOOLEAN] /\ timer' \in Isolates \cup {NoIsolate}
    BY Before, SetTimerFacts DEF FirstInterrupt
  <1> QED  BY <1>1, <1>2, WordStepInv DEF FirstInterrupt, WordOK

\* The word is lost, and the timer fires.
LEMMA WordClearedInv ==
  ASSUME IndInv, NEW i \in Isolates, WordCleared(i)
  PROVE  IndInv'
  <1>1. WordOK'  BY Before DEF WordCleared, WordOK
  <1> QED  BY <1>1, WordStepInv DEF WordCleared

LEMMA TimerFiresInv ==
  ASSUME IndInv, TimerFires
  PROVE  IndInv'
  <1>1. raised' \in [Isolates -> BOOLEAN] /\ lost' \in [Isolates -> BOOLEAN]
    BY InterruptFacts DEF TimerFires
  <1>2. timer' \in Isolates \cup {NoIsolate} /\ grace' \in [Isolates -> BOOLEAN]
    BY DEF TimerFires, IndInv, TypeOK
  <1> QED  BY <1>1, <1>2, WordStepInv DEF TimerFires, WordOK

\* The end of the process leaves nobody.
LEMMA ExitGone ==
  ASSUME IndInv, ExitProcess, state' \in [Isolates -> States], interrupted' \in [Isolates -> BOOLEAN],
         count' \in Int, again' \in Nat, ShutdownMarksAll', blobs' \in [Isolates -> 0..NumBlobs],
         raised' \in [Isolates -> BOOLEAN],
         UNCHANGED <<parent, grace, lost, inMap, threads, unjoined, inShutdown>>
  PROVE  Gone'
  <1>1. /\ pc' \in [Isolates -> Places] /\ core' \in [Isolates -> {"null", "live", "deleted"}]
        /\ starting' \in [Isolates -> Workers \cup {NoIsolate}] /\ timer' = NoIsolate
        /\ \A i \in Isolates : pc'[i] = "killed" /\ core'[i] = "null" /\ starting'[i] = NoIsolate
    BY DEF ExitProcess, Places
  <1>2. TypeOK'  BY <1>1 DEF IndInv, TypeOK, States, Places
  <1> QED  BY <1>1, <1>2 DEF Gone

\* ShellCore::interrupt, the second time.
LEMMA LastInterruptInv ==
  ASSUME IndInv, NEW i \in Isolates, LastInterrupt(i)
  PROVE  IndInv' \/ Gone'
  <1>1. raised' \in [Isolates -> BOOLEAN] /\ grace' \in [Isolates -> BOOLEAN]
    BY Before DEF LastInterrupt, WordOK
  <1>2. UNCHANGED <<parent, grace, inMap, threads, unjoined, inShutdown>> /\ UNCHANGED stateVars /\ Scripting(i)
    BY DEF LastInterrupt
  <1>3. CASE i = Main
    <2>1. ExitProcess /\ UNCHANGED <<blobs, lost>>  BY <1>3 DEF LastInterrupt
    <2>2. UNCHANGED <<state, interrupted, count, again>>  BY <1>2 DEF stateVars
    <2>3. ShutdownMarksAll'  BY <1>2, <2>2 DEF IndInv, ShutdownMarksAll
    <2>4. /\ state' \in [Isolates -> States] /\ interrupted' \in [Isolates -> BOOLEAN]
          /\ count' \in Int /\ again' \in Nat /\ blobs' \in [Isolates -> 0..NumBlobs]
      BY <2>1, <2>2 DEF IndInv, TypeOK, States
    <2>5. UNCHANGED lost  BY <2>1
    <2> QED  BY <2>1, <2>3, <2>4, <2>5, <1>1, <1>2, ExitGone
  <1>4. CASE i # Main
    <2>1. EndBlob(i) /\ UNCHANGED <<core, starting>>  BY <1>4 DEF LastInterrupt
    <2>2. UNCHANGED <<parent, core, tableVars>>  BY <2>1, <1>2 DEF tableVars
    <2> QED  BY <2>1, <2>2, <1>1, <1>2, EndBlobInv
  <1> QED  BY <1>3, <1>4

\* A set-up that failed ends the process.
LEMMA SetupAbortsGone ==
  ASSUME IndInv, NEW i \in Isolates, SetupAborts(i)
  PROVE  Gone'
  <1>1. ExitProcess /\ UNCHANGED <<parent, blobs, raised, grace, lost, inMap, threads, unjoined, inShutdown>>
    BY DEF SetupAborts
  <1>2. /\ state' \in [Isolates -> States] /\ interrupted' \in [Isolates -> BOOLEAN]
        /\ count' \in Int /\ again' \in Nat
        /\ \A j \in Isolates : /\ state'[j] = state[j] \/ state'[j] = "ABORTED"
                               /\ interrupted[j] => interrupted'[j]
    <2>1. CASE UNCHANGED stateVars
      BY <2>1 DEF stateVars, IndInv, TypeOK, States
    <2>2. CASE StateTransition(i, "ABORTED")
      BY <2>2 DEF StateTransition, IndInv, TypeOK, States, Over
    <2> QED  BY <2>1, <2>2 DEF SetupAborts
  <1>3. ShutdownMarksAll'  BY <1>1, <1>2 DEF IndInv, TypeOK, ShutdownMarksAll, Over
  <1>4. blobs' \in [Isolates -> 0..NumBlobs] /\ raised' \in [Isolates -> BOOLEAN]
    BY <1>1 DEF IndInv, TypeOK
  <1>5. UNCHANGED <<parent, grace, lost, inMap, threads, unjoined, inShutdown>>  BY <1>1
  <1> QED  BY <1>1, <1>2, <1>3, <1>4, <1>5, ExitGone

\* `delete core'.
LEMMA DeleteCoreInv ==
  ASSUME IndInv, NEW i \in Isolates, DeleteCore(i)
  PROVE  IndInv'
  <1>1. pc[i] = "cleanup"  BY DEF DeleteCore
  <1>2. UNCHANGED <<parent, blobs, tableVars>> /\ UNCHANGED stateVars /\ WordOK'
    BY Before DEF DeleteCore, WordOK
  <1>3. core' = [core EXCEPT ![i] = core'[i]] /\ core'[i] = "deleted"  BY DEF DeleteCore, IndInv, TypeOK
  <1>4. pc' = [pc EXCEPT ![i] = "deleted"] /\ "deleted" \in Places  BY DEF DeleteCore, Places
  <1> QED  BY <1>1, <1>2, <1>3, <1>4, Before, ThreadStepInv DEF Early, SetUp, stateVars

\* afterGCDeletion counts out who has not been counted out by an exception.
LEMMA AfterGCDeletionInv ==
  ASSUME IndInv, NEW i \in Isolates, AfterGCDeletion(i)
  PROVE  IndInv'
  <1>1. pc[i] = "deleted"  BY DEF AfterGCDeletion
  <1>2. UNCHANGED <<parent, blobs, tableVars>> /\ WordOK'
    BY Before DEF AfterGCDeletion, wordVars, WordOK
  <1>3. core' = [core EXCEPT ![i] = core'[i]] /\ core'[i] = "null"  BY DEF AfterGCDeletion, IndInv, TypeOK
  <1>4. PICK q \in {"wait", "done"} : pc' = [pc EXCEPT ![i] = q] /\ q \in Places /\ (q = "wait" <=> i = Main)
    BY DEF AfterGCDeletion, Places
  <1>5. CASE state[i] \in {"EXCEPTION", "FAILED"}
    <2>1. UNCHANGED stateVars  BY <1>5 DEF AfterGCDeletion
    <2> QED  BY <2>1, <1>1, <1>2, <1>3, <1>4, Before, ThreadStepInv DEF Early, SetUp
  <1>6. CASE state[i] \notin {"EXCEPTION", "FAILED"}
    <2>1. StateTransition(i, "TERMINATED")  BY <1>6 DEF AfterGCDeletion
    <2>2. "TERMINATED" \in Active \cup Inactive  BY DEF Inactive
    <2>3. ~inShutdown => state[i] \in Active  BY <1>1, <1>6, Before
    <2> QED  BY <2>1, <2>2, <2>3, <1>1, <1>2, <1>3, <1>4, Before, ThreadStepInv DEF Early, SetUp
  <1> QED  BY <1>5, <1>6

\* Worker.terminate: the worker stays counted in, and no start is disturbed.
LEMMA TerminateInv ==
  ASSUME IndInv, NEW p \in Isolates, NEW c \in Workers, Terminate(p, c)
  PROVE  IndInv'
  <1> DEFINE s == IF state[c] \in {"CANSTART", "STARTING", "RUNNING"} /\ ~interrupted[c]
                    THEN "FINISHING" ELSE state[c]
  <1>1. /\ Scripting(p) /\ pc[p] = "script" /\ starting[p] = NoIsolate
        /\ UNCHANGED <<core, grace, threads, unjoined, inShutdown, starting>>
        /\ c \in Isolates /\ c # Main /\ c \in inMap
    BY IsolatesFinite, IsolateAssumption DEF Terminate, Scripting
  <1>2. /\ state' \in [Isolates -> States]
        /\ interrupted' \in [Isolates -> BOOLEAN]
        /\ count' = count /\ again' = again
        /\ state'[c] = state[c] \/ (state[c] \in {"CANSTART", "STARTING", "RUNNING"} /\ state'[c] = "FINISHING")
        /\ state'[c] \in {"TERMINATED", "EXCEPTION", "FINISHING"} => interrupted'[c]
        /\ interrupted[c] => interrupted'[c]
        /\ state'[c] = state[c] => (interrupted'[c] <=> interrupted[c])
        /\ \A j \in Isolates \ {c} : state'[j] = state[j] /\ (interrupted'[j] <=> interrupted[j])
    <2>1. CASE s # state[c]
      <3>1. s = "FINISHING" /\ state[c] \in {"CANSTART", "STARTING", "RUNNING"}  BY <2>1
      <3>2. StateTransition(c, s)  BY <2>1 DEF Terminate
      <3>3. s \in Active \cup Inactive /\ s \notin Inactive  BY <3>1 DEF Active, Inactive
      <3>4. count' = count /\ again' = again  BY <3>1, <3>2, <3>3 DEF StateTransition, Inactive
      <3> HIDE DEF s
      <3> QED  BY <3>1, <3>2, <3>3, <3>4, <1>1, TransitionFacts DEF IndInv
    <2>2. CASE s = state[c]
      <3>1. UNCHANGED stateVars  BY <2>2 DEF Terminate
      <3> QED  BY <3>1, <1>1 DEF IndInv, TypeOK, StateInv, stateVars, States
    <2> QED  BY <2>1, <2>2
  <1>3. inMap' \subseteq inMap /\ parent' \in [Isolates -> Isolates \cup {NoIsolate}]
        /\ \A j \in Isolates : parent'[j] \in {parent[j], NoIsolate}
    BY DEF Terminate, IndInv, TypeOK
  <1>w. \A j \in inMap \ inMap' : state'[j] # "NEW" /\ state[j] # "NEW"
    <2> SUFFICES ASSUME inMap' # inMap PROVE inMap' = inMap \ {c} /\ state'[c] # "NEW" /\ state[c] # "NEW"
      BY <1>2, <1>3 DEF IndInv, TypeOK
    <2>1. s \notin {"NEW", "CANSTART"} /\ inMap' = inMap \ {c}  BY DEF Terminate
    <2>2. state[c] # "NEW"  BY <2>1
    <2> QED  BY <2>1, <2>2, <1>2
  <1>4. WordOK'
    <2>1. CASE UNCHANGED <<raised, timer, lost>>
      BY <2>1, <1>1, Before DEF WordOK
    <2>2. CASE c = p /\ EndBlob(p) /\ UNCHANGED raised
      <3>1. SetTimer(p) \/ UNCHANGED <<timer, lost>>  BY <2>2, <1>1, EndBlobFacts
      <3> QED  BY <3>1, <2>2, <1>1, Before, SetTimerFacts DEF WordOK
    <2>3. CASE Interrupt({c}) /\ UNCHANGED timer
      <3>1. raised' \in [Isolates -> BOOLEAN] /\ lost' \in [Isolates -> BOOLEAN]  BY <2>3, InterruptFacts
      <3> QED  BY <3>1, <2>3, <1>1, Before DEF WordOK
    <2> QED  BY <2>1, <2>2, <2>3 DEF Terminate
  <1>5. \/ pc' = pc /\ blobs' = blobs
        \/ c = p /\ EndBlob(p)
    BY DEF Terminate
  <1>6. PICK q \in {"script", "cleanup"} :
          /\ pc' = [pc EXCEPT ![p] = q] /\ q \in Places /\ (q # "script" => p # Main)
          /\ blobs' = [blobs EXCEPT ![p] = blobs'[p]] /\ blobs'[p] \in 0..NumBlobs
          /\ q = "script" => blobs'[p] >= 1
          /\ core[p] = "live"
    <2>0. core[p] = "live" /\ blobs[p] >= 1 /\ blobs[p] \in 0..NumBlobs /\ pc \in [Isolates -> Places] /\ blobs \in [Isolates -> 0..NumBlobs]
      BY <1>1 DEF IndInv, TypeOK, StateInv, Early, SetUp, Places
    <2>1. CASE pc' = pc /\ blobs' = blobs
      <3>1. pc' = [pc EXCEPT ![p] = "script"] /\ blobs' = [blobs EXCEPT ![p] = blobs'[p]] /\ "script" \in Places
        BY <2>0, <2>1, <1>1 DEF Places
      <3> QED  BY <3>1, <2>0, <2>1
    <2>2. CASE c = p /\ EndBlob(p)
      <3>1. PICK q \in {"script", "exit", "cleanup"} :
              /\ pc' = [pc EXCEPT ![p] = q] /\ q \in Places
              /\ q = "script" => blobs'[p] >= 1
              /\ q = "exit" <=> (p = Main /\ q # "script")
        BY <2>2, <1>1, EndBlobFacts
      <3>2. blobs' = [blobs EXCEPT ![p] = blobs'[p]] /\ blobs'[p] \in 0..NumBlobs
        BY <2>2, <1>1, EndBlobFacts
      <3>3. p # Main  BY <2>2, <1>1
      <3> QED  BY <3>1, <3>2, <3>3, <2>0
    <2> QED  BY <2>1, <2>2, <1>5
  <1>8. /\ pc' \in [Isolates -> Places] /\ pc'[p] = q /\ \A j \in Isolates \ {p} : pc'[j] = pc[j]
        /\ blobs' \in [Isolates -> 0..NumBlobs] /\ \A j \in Isolates \ {p} : blobs'[j] = blobs[j]
    BY <1>6 DEF IndInv, TypeOK, Places
  <1>9. TypeOK'
    <2>1. \A j \in Isolates : core'[j] = "live" <=>
             pc'[j] \in {"query", "trans", "ready", "script", "exit", "cleanup"}
      BY <1>1, <1>6, <1>8 DEF IndInv, TypeOK
    <2>2. count' \in Int /\ again' \in Nat /\ inMap' \subseteq Isolates  BY <1>2, <1>3 DEF IndInv, TypeOK
    <2> QED  BY <2>1, <2>2, <1>1, <1>2, <1>3, <1>4, <1>8 DEF IndInv, TypeOK, Places, States, WordOK
  <1>10. MainInv'
    BY <1>1, <1>2, <1>6, <1>8, IsolatesFinite, IsolateAssumption DEF IndInv, MainInv, Early, SetUp
  <1>11. StateInv'
    <2>1. ASSUME NEW j \in Isolates
          PROVE  /\ state'[j] # "ABORTED"
                 /\ state'[j] \in {"NONE", "NEW", "FAILED"} => state'[j] = state[j] /\ pc'[j] = "none"
                 /\ state'[j] \in {"TERMINATED", "EXCEPTION", "FINISHING"} => interrupted'[j]
      BY <1>1, <1>2, <1>8 DEF IndInv, StateInv
    <2>2. \A j \in Isolates : state'[j] \in {"NONE", "NEW"} => (interrupted'[j] <=> interrupted[j])
      BY <1>1, <1>2
    <2>3. \A j \in Isolates : pc'[j] \in Early \cup {"none"} => blobs'[j] >= 1
      BY <1>1, <1>6, <1>8 DEF IndInv, StateInv, Early, SetUp
    <2>4. \A j \in Isolates : state'[j] = "NEW" /\ j \in inMap => j \in inMap'
      BY <1>w
    <2> QED  BY <2>1, <2>2, <2>3, <2>4, <1>1, <1>3 DEF IndInv, StateInv
  <1>12. StartInv'
    <2> SUFFICES ASSUME NEW r \in Isolates, starting[r] # NoIsolate
                 PROVE  /\ pc'[r] = "script" /\ pc'[starting[r]] = "none"
                        /\ parent'[starting[r]] \in {r, NoIsolate}
                        /\ state'[starting[r]] = IF inShutdown THEN "TERMINATED" ELSE "NEW"
                        /\ \A t \in Isolates : starting[t] = starting[r] => t = r
      BY <1>1 DEF StartInv
    <2>1. starting[r] \in Isolates /\ r # p /\ starting[r] # p
      BY <1>1, IsolatesFinite DEF IndInv, TypeOK, StartInv
    <2>2. state[starting[r]] \in {"TERMINATED", "NEW"}  BY DEF IndInv, StartInv
    <2> QED  BY <2>1, <2>2, <1>1, <1>2, <1>3, <1>8 DEF IndInv, StartInv
  <1>13. ThreadInv'
    <2>1. pc[Main] # "end"
      BY <1>1, IsolatesFinite DEF IndInv, ThreadInv, NoCodeOutlives, Isolates
    <2>2. pc'[Main] \in {"join", "end"} => pc'[Main] = pc[Main]
      BY <1>6, <1>8, IsolatesFinite
    <2>3. pc'[Main] \notin {"join", "end"} => pc[Main] \notin {"join", "end"}
      BY <1>1, <1>6, <1>8, IsolatesFinite
    <2>4. pc'[Main] \notin {"join", "end"} => \A j \in Workers : pc'[j] \in {"none", "done"} \/ j \in threads'
      BY <2>3, <1>1, <1>6, <1>8, IsolatesFinite DEF IndInv, ThreadInv
    <2>5. pc'[Main] = "join" => \A j \in Workers :
            pc'[j] \in {"none", "done"} \/ j \in unjoined' \/ (pc'[j] = "spawned" /\ interrupted'[j])
      BY <2>2, <1>1, <1>2, <1>6, <1>8, IsolatesFinite DEF IndInv, ThreadInv
    <2> QED  BY <2>1, <2>2, <2>4, <2>5 DEF ThreadInv, NoCodeOutlives
  <1>14. ShutdownMarksAll'
    BY <1>1, <1>2, <1>3 DEF IndInv, ShutdownMarksAll, TypeOK, Over, Inactive
  <1>15. LiveInv'
    <2>1. \A j \in Isolates : state[j] \in Active => state'[j] \in Active
      BY <1>2 DEF Active
    <2>2. \A j \in Isolates : state[j] = "EXCEPTION" => state'[j] = "EXCEPTION"
      BY <1>2
    <2> QED  BY <2>1, <2>2, <1>1, <1>6, <1>8 DEF IndInv, LiveInv, SetUp
  <1>16. CountExact'
    <2>1. Counted' = Counted  BY <1>1, <1>2 DEF Counted, Active
    <2>2. pc[Main] # "killed"  BY IsolatesFinite DEF IndInv, MainInv
    <2> QED  BY <2>1, <2>2, <1>1, <1>2 DEF IndInv, CountExact, Counted
  <1> QED  BY <1>9, <1>10, <1>11, <1>12, <1>13, <1>14, <1>15, <1>16 DEF IndInv

\* requestAggregateExit: everybody in the map is marked.
LEMMA ShutdownInv ==
  ASSUME IndInv, Shutdown
  PROVE  IndInv'
  <1>1. /\ pc[Main] = "exit" /\ inShutdown' = TRUE
        /\ UNCHANGED <<again, parent, core, grace, timer, blobs, inMap, threads, unjoined, starting>>
        /\ pc' = [pc EXCEPT ![Main] = "cleanup"]
    BY DEF Shutdown, isolateVars
  <1>2. /\ pc' \in [Isolates -> Places] /\ pc'[Main] = "cleanup" /\ \A j \in Isolates \ {Main} : pc'[j] = pc[j]
    BY <1>1, IsolatesFinite DEF IndInv, TypeOK, Places
  <1>3. \A j \in Isolates :
          /\ state'[j] = state[j] \/ (state[j] \in Active /\ j \in inMap /\ state'[j] \in {"TERMINATED", "FINISHING"})
          /\ state[j] \in {"NEW", "CANSTART"} => state'[j] # "FINISHING"
          /\ interrupted[j] => interrupted'[j]
          /\ state'[j] # state[j] => interrupted'[j]
          /\ state[j] = "NONE" /\ j \notin inMap => (interrupted'[j] <=> interrupted[j])
          /\ j \in inMap => interrupted'[j] \/ state[j] \notin Active
          /\ state[j] = "NEW" /\ j \in inMap /\ ~interrupted[j] => state'[j] = "TERMINATED"
    BY DEF Shutdown, Unstarted, Unwinding, Active
  <1>4. state' \in [Isolates -> States] /\ interrupted' \in [Isolates -> BOOLEAN] /\ WordOK'
    <2>1. interrupted' \in [Isolates -> BOOLEAN]  BY DEF Shutdown
    <2>2. raised' \in [Isolates -> BOOLEAN] /\ lost' \in [Isolates -> BOOLEAN]
      BY InterruptFacts DEF Shutdown
    <2>3. state' \in [Isolates -> States]
      BY DEF Shutdown, IndInv, TypeOK, Active, Over, Inactive, States
    <2> QED  BY <2>1, <2>2, <2>3, <1>1, Before, IsolatesFinite DEF WordOK
  <1>5. count' \in Int
    <2>1. Unstarted \subseteq Isolates  BY DEF Unstarted, IndInv, TypeOK
    <2>2. Cardinality(Unstarted) \in Nat  BY <2>1, IsolatesFinite, FS_Subset, FS_CardinalityType
    <2> QED  BY <2>2 DEF Shutdown, IndInv, TypeOK
  <1>6. TypeOK'
    <2>1. inShutdown' \in BOOLEAN  BY <1>1
    <2> QED  BY <2>1, <1>1, <1>2, <1>4, <1>5 DEF IndInv, TypeOK, Places, States, WordOK
  <1>7. MainInv'  BY <1>1, <1>2, IsolatesFinite, IsolateAssumption DEF IndInv, MainInv
  <1>n. \A j \in Isolates : state'[j] # "NEW"
    BY <1>3 DEF IndInv, StateInv
  <1>8. StateInv'
    BY <1>1, <1>2, <1>3, <1>n DEF IndInv, StateInv, Early, SetUp, Active
  <1>9. StartInv'
    <2> SUFFICES ASSUME NEW r \in Isolates, starting[r] # NoIsolate
                 PROVE  /\ pc'[r] = "script" /\ pc'[starting[r]] = "none"
                        /\ parent[starting[r]] \in {r, NoIsolate}
                        /\ state'[starting[r]] = "TERMINATED"
                        /\ \A t \in Isolates : starting[t] = starting[r] => t = r
      BY <1>1 DEF StartInv
    <2>1. starting[r] \in Isolates /\ r # Main /\ starting[r] # Main
      BY <1>1, IsolatesFinite DEF IndInv, TypeOK, StartInv
    <2>2. ~inShutdown  BY <1>1 DEF IndInv, MainInv
    <2>3. state[starting[r]] = "NEW"  BY <2>2 DEF IndInv, StartInv
    <2> QED  BY <2>1, <2>3, <1>2, <1>3 DEF IndInv, StartInv, StateInv
  <1>10. ThreadInv'
    BY <1>1, <1>2, IsolatesFinite, IsolateAssumption DEF IndInv, ThreadInv, NoCodeOutlives
  <1>11. ShutdownMarksAll'
    BY <1>1, <1>3, <1>4 DEF IndInv, ShutdownMarksAll, TypeOK, StateInv, Over
  <1>12. LiveInv' /\ CountExact'  BY <1>1 DEF LiveInv, CountExact
  <1> QED  BY <1>6, <1>7, <1>8, <1>9, <1>10, <1>11, <1>12 DEF IndInv

\* waitUntilNoIsolates: the iterator has every thread still to meet.
LEMMA WaitInv ==
  ASSUME IndInv, WaitUntilNoIsolates
  PROVE  IndInv'
  <1>1. /\ pc[Main] = "wait" /\ inMap' = {} /\ pc' = [pc EXCEPT ![Main] = "join"] /\ unjoined' = threads
        /\ UNCHANGED <<state, interrupted, count, again, parent, core, blobs, raised, grace, timer, lost,
                       threads, inShutdown, starting>>
    BY DEF WaitUntilNoIsolates, stateVars, isolateVars, wordVars
  <1>2. /\ pc' \in [Isolates -> Places] /\ pc'[Main] = "join" /\ \A j \in Isolates \ {Main} : pc'[j] = pc[j]
    BY <1>1, IsolatesFinite DEF IndInv, TypeOK, Places
  <1>s. inShutdown  BY <1>1 DEF IndInv, MainInv, Early, SetUp
  <1> USE IsolatesFinite, IsolateAssumption DEF IndInv
  <1>3. TypeOK'
    <2>1. unjoined' \subseteq threads' /\ inMap' \subseteq Isolates  BY <1>1
    <2> QED  BY <2>1, <1>1, <1>2 DEF TypeOK, Places
  <1>4. MainInv'  BY <1>1, <1>2, <1>s DEF MainInv
  <1>5. StateInv'  BY <1>1, <1>2, <1>s DEF StateInv, Early, SetUp
  <1>6. StartInv'
    <2>1. \A r \in Isolates : starting[r] # NoIsolate => starting[r] \in Isolates
      BY DEF TypeOK
    <2> QED  BY <2>1, <1>1, <1>2 DEF StartInv
  <1>7. ThreadInv'
    <2>1. \A i \in Workers : pc'[i] \in {"none", "done"} \/ i \in unjoined'
      BY <1>1, <1>2 DEF ThreadInv
    <2> QED  BY <2>1, <1>2 DEF ThreadInv, NoCodeOutlives
  <1>8. ShutdownMarksAll'  BY <1>1 DEF ShutdownMarksAll
  <1>9. LiveInv' /\ CountExact'  BY <1>1, <1>s DEF LiveInv, CountExact
  <1> QED  BY <1>3, <1>4, <1>5, <1>6, <1>7, <1>8, <1>9

\* A thread is joined when it has ended.
LEMMA JoinThreadInv ==
  ASSUME IndInv, NEW i \in Workers, JoinThread(i)
  PROVE  IndInv'
  <1>1. /\ pc[i] = "done" /\ unjoined' = unjoined \ {i}
        /\ UNCHANGED <<state, interrupted, count, again, parent, core, blobs, raised, grace, timer, lost,
                       inMap, threads, inShutdown, starting, pc>>
    BY DEF JoinThread, stateVars, isolateVars, wordVars
  <1> USE DEF IndInv
  <1>2. TypeOK'
    <2>1. unjoined' \subseteq threads'  BY <1>1 DEF TypeOK
    <2> QED  BY <2>1, <1>1 DEF TypeOK
  <1>3. MainInv' /\ StateInv' /\ StartInv'  BY <1>1 DEF MainInv, StateInv, StartInv
  <1>4. ThreadInv'  BY <1>1 DEF ThreadInv, NoCodeOutlives
  <1>5. ShutdownMarksAll' /\ LiveInv'  BY <1>1 DEF ShutdownMarksAll, LiveInv
  <1>6. CountExact'  BY <1>1, CountStays
  <1> QED  BY <1>2, <1>3, <1>4, <1>5, <1>6

\* The iterator is at its end: whoever is left was not met, and has nothing to do.
LEMMA ClearThreadsInv ==
  ASSUME IndInv, ClearThreads
  PROVE  IndInv'
  <1>1. /\ pc[Main] = "join" /\ threads' = {} /\ unjoined = {} /\ unjoined' = {}
        /\ pc' = [pc EXCEPT ![Main] = "end"]
        /\ UNCHANGED <<state, interrupted, count, again, parent, core, blobs, raised, grace, timer, lost,
                       inMap, inShutdown, starting>>
    BY DEF ClearThreads, stateVars, isolateVars, wordVars
  <1>2. /\ pc' \in [Isolates -> Places] /\ pc'[Main] = "end" /\ \A j \in Isolates \ {Main} : pc'[j] = pc[j]
    BY <1>1, IsolatesFinite DEF IndInv, TypeOK, Places
  <1>s. inShutdown  BY <1>1 DEF IndInv, MainInv, Early, SetUp
  <1> USE IsolatesFinite, IsolateAssumption DEF IndInv
  <1>3. TypeOK'
    <2>1. unjoined' \subseteq threads' /\ threads' \subseteq Workers  BY <1>1
    <2> QED  BY <2>1, <1>1, <1>2 DEF TypeOK, Places
  <1>4. MainInv'  BY <1>1, <1>2, <1>s DEF MainInv
  <1>5. StateInv'  BY <1>1, <1>2, <1>s DEF StateInv, Early, SetUp
  <1>6. StartInv'
    <2>1. \A r \in Isolates : starting[r] # NoIsolate => starting[r] \in Isolates
      BY DEF TypeOK
    <2> QED  BY <2>1, <1>1, <1>2 DEF StartInv
  <1>7. ThreadInv'  BY <1>1, <1>2 DEF ThreadInv, NoCodeOutlives
  <1>8. ShutdownMarksAll'  BY <1>1 DEF ShutdownMarksAll
  <1>9. LiveInv' /\ CountExact'  BY <1>1, <1>s DEF LiveInv, CountExact
  <1> QED  BY <1>3, <1>4, <1>5, <1>6, <1>7, <1>8, <1>9

-----------------------------------------------------------------------------
\* Every step of a process that is there keeps the invariant or is its end.
LEMMA NextInv == IndInv /\ Next => IndInv' \/ Gone'
  <1> SUFFICES ASSUME IndInv, Next PROVE IndInv' \/ Gone'  OBVIOUS
  <1>1. CASE Leave  BY <1>1, ShutdownInv, WaitInv, JoinThreadInv, ClearThreadsInv DEF Leave
  <1>2. ASSUME NEW i \in Isolates, Proceed(i) PROVE IndInv' \/ Gone'
    BY <1>2, SpawnInv, RunCheckInv, GoStartingInv, InitializeInv, SetupQueryInv, SetupRunInv, DoRunQueryInv,
       FirstInterruptInv, LastInterruptInv, SetupAbortsGone, DeleteCoreInv, AfterGCDeletionInv DEF Proceed
  <1>3. ASSUME NEW i \in Isolates, Script(i) PROVE IndInv'
    BY <1>3, ScriptEndInv, ScriptThrowInv, WordClearedInv, NewIsolateInv, StartCheckInv, TerminateInv DEF Script
  <1> QED  BY <1>1, <1>2, <1>3, TimerFiresInv, SetupFailsInv DEF Next

\* When the process is gone nothing happens any more.
LEMMA GoneInv == Gone /\ Next => FALSE
  <1> SUFFICES ASSUME Gone, Next PROVE FALSE  OBVIOUS
  <1>1. pc[Main] = "killed" /\ timer = NoIsolate  BY IsolatesFinite DEF Gone
  <1>2. ~Leave /\ ~TimerFires
    BY <1>1 DEF Leave, Shutdown, WaitUntilNoIsolates, JoinThread, ClearThreads, TimerFires
  <1>3. ASSUME NEW i \in Isolates PROVE ~Proceed(i) /\ ~Script(i) /\ ~SetupFails(i)
    <2>1. pc[i] = "killed" /\ starting[i] = NoIsolate  BY DEF Gone
    <2> QED
      BY <2>1 DEF Proceed, Script, SetupFails, Scripting, Spawn, RunCheck, GoStarting, Initialize, SetupQuery,
         SetupRun, DoRunQuery, FirstInterrupt, LastInterrupt, SetupAborts, DeleteCore, AfterGCDeletion, ScriptEnd,
         ScriptThrow, WordCleared, NewIsolate, StartCheck, Terminate
  <1> QED  BY <1>2, <1>3 DEF Next

\* A stuttering step keeps either.
LEMMA StutterInv == (IndInv \/ Gone) /\ UNCHANGED vars => IndInv' \/ Gone'
  <1> SUFFICES ASSUME IndInv \/ Gone, UNCHANGED vars PROVE IndInv' \/ Gone'  OBVIOUS
  <1>1. UNCHANGED <<stateVars, isolateVars, wordVars, tableVars, pc>>  BY DEF vars
  <1>2. UNCHANGED <<state, interrupted, count, again, parent, core, blobs, raised, grace, timer, lost, inMap,
                    threads, unjoined, inShutdown, starting, pc>>
    BY <1>1 DEF stateVars, isolateVars, wordVars, tableVars
  <1>3. CASE IndInv
    <2>1. WordOK'  BY <1>2, <1>3 DEF IndInv, TypeOK, WordOK
    <2> QED  BY <2>1, <1>1, <1>3, WordStepInv
  <1>4. CASE Gone  BY <1>2, <1>4 DEF Gone, TypeOK, ShutdownMarksAll
  <1> QED  BY <1>3, <1>4

\* The inductive invariant holds for any finite set of workers and any number
\* of code blobs, until the process is gone.
THEOREM Invariance == Spec => [](IndInv \/ Gone)
  <1>1. (IndInv \/ Gone) /\ [Next]_vars => (IndInv \/ Gone)'
    BY NextInv, GoneInv, StutterInv
  <1> QED  BY <1>1, InitInv, PTL DEF Spec

\* No worker runs code when the process ends, or could: whatever was being created,
\* started or terminated when Main left, and whichever threads the iterator of the
\* cleanup met.
THEOREM NoCodeOutlivesHolds == Spec => []NoCodeOutlives
  <1>1. IndInv \/ Gone => NoCodeOutlives
    BY IsolatesFinite DEF IndInv, ThreadInv, Gone, NoCodeOutlives
  <1> QED  BY <1>1, Invariance, PTL

\* The aggregate keeps account of its isolates: the types, the count of the active ones
\* before a shutdown, the marks after it.
THEOREM AccountedHolds == Spec => []Accounted
  <1>1. IndInv => Accounted  BY DEF IndInv, Accounted
  <1>2. Gone => Accounted  BY IsolatesFinite DEF Gone, Accounted, CountExact
  <1> QED  BY <1>1, <1>2, Invariance, PTL
=============================================================================
