------------------------------ MODULE Collector ------------------------------
(***************************************************************************)
(* What MMgc promises to the program that allocates from it, without any   *)
(* of the marking machinery: a program that only follows pointers it can   *)
(* reach never meets a freed object, and a collection takes away objects   *)
(* that cannot be reached, leaving every other object as the program       *)
(* wrote it.  GCMark and ZCT are shown to implement it.                    *)
(***************************************************************************)
EXTENDS Integers

CONSTANTS Objects,    \* the objects that can ever be allocated
          Roots,      \* the GCRoot instances
          NULL

VARIABLES alive,      \* allocated objects
          mem,        \* mem[x][i]: pointer in part i of the object or root x
          stack,      \* objects the native stack points to
          rootAlive   \* roots that are registered with the collector

Parts == 1..2
Targets(f, x) == {f[x][i] : i \in Parts} \ {NULL}

(***************************************************************************)
(* Reachable(f, S, R): the least set that holds the objects of S, what the *)
(* roots R point to, and what its own members point to in f.               *)
(***************************************************************************)
Closed(f, S, R, C) ==
    /\ S \subseteq C
    /\ \A r \in R : Targets(f, r) \subseteq C
    /\ \A o \in C : Targets(f, o) \subseteq C
Reachable(f, S, R) ==
    {o \in Objects : \A C \in SUBSET Objects : Closed(f, S, R, C) => o \in C}

Live == Reachable(mem, stack, rootAlive)

Init ==
    /\ alive = {}
    /\ mem = [x \in Objects \cup Roots |-> [i \in Parts |-> NULL]]
    /\ stack = {}
    /\ rootAlive = Roots

(***************************************************************************)
(* The program goes on with the objects it has, or gets one that was not   *)
(* allocated; it never comes to hold one that is neither.                  *)
(***************************************************************************)
Mutate ==
    /\ \E new \in SUBSET (Objects \ alive) : alive' = alive \cup new
    /\ mem' \in [Objects \cup Roots -> [Parts -> Objects \cup {NULL}]]
    /\ stack' \in SUBSET alive'
    /\ rootAlive' \in SUBSET Roots
    /\ Live' \subseteq alive'

(***************************************************************************)
(* An explicit delete of an object nothing else points to.                 *)
(***************************************************************************)
Delete ==
    \E o \in stack :
        /\ \A x \in (alive \cup rootAlive) \ {o} : o \notin Targets(mem, x)
        /\ alive' \in {alive, alive \ {o}}
        /\ stack' = stack \ {o}
        /\ mem' = [mem EXCEPT ![o] = [i \in Parts |-> NULL]]
        /\ UNCHANGED rootAlive

(***************************************************************************)
(* A collection: some objects out of reach disappear, nothing else does.   *)
(***************************************************************************)
Collect ==
    \E dead \in SUBSET (alive \ Live) :
        /\ alive' = alive \ dead
        /\ \A x \in (Objects \cup Roots) \ dead : mem'[x] = mem[x]
        /\ UNCHANGED <<stack, rootAlive>>

vars == <<alive, mem, stack, rootAlive>>
Next == Mutate \/ Delete \/ Collect
Spec == Init /\ [][Next]_vars
=============================================================================
