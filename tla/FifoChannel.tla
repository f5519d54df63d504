----------------------------- MODULE FifoChannel -----------------------------
(***************************************************************************)
(* What a channel of src/src/core/Channels.h promises its two users: items *)
(* come out once each and in the order in which they went in, whatever the *)
(* channel does about being full, empty or closed.                         *)
(***************************************************************************)
EXTENDS Naturals, Sequences

VARIABLES
    puts,     \* how many items went in; they are numbered in that order
    queue,    \* the items in the channel
    got,      \* the items that came out
    closed    \* close() was called

vars == <<puts, queue, got, closed>>

Init == puts = 0 /\ queue = <<>> /\ got = <<>> /\ closed = FALSE

Put ==
    /\ puts' = puts + 1
    /\ queue' = Append(queue, puts + 1)
    /\ UNCHANGED <<got, closed>>

Get ==
    /\ queue # <<>>
    /\ got' = Append(got, Head(queue))
    /\ queue' = Tail(queue)
    /\ UNCHANGED <<puts, closed>>

Close ==
    /\ closed' = TRUE
    /\ UNCHANGED <<puts, queue, got>>

Next == Put \/ Get \/ Close

Spec == Init /\ [][Next]_vars
=============================================================================
