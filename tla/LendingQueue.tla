---------------------------- MODULE LendingQueue ----------------------------
(***************************************************************************)
(* What a ring buffer of bytes promises, without pointers or wrap-around:  *)
(* a FIFO of bounded capacity that lends its oldest bytes to the           *)
(* application, one run at a time, and counts them against the capacity    *)
(* until they are returned.                                                *)
(***************************************************************************)
EXTENDS Integers, Sequences

CONSTANT Capacity

VARIABLES
    queue,      \* bytes accepted and not handed out, oldest first
    lent,       \* bytes the application holds
    next        \* stream position of the next byte to be accepted

lqVars == <<queue, lent, next>>

LQInit ==
    /\ queue = << >>
    /\ lent = << >>
    /\ next = 0

\* n new bytes are appended, if they fit beside everything not yet returned.
Put(n) ==
    /\ Len(lent) + Len(queue) + n <= Capacity
    /\ queue' = queue \o [k \in 1 .. n |-> next + k - 1]
    /\ next' = next + n
    /\ UNCHANGED lent

\* The n oldest bytes are lent; nothing else may be on loan.
Lend(n) ==
    /\ lent = << >>
    /\ n <= Len(queue)
    /\ lent' = SubSeq(queue, 1, n)
    /\ queue' = SubSeq(queue, n + 1, Len(queue))
    /\ UNCHANGED next

TakeBack ==
    /\ lent # << >>
    /\ lent' = << >>
    /\ UNCHANGED <<queue, next>>

LQNext ==
    \/ \E n \in 1 .. Capacity : Put(n) \/ Lend(n)
    \/ TakeBack

LQSpec == LQInit /\ [][LQNext]_lqVars
=============================================================================
