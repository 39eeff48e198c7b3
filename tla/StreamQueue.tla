------------------------------ MODULE StreamQueue ------------------------------
(***************************************************************************)
(* What a stage of the command interface promises: a bounded queue of      *)
(* beats.  In a step the newest beat may enter, the oldest may leave, or   *)
(* both.                                                                   *)
(***************************************************************************)
EXTENDS Integers, Sequences

CONSTANTS Beats, Cap      \* what is queued, and how much of it

VARIABLE q

Init == q = <<>>

Put(b)     == Len(q) < Cap /\ q' = Append(q, b)
Take       == q # <<>> /\ q' = Tail(q)
TakePut(b) == q # <<>> /\ q' = Append(Tail(q), b)

Next == Take \/ \E b \in Beats : Put(b) \/ TakePut(b)

Spec == Init /\ [][Next]_q
=============================================================================
