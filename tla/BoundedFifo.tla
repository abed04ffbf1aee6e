---------------------------- MODULE BoundedFifo ----------------------------
(* What a lossless sample collector promises: samples enter at one end, in  *)
(* the order they were offered, whole blocks at a time; they leave at the   *)
(* other end unchanged and in order; at most Capacity are inside, and a     *)
(* sample once inside is never lost.  It has no cursors, no threads and no  *)
(* buffer: LosslessRing is checked to implement it.                         *)
EXTENDS Integers, Sequences

CONSTANTS Capacity,  \* samples the collector holds
          MaxOffered \* bound of the model: samples ever offered

VARIABLES queue,     \* samples inside, oldest first
          taken      \* all samples handed out so far

fifoVars == <<queue, taken>>

\* The samples are the numbers 1, 2, ... in the order they are offered.
FifoInit == queue = <<>> /\ taken = <<>>

Youngest == IF queue # <<>> THEN queue[Len(queue)]
            ELSE IF taken # <<>> THEN taken[Len(taken)] ELSE 0

\* A block enters: consecutive samples younger than all before them.  The gap
\* in front of `first` is what was refused.
Enter(first, n) ==
  /\ first > Youngest
  /\ Len(queue) + n <= Capacity
  /\ queue' = queue \o [i \in 1..n |-> first + i - 1]
  /\ UNCHANGED taken

Leave(n) ==
  /\ n <= Len(queue)
  /\ taken' = taken \o SubSeq(queue, 1, n)
  /\ queue' = SubSeq(queue, n + 1, Len(queue))

FifoNext == \/ \E first \in 1..MaxOffered, n \in 1..Capacity : Enter(first, n)
            \/ \E n \in 1..Capacity : Leave(n)

FifoSpec == FifoInit /\ [][FifoNext]_fifoVars
=============================================================================
