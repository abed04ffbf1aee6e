----------------------------- MODULE RingShared -----------------------------
(* What both IQ rings share (`Shared` in rf-sensor/src/ring.rs): a buffer   *)
(* of Capacity slots addressed by cursors that are machine words.           *)
EXTENDS Integers

CONSTANTS Capacity,  \* slots, a power of two in the code
          Word,      \* cursors count modulo Word (2^64 in the code)
          MaxBlock   \* bound of the model: longest slice pushed or asked for

ASSUME RingAssumption ==
  /\ Capacity \in Nat \ {0} /\ Word \in Nat
  /\ Capacity < Word /\ Word % Capacity = 0
  /\ MaxBlock \in Nat \ {0}

Succ(pos) == IF pos + 1 = Word THEN 0 ELSE pos + 1        \* wrapping_add(1)
Distance(a, b) == IF b <= a THEN a - b ELSE a + Word - b  \* a.wrapping_sub(b)
AtMost(a, b) == IF a <= b THEN a ELSE b                   \* a.min(b)
Slot(pos) == pos % Capacity                               \* pos & mask

EmptyBuffer == [i \in 0..(Capacity - 1) |-> 0]            \* 0: never written
=============================================================================
