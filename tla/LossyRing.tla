----------------------------- MODULE LossyRing -----------------------------
(* LossyIqRing (rf-sensor/src/ring.rs): the producer overwrites the oldest  *)
(* unread samples and, when it has lapped the consumer, stores the          *)
(* consumer's cursor itself.  So that cursor has two writers, which may     *)
(* store it between any two accesses of the other, and a slot may be        *)
(* written while it is read.  The samples are the numbers 1, 2, ... in the  *)
(* order they are pushed; MaxPushed < Word, so that a lag is never taken    *)
(* for another (the wrapping of cursors is LosslessRing's subject).         *)
EXTENDS RingShared, Sequences

CONSTANTS MaxPushed,  \* bound of the model: samples ever pushed
          MaxPopped   \* bound of the model: no pop begins after this many copied samples

ASSUME PushedAssumption == MaxPushed \in Nat /\ MaxPushed < Word

VARIABLES lossyBuf, lossyWrite, lossyRead,
          pusher,     \* push in progress: step, own cursor, samples to copy, the clamp it will store
          popper,     \* pop in progress: step, the two cursors it loaded, own cursor, samples to copy
          popped,     \* history: all samples copied by pops
          behind,     \* history: a push found more unread samples than fit with its own
          overlapped, \* history: some push ran during some pop
          undone,     \* the last store to lossyRead took back what a clamp had moved
          crossed     \* a pop took its cursors for crossed, and no push has put that right since

lossyVars ==
  <<lossyBuf, lossyWrite, lossyRead, pusher, popper, popped, behind, overlapped, undone, crossed>>

Torn == -1  \* half of one sample and half of another: what a racing read may see

LossyInit ==
  /\ lossyBuf = EmptyBuffer /\ lossyWrite = 0 /\ lossyRead = 0
  /\ pusher = [step |-> "idle", write |-> 0, left |-> 0, clamp |-> 0]
  /\ popper = [step |-> "idle", write |-> 0, from |-> 0, read |-> 0, left |-> 0]
  /\ popped = <<>>
  /\ behind = FALSE /\ overlapped = FALSE /\ undone = FALSE /\ crossed = FALSE

-----------------------------------------------------------------------------
(* push *)

LossyPushBegin(n) ==
  /\ pusher.step = "idle"
  /\ lossyWrite + n <= MaxPushed
  /\ pusher' = [pusher EXCEPT !.step = "copy", !.write = lossyWrite, !.left = n]
  /\ behind' = (behind \/ Distance(lossyWrite, lossyRead) + n > Capacity)
  /\ overlapped' = (overlapped \/ popper.step # "idle")
  /\ UNCHANGED <<lossyBuf, lossyWrite, lossyRead, popper, popped, undone, crossed>>

LossyPushSample ==
  /\ pusher.step = "copy" /\ pusher.left > 0
  /\ lossyBuf' = [lossyBuf EXCEPT ![Slot(pusher.write)] = pusher.write + 1]
  /\ pusher' = [pusher EXCEPT !.write = Succ(@), !.left = @ - 1]
  /\ UNCHANGED <<lossyWrite, lossyRead, popper, popped, behind, overlapped, undone, crossed>>

LossyPushPublish ==
  /\ pusher.step = "copy" /\ pusher.left = 0
  /\ lossyWrite' = pusher.write
  /\ pusher' = [pusher EXCEPT !.step = "check"]
  /\ UNCHANGED <<lossyBuf, lossyRead, popper, popped, behind, overlapped, undone, crossed>>

\* The consumer's cursor is loaded here, and overwritten a step later.
LossyPushCheckFull ==
  /\ pusher.step = "check"
  /\ pusher' = IF Distance(lossyWrite, lossyRead) >= Capacity
               THEN [pusher EXCEPT !.step = "clamp", !.clamp = Distance(lossyWrite, Capacity)]
               ELSE [pusher EXCEPT !.step = "idle"]
  /\ undone' = (undone /\ Distance(lossyWrite, lossyRead) > Capacity)
  /\ crossed' = (crossed /\ (popper.step = "copy" \/ Distance(lossyWrite, lossyRead) > Capacity))
  /\ UNCHANGED <<lossyBuf, lossyWrite, lossyRead, popper, popped, behind, overlapped>>
LossyPushCheckNever ==
  /\ pusher.step = "check"
  /\ pusher' = [pusher EXCEPT !.step = "idle"]
  /\ undone' = (undone /\ Distance(lossyWrite, lossyRead) > Capacity)
  /\ crossed' = (crossed /\ (popper.step = "copy" \/ Distance(lossyWrite, lossyRead) > Capacity))
  /\ UNCHANGED <<lossyBuf, lossyWrite, lossyRead, popper, popped, behind, overlapped>>
LossyPushCheck ==
  /\ pusher.step = "check"
  /\ pusher' = IF Distance(lossyWrite, lossyRead) > Capacity
               THEN [pusher EXCEPT !.step = "clamp", !.clamp = Distance(lossyWrite, Capacity)]
               ELSE [pusher EXCEPT !.step = "idle"]
  /\ undone' = (undone /\ Distance(lossyWrite, lossyRead) > Capacity)
  /\ crossed' = (crossed /\ (popper.step = "copy" \/ Distance(lossyWrite, lossyRead) > Capacity))
  /\ UNCHANGED <<lossyBuf, lossyWrite, lossyRead, popper, popped, behind, overlapped>>

LossyPushClamp ==
  /\ pusher.step = "clamp"
  /\ lossyRead' = pusher.clamp
  /\ undone' = FALSE /\ crossed' = (crossed /\ popper.step = "copy")
  /\ pusher' = [pusher EXCEPT !.step = "idle"]
  /\ UNCHANGED <<lossyBuf, lossyWrite, popper, popped, behind, overlapped>>

-----------------------------------------------------------------------------
(* pop *)

\* The two cursors are loaded one after the other, and a push may store the
\* second in between.
LossyPopBegin ==
  /\ popper.step = "idle" /\ Len(popped) < MaxPopped
  /\ popper' = [popper EXCEPT !.step = "loaded", !.write = lossyWrite]
  /\ overlapped' = (overlapped \/ pusher.step # "idle")
  /\ UNCHANGED <<lossyBuf, lossyWrite, lossyRead, pusher, popped, behind, undone, crossed>>

LossyPopCount(n) ==
  /\ popper.step = "loaded"
  /\ popper' = [popper EXCEPT !.step = "copy", !.read = lossyRead, !.from = lossyRead,
                              !.left = AtMost(Distance(popper.write, lossyRead), n)]
  /\ crossed' = (crossed \/ popper.write < lossyRead)
  /\ UNCHANGED <<lossyBuf, lossyWrite, lossyRead, pusher, popped, behind, overlapped, undone>>

\* The slot's content, or a mixture if the producer is about to write it.
Readable(slot) ==
  {lossyBuf[slot]} \cup
    {Torn : w \in {w \in {pusher.write} : pusher.step = "copy" /\ pusher.left > 0 /\ Slot(w) = slot}}

LossyPopSample ==
  /\ popper.step = "copy" /\ popper.left > 0
  /\ \E v \in Readable(Slot(popper.read)) : popped' = Append(popped, v)
  /\ popper' = [popper EXCEPT !.read = Succ(@), !.left = @ - 1]
  /\ UNCHANGED <<lossyBuf, lossyWrite, lossyRead, pusher, behind, overlapped, undone, crossed>>

LossyPopPublish ==
  /\ popper.step = "copy" /\ popper.left = 0
  /\ undone' = (undone \/ lossyRead # popper.from)
  /\ lossyRead' = popper.read
  /\ popper' = [popper EXCEPT !.step = "idle"]
  /\ UNCHANGED <<lossyBuf, lossyWrite, pusher, popped, behind, overlapped, crossed>>

LossyNext ==
  \/ \E n \in 1..MaxBlock : LossyPushBegin(n) \/ LossyPopCount(n)
  \/ LossyPushSample \/ LossyPushPublish \/ LossyPushCheck \/ LossyPushClamp
  \/ LossyPopBegin \/ LossyPopSample \/ LossyPopPublish

LossySpec == LossyInit /\ [][LossyNext]_lossyVars

-----------------------------------------------------------------------------
(* Properties *)

\* As long as the consumer keeps up, the lossy ring loses, repeats and reorders
\* nothing, however pushes and pops interleave.  A consumer that fell behind skips
\* samples ("recent samples"), but gets them in order and without repeats if no
\* pop runs during a push.
PopsInOrder ==
  /\ ~behind => popped = [i \in 1..Len(popped) |-> i]
  /\ ~overlapped => \A i \in 1..(Len(popped) - 1) : popped[i] < popped[i + 1]

\* The consumer's cursor does not pass the producer's, so that the difference
\* taken by `pop` and `available` does not become huge, and between pushes at most
\* Capacity samples are available, with two exceptions.  A pop that ran during a
\* push may have put back the cursor the push had moved.  And a push that moved it
\* between the two loads of a pop makes that pop copy what it was not given and
\* leave its cursor anywhere, until a push ends while no pop copies.
LagFits ==
  ~crossed =>
    /\ lossyRead <= lossyWrite
    /\ popper.step = "copy" => popper.read + popper.left <= lossyWrite
    /\ (pusher.step = "idle" /\ ~undone) => Distance(lossyWrite, lossyRead) <= Capacity
=============================================================================
