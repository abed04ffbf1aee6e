----------------------------- MODULE PulseTrain -----------------------------
(* PulseDetector::feed (rf-elint/src/pulse_detect.rs): pulses are cut out   *)
(* of a sample stream that arrives in slices, so that the detector's state  *)
(* carries an open pulse, the running sample count and the previous arrival *)
(* from one call to the next.  A sample is its power; times are counted in  *)
(* samples.                                                                 *)
EXTENDS Integers, SequencesExt

CONSTANTS Powers,      \* powers a sample may have
          Threshold,
          MaxSlice,    \* bound of the model: longest slice
          MaxSamples   \* bound of the model: samples fed

ASSUME PowersAssumption == Powers \subseteq Int /\ Threshold \in Int

VARIABLES detector,    \* inPulse, pulseStart, sampleCount, prevToa
          pdws,        \* all pulse descriptor words returned so far
          stream       \* history: all samples fed

pulseVars == <<detector, pdws, stream>>

NoToa == 0  \* arrivals count from 1

PulseInit ==
  /\ detector = [inPulse |-> FALSE, pulseStart |-> 0, sampleCount |-> 0, prevToa |-> NoToa]
  /\ pdws = <<>> /\ stream = <<>>

Pri(toa, prev) == IF prev = NoToa THEN NoToa ELSE toa - prev

\* One round of the loop; st is [d: detector, out: words of this call].
Sample(st, power) ==
  LET d == [st.d EXCEPT !.sampleCount = @ + 1]
  IN IF ~d.inPulse /\ power >= Threshold
     THEN [st EXCEPT !.d = [d EXCEPT !.inPulse = TRUE, !.pulseStart = d.sampleCount]]
     ELSE IF d.inPulse /\ power < Threshold
     THEN [d |-> [d EXCEPT !.inPulse = FALSE, !.prevToa = d.pulseStart],
           out |-> Append(st.out, [toa |-> d.pulseStart, pw |-> d.sampleCount - d.pulseStart,
                                   pri |-> Pri(d.pulseStart, d.prevToa)])]
     ELSE [st EXCEPT !.d = d]

\* The loop of one call.
Fed(st, samples) ==
  LET after[i \in 0..Len(samples)] == IF i = 0 THEN st ELSE Sample(after[i - 1], samples[i])
  IN after[Len(samples)]

FeedAnew(samples) ==
  LET end == Fed([d |-> [detector EXCEPT !.inPulse = FALSE], out |-> <<>>], samples)
  IN /\ Len(stream) + Len(samples) <= MaxSamples
     /\ detector' = end.d
     /\ pdws' = pdws \o end.out
     /\ stream' = stream \o samples
Feed(samples) ==
  LET end == Fed([d |-> detector, out |-> <<>>], samples)
  IN /\ Len(stream) + Len(samples) <= MaxSamples
     /\ detector' = end.d
     /\ pdws' = pdws \o end.out
     /\ stream' = stream \o samples

PulseNext == \E n \in 1..MaxSlice : \E samples \in [1..n -> Powers] : Feed(samples)

PulseSpec == PulseInit /\ [][PulseNext]_pulseVars

-----------------------------------------------------------------------------
(* Properties *)

Above(i) == i \in DOMAIN stream /\ stream[i] >= Threshold
Rises == {i \in DOMAIN stream : Above(i) /\ ~Above(i - 1)}
FallAfter(i) == {j \in DOMAIN stream : j > i /\ ~Above(j) /\ \A k \in i..(j - 1) : Above(k)}

\* However the stream was sliced, each pulse that has risen and fallen is described
\* once, in order, with its own arrival and width and the distance to the one
\* before; none is cut in two where a slice ends.
PulsesSurviveSlicing ==
  /\ \A i \in Rises : FallAfter(i) # {} => \E n \in DOMAIN pdws : pdws[n].toa = i
  /\ \A n \in DOMAIN pdws :
       LET pdw == pdws[n] IN
         /\ pdw.toa \in Rises /\ pdw.toa + pdw.pw \in FallAfter(pdw.toa)
         /\ pdw.pri = IF n = 1 THEN NoToa ELSE pdw.toa - pdws[n - 1].toa
         /\ n > 1 => pdws[n - 1].toa < pdw.toa
=============================================================================
