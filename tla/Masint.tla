------------------------------- MODULE Masint -------------------------------
(* rf-masint: the baseline of a spectrum is accumulated bin by bin          *)
(* (baseline.rs), a live spectrum is compared with it (change_detect.rs),   *)
(* and peaks that are multiples of one another are grouped (harmonics.rs).  *)
(* Powers are whole dB, frequencies whole numbers of some unit; standard    *)
(* deviations are compared by their squares, ratios by their products.      *)
EXTENDS Integers, SequencesExt

CONSTANTS Spectra,     \* power per bin of a frame that may come; frames may be short
          BinCount,
          MaxFrames,   \* bound of the model: frames in the baseline
          ZThreshold,
          PeakLists,   \* lists of peak frequencies to group
          TolerancePct \* how far a harmonic may be off its place

ASSUME MasintAssumption ==
  /\ BinCount \in Nat /\ Spectra \subseteq Seq(Int) /\ PeakLists \subseteq Seq(Nat \ {0})
  /\ TolerancePct \in Nat

VARIABLES bins,        \* per bin: sum, sumSq, min, max, count
          measured,    \* history: the powers each bin has had in the baseline
          anomalies,   \* what the last comparison said: [live, bin, kind]
          peaks        \* the list of peaks to group

masintVars == <<bins, measured, anomalies, peaks>>

Unset == [sum |-> 0, sumSq |-> 0, min |-> 1000, max |-> -1000, count |-> 0]

NoBaseline ==
  /\ bins = [i \in 1..BinCount |-> Unset]
  /\ measured = [i \in 1..BinCount |-> {}]
  /\ anomalies = {}

MasintInit == NoBaseline /\ peaks \in PeakLists

IngestLastMax(b, p) ==
  [sum |-> b.sum + p, sumSq |-> b.sumSq + p * p,
   min |-> Min({b.min, p}), max |-> p, count |-> b.count + 1]
Ingest(b, p) ==
  [sum |-> b.sum + p, sumSq |-> b.sumSq + p * p,
   min |-> Min({b.min, p}), max |-> Max({b.max, p}), count |-> b.count + 1]

UpdateBaseline(powers) ==
  /\ bins[1].count < MaxFrames
  /\ bins' = [i \in 1..BinCount |-> IF i <= Len(powers) THEN Ingest(bins[i], powers[i]) ELSE bins[i]]
  /\ measured' = [i \in 1..BinCount |-> measured[i] \cup {powers[j] : j \in DOMAIN powers \cap {i}}]
  /\ anomalies' = {}
  /\ UNCHANGED peaks

\* count^2 times the variance, and count times the distance of a power from the mean.
Spread(b) == Max({b.count * b.sumSq - b.sum * b.sum, 0})
Delta(b, live) == live * b.count - b.sum

\* A bin says something when it was measured, scatters (by 0.1 dB) and the live
\* power is far enough from the mean.
Significant(b, live) ==
  /\ b.count > 0
  /\ 100 * Spread(b) >= b.count * b.count
  /\ Delta(b, live) * Delta(b, live) >= ZThreshold * ZThreshold * Spread(b)

Kind(b, live) ==
  IF live > b.max + 3 THEN "NewSignal"
  ELSE IF Delta(b, live) > 0 THEN "PowerIncrease"
  ELSE IF live < b.min - 3 THEN "SignalGone"
  ELSE "PowerDecrease"

DetectAnomalies(live) ==
  /\ anomalies' = {[live |-> live[i], bin |-> i, kind |-> Kind(bins[i], live[i])] :
                     i \in {i \in 1..Min({BinCount, Len(live)}) : Significant(bins[i], live[i])}}
  /\ UNCHANGED <<bins, measured, peaks>>

MasintNext == \E powers \in Spectra : UpdateBaseline(powers) \/ DetectAnomalies(powers)

MasintSpec == MasintInit /\ [][MasintNext]_masintVars

-----------------------------------------------------------------------------
(* find_harmonics *)

\* (fh / f0).round(), and whether that ratio is close enough to it and no less than
\* two.  The relation is not transitive: with 1 %, 4060 is a multiple of 2015 and
\* 2015 of 1000, but 4060 is not one of 1000.
Nearest(fh, f0) == (2 * fh + f0) \div (2 * f0)
IsMultipleOf(fh, f0) ==
  LET n == Nearest(fh, f0)
      off == 100 * (fh - n * f0)
      allowed == TolerancePct * n * f0
  IN n >= 2 /\ -allowed < off /\ off < allowed

\* st: [used: peaks taken, groups: [fundamental, harmonics], both by index].
GroupFromDoubles(st, i) ==
  LET harmonics == {j \in DOMAIN peaks : j # i /\ j \notin st.used /\ IsMultipleOf(peaks[j], peaks[i])
                                         /\ Nearest(peaks[j], peaks[i]) = 2}
  IN IF i \in st.used \/ harmonics = {} THEN st
     ELSE [used |-> st.used \cup harmonics \cup {i},
           groups |-> st.groups \cup {[fundamental |-> i, harmonics |-> harmonics]}]
GroupFrom(st, i) ==
  LET harmonics == {j \in DOMAIN peaks : j # i /\ j \notin st.used /\ IsMultipleOf(peaks[j], peaks[i])}
  IN IF i \in st.used \/ harmonics = {} THEN st
     ELSE [used |-> st.used \cup harmonics \cup {i},
           groups |-> st.groups \cup {[fundamental |-> i, harmonics |-> harmonics]}]

\* The rounds of the outer loop, from the first peak on.
Grouping[i \in 0..Len(peaks)] ==
  IF i = 0 THEN [used |-> {}, groups |-> {}] ELSE GroupFrom(Grouping[i - 1], i)

FindHarmonics == Grouping[Len(peaks)].groups

-----------------------------------------------------------------------------
(* Properties *)

\* An anomaly's kind tells which way the power went from the baseline's mean,
\* although it is told by the extremes first; and a power that the baseline has
\* seen is never new or gone, in whatever order its frames came.
KindFollowsBaseline ==
  \A a \in anomalies :
    /\ a.kind \in {"NewSignal", "PowerIncrease"} <=> Delta(bins[a.bin], a.live) > 0
    /\ a.kind \in {"NewSignal", "SignalGone"} => a.live \notin measured[a.bin]

\* Each peak is in one group at most, as fundamental or as harmonic.  A peak that
\* is a multiple of another one is in a group, and in an ascending list as a
\* harmonic, unless that other one is a harmonic itself: "groups where peaks are
\* related by integer multiples", but for the multiples of harmonics, which the
\* tolerance may put out of reach of the fundamental.
HarmonicsAreGroupedOnce ==
  LET Members(g) == {g.fundamental} \cup g.harmonics
      IsHarmonic(j) == \E g \in FindHarmonics : j \in g.harmonics
      ascending == \A i, j \in DOMAIN peaks : i < j => peaks[i] < peaks[j]
  IN /\ \A g, h \in FindHarmonics : g # h => Members(g) \cap Members(h) = {}
     /\ \A i, j \in DOMAIN peaks :
          (i # j /\ IsMultipleOf(peaks[j], peaks[i]) /\ ~IsHarmonic(i)) =>
            /\ \E g \in FindHarmonics : j \in Members(g)
            /\ ascending => IsHarmonic(j)
=============================================================================
