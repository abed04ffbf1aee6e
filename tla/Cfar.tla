-------------------------------- MODULE Cfar --------------------------------
(* detect and merge_adjacent (rf-dsp/src/cfar.rs) on one power spectrum: a  *)
(* bin is flagged when it exceeds the mean of its training cells, flagged   *)
(* bins are grouped across gaps of up to two bins, a group becomes a band   *)
(* around its power-weighted centroid, and bands are merged.  Powers are    *)
(* whole numbers; frequencies are counted in 1/Scale of a bin (rounded, as  *)
(* the code's floats are), with the lower edge of the tile at 0.            *)
EXTENDS Integers, SequencesExt

CONSTANTS Frames,    \* spectra to look at: sequences of powers
          NumTrain, NumGuard,
          Alpha,     \* threshold over the mean (from pfa in the code)
          MinSnr,    \* a power ratio
          MergeGap,  \* in bins
          Scale

ASSUME CfarAssumption ==
  /\ Frames \subseteq Seq(Nat \ {0})
  /\ NumTrain \in Nat \ {0} /\ NumGuard \in Nat /\ MergeGap \in Int /\ Scale \in Nat \ {0}

VARIABLES frame, detections,
          detected    \* the frame has been processed

cfarVars == <<frame, detections, detected>>

\* Bins are counted from 1; those nearer than Window to an edge are not tested.
Window == NumTrain + NumGuard
Tested(psd) == (Window + 1)..(Len(psd) - Window)

\* 2 * NumTrain times the noise estimate of a bin.
Training(psd, i) ==
  LET cells == {i - NumGuard - k : k \in 1..NumTrain} \cup {i + NumGuard + k : k \in 1..NumTrain}
  IN FoldFunctionOnSet(+, 0, psd, cells)

Flagged(psd) ==
  {i \in Tested(psd) : psd[i] * 2 * NumTrain > Training(psd, i) * Alpha}

\* The end of the group that starts at bin i: the inner loop, which a gap of more
\* than two bins ends.
GroupEndKeepGap(psd, i) ==
  LET scan[j \in i..(Len(psd) - Window)] ==
        IF j = i THEN [end |-> i, gap |-> 0]
        ELSE LET before == scan[j - 1] IN
             IF before.gap > 2 THEN before
             ELSE IF j \in Flagged(psd) THEN [end |-> j, gap |-> before.gap]
             ELSE [end |-> before.end, gap |-> before.gap + 1]
  IN scan[Len(psd) - Window].end
GroupEnd(psd, i) ==
  LET scan[j \in i..(Len(psd) - Window)] ==
        IF j = i THEN [end |-> i, gap |-> 0]
        ELSE LET before == scan[j - 1] IN
             IF before.gap > 2 THEN before
             ELSE IF j \in Flagged(psd) THEN [end |-> j, gap |-> 0]
             ELSE [end |-> before.end, gap |-> before.gap + 1]
  IN scan[Len(psd) - Window].end

\* A round of the outer loop looks at one bin, or takes the group that starts there.
ScanRound(psd, st) ==
  IF st.at \notin Tested(psd) THEN st
  ELSE IF st.at \notin Flagged(psd) THEN [at |-> st.at + 1, found |-> st.found]
  ELSE LET end == GroupEnd(psd, st.at)
       IN [at |-> end + 1, found |-> Append(st.found, [start |-> st.at, end |-> end])]

Groups(psd) ==
  LET scan[n \in 0..Len(psd)] ==
        IF n = 0 THEN [at |-> Window + 1, found |-> <<>>] ELSE ScanRound(psd, scan[n - 1])
  IN scan[Len(psd)].found

\* The sums of f from the start of a group up to each of its bins.
Sums(f, g) ==
  LET upTo[k \in (g.start - 1)..g.end] == IF k < g.start THEN 0 ELSE upTo[k - 1] + f[k]
  IN upTo

Energy(psd, g) == Sums(psd, g)[g.end]

\* obw_99: the first bins up to which 0.5 % and 99.5 % of the energy have come.
Obw99(psd, g) ==
  LET reached(part) == {k \in g.start..g.end : Sums(psd, g)[k] * 1000 >= Energy(psd, g) * part}
  IN [lo |-> Min(reached(5)), hi |-> Min(reached(995))]

\* Twice the power-weighted sum of the places of a group's bins.
Moment(psd, g) == Sums([k \in g.start..g.end |-> psd[k] * (2 * k - 1)], g)[g.end]

\* The band of a group: as wide as its occupied bandwidth, around its centroid.
BandOf(psd, g) ==
  LET centroid == (Moment(psd, g) * Scale) \div (2 * Energy(psd, g))
      width    == (Obw99(psd, g).hi - Obw99(psd, g).lo + 1) * Scale
  IN [lo |-> centroid - width \div 2, hi |-> centroid + width \div 2]

\* The strongest bin of a group (the last of equals) decides whether it counts.
StrongEnough(psd, g) ==
  LET peak == Max({k \in g.start..g.end : \A l \in g.start..g.end : psd[l] <= psd[k]})
  IN psd[peak] * 2 * NumTrain >= MinSnr * Training(psd, peak)

Center(b) == b.lo + b.hi  \* twice the center

MergeIntoNewest(out, b) ==
  IF out # <<>> /\ b.lo - out[Len(out)].hi <= MergeGap * Scale
  THEN [out EXCEPT ![Len(out)] = [lo |-> @.lo, hi |-> b.hi]]
  ELSE Append(out, b)
MergeInto(out, b) ==
  IF out # <<>> /\ b.lo - out[Len(out)].hi <= MergeGap * Scale
  THEN [out EXCEPT ![Len(out)] = [lo |-> Min({@.lo, b.lo}), hi |-> Max({@.hi, b.hi})]]
  ELSE Append(out, b)

\* Stable: bands with the same center stay in their order.
ByCenter(bands) ==
  LET before(i) == {j \in DOMAIN bands :
                      \/ Center(bands[j]) < Center(bands[i])
                      \/ /\ Center(bands[j]) = Center(bands[i])
                         /\ j < i}
  IN [r \in DOMAIN bands |-> bands[CHOOSE i \in DOMAIN bands : Cardinality(before(i)) = r - 1]]

\* merge_adjacent: the bands are merged one by one in the order of their centers.
MergeAdjacent(bands) ==
  LET merged[n \in 0..Len(bands)] ==
        IF n = 0 THEN <<>> ELSE MergeInto(merged[n - 1], ByCenter(bands)[n])
  IN IF MergeGap <= 0 THEN bands ELSE merged[Len(bands)]

\* The bands of the groups that are strong enough.
GroupBands(psd) ==
  LET groups == Groups(psd)
      kept[n \in 0..Len(groups)] ==
        IF n = 0 THEN <<>>
        ELSE IF StrongEnough(psd, groups[n]) THEN Append(kept[n - 1], BandOf(psd, groups[n]))
        ELSE kept[n - 1]
  IN kept[Len(groups)]

NotDetected == detections = <<>> /\ detected = FALSE

CfarInit == frame \in Frames /\ NotDetected

Detect ==
  /\ ~detected /\ detected' = TRUE
  /\ detections' = IF Len(frame) < 2 * Window + 1 THEN <<>> ELSE MergeAdjacent(GroupBands(frame))
  /\ UNCHANGED frame

CfarSpec == CfarInit /\ [][Detect]_cfarVars

-----------------------------------------------------------------------------
(* Properties *)

\* The scan finds the groups as they are defined: every flagged bin is in one
\* group, groups are three or more unflagged bins apart, and inside a group there
\* are never three in a row.
GroupsAreExact ==
  LET flagged == Flagged(frame)
      found   == Groups(frame)
  IN detected =>
     /\ flagged = UNION {flagged \cap (found[i].start..found[i].end) : i \in DOMAIN found}
     /\ \A i \in DOMAIN found :
          /\ {found[i].start, found[i].end} \subseteq flagged
          /\ \A k \in found[i].start..(found[i].end - 2) : flagged \cap (k..(k + 2)) # {}
          /\ i > 1 => found[i].start - found[i - 1].end > 3

\* Merging loses no spectrum: the band of every group lies within one detection.
\* "Merge detections whose band edges are within this gap": what is reported is
\* further apart, as long as no band begins below one with a lower center.  (A
\* wide lopsided band may: it is merged with the last one only, and then comes
\* within the gap of the one before.)
MergingIsSound ==
  LET bands == GroupBands(frame)
  IN detected =>
     /\ \A i \in DOMAIN bands : \E n \in DOMAIN detections :
          detections[n].lo <= bands[i].lo /\ bands[i].hi <= detections[n].hi
     /\ /\ MergeGap > 0
        /\ \A i, j \in DOMAIN bands : Center(bands[i]) < Center(bands[j]) => bands[i].lo <= bands[j].lo
        => \A m, n \in DOMAIN detections :
             m < n => detections[n].lo - detections[m].hi > MergeGap * Scale
=============================================================================
