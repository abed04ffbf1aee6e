------------------------------ MODULE Occupancy ------------------------------
(* OccupancyMap (rf-dsp/src/occupancy.rs): tiles of different resolution    *)
(* are stitched onto one grid, and the grid is pooled into a narrow row for *)
(* the waterfall.  Frequencies are whole numbers on a scale on which the    *)
(* grid starts at 0 and the bins' centers are whole, too.                   *)
EXTENDS Integers, SequencesExt

CONSTANTS Bins,      \* bins of the grid
          BinWidth,  \* their width
          Tiles,     \* frames that may come: [center, binWidth, psd]
          MaxTiles   \* bound of the model: frames accepted

ASSUME OccupancyAssumption ==
  /\ Bins \in Nat \ {0} /\ BinWidth \in Nat \ {0}
  /\ \A t \in Tiles : t.center \in Int /\ t.binWidth \in Nat \ {0} /\ t.psd \in Seq(Int)

VARIABLES grid,      \* the map's data, bins counted from 0
          accepted   \* history: the frames accepted

occupancyVars == <<grid, accepted>>

Floor == -240
OccupancyInit == grid = [g \in 0..(Bins - 1) |-> Floor] /\ accepted = <<>>

\* Center of the i-th bin of a frame, and the bin of the grid it falls into.
Freq(tile, i) ==
  tile.center - (Len(tile.psd) * tile.binWidth) \div 2 + (i - 1) * tile.binWidth + tile.binWidth \div 2
GridBinRounded(f) == (f + BinWidth \div 2) \div BinWidth
GridBin(f) == f \div BinWidth

OnGrid(f) == 0 <= f /\ f < Bins * BinWidth

\* Later bins of a frame overwrite earlier ones.
Accept(tile) ==
  LET hits(g) == {i \in DOMAIN tile.psd : OnGrid(Freq(tile, i)) /\ GridBin(Freq(tile, i)) = g}
  IN /\ Len(accepted) < MaxTiles
     /\ grid' = [g \in DOMAIN grid |-> IF hits(g) = {} THEN grid[g] ELSE tile.psd[Max(hits(g))]]
     /\ accepted' = Append(accepted, tile)

OccupancyNext == \E tile \in Tiles : Accept(tile)

OccupancySpec == OccupancyInit /\ [][OccupancyNext]_occupancyVars

\* The bins pooled into the i-th slot of a row of `width` slots.
PooledBins(i, width) ==
  LET lo == (i * Bins) \div width
  IN lo..(Min({Max({((i + 1) * Bins) \div width, lo + 1}), Bins}) - 1)

Row(width) ==
  IF width >= Bins THEN grid
  ELSE [i \in 0..(width - 1) |-> Max({grid[g] : g \in PooledBins(i, width)})]

-----------------------------------------------------------------------------
(* Properties *)

\* The bins of the grid that a slot of a row overlaps on the axis.
Under(i, width) == {g \in DOMAIN grid : i * Bins < (g + 1) * width /\ g * width < (i + 1) * Bins}

\* A row shows the peaks where they are: over every bin of the grid is a slot at
\* least as high, and each slot is as high as one of the bins under it.
RowKeepsPeaks(width) ==
  LET row == Row(width)
  IN /\ \A g \in DOMAIN grid : \E i \in DOMAIN row : g \in Under(i, width) /\ row[i] >= grid[g]
     /\ \A i \in DOMAIN row : \E g \in Under(i, width) : row[i] = grid[g]

\* A tile leaves no stale gap as wide as its own bins: of any bins of the grid in
\* a row that lie within the tile and are together no narrower than a bin of the
\* tile, one at least gets a value measured in that bin.  So every bin of the grid
\* is fresh if the tile's are no wider; a coarser tile may leave old values between
\* fresh ones.
LeavesNoHole(tile) ==
  LET low  == tile.center - (Len(tile.psd) * tile.binWidth) \div 2
      high == low + Len(tile.psd) * tile.binWidth
  IN \A g \in DOMAIN grid, k \in 1..Bins :
       (tile.binWidth <= k * BinWidth /\ low <= g * BinWidth
         /\ (g + k) * BinWidth <= high /\ g + k <= Bins) =>
         \E h \in g..(g + k - 1), i \in DOMAIN tile.psd :
           /\ grid[h] = tile.psd[i]
           /\ h * BinWidth <= Freq(tile, i) /\ Freq(tile, i) < (h + 1) * BinWidth

\* The waterfall shows what was measured: the last tile has left no old values in
\* a gap that it resolves, and no signal is lost between two slots of a row or
\* shown in a slot that is not over it.
ShowsWhatWasMeasured ==
  accepted # <<>> =>
    LeavesNoHole(Last(accepted)) /\ \A width \in 1..(Bins + 1) : RowKeepsPeaks(width)
=============================================================================
