-------------------------------- MODULE Fold --------------------------------
(***************************************************************************)
(* How long a prefix a request can be served (bitmap_ops/fold.py and the   *)
(* kernels in csrc/lmcache_native/fold.cpp), and the load plan made of it  *)
(* (prefetch_policy.py).                                                   *)
(*                                                                         *)
(* A request is a grid: a row per object group and rank, a column per      *)
(* chunk.  A Bitmap2D is the set of its cells <<row, chunk>>, rows from 1  *)
(* and chunks from 0.  W[row] is the row's window: a prefix of L chunks    *)
(* needs the row's last min(W[row], L) chunks, or all of them if           *)
(* W[row] <= 0 (full attention).                                           *)
(***************************************************************************)
EXTENDS Integers, Sequences, FiniteSetsExt, Functions

Grid(W, n) == (DOMAIN W) \X (0 .. n - 1)

----------------------------------------------------------------------------
\* The kernels

\* run: the present chunks of a row that end at a chunk without a gap.
RunOf(row, cells, n) ==
    LET run[j \in 0 .. n - 1] ==
            IF <<row, j>> \notin cells THEN 0 ELSE IF j = 0 THEN 1 ELSE run[j - 1] + 1
    IN run

EffectiveWindow(w, n) == IF w <= 0 THEN n ELSE w

\* Mutation: the window is not cut at the start of the prefix.
FoldGroupedMutant(cells, W, n) ==
    {j \in 0 .. n - 1 : \A row \in DOMAIN W :
        RunOf(row, cells, n)[j] >= EffectiveWindow(W[row], n)}

\* fold_grouped: bit j is set iff every row can serve the first j + 1 chunks.
FoldGrouped(cells, W, n) ==
    {j \in 0 .. n - 1 : \A row \in DOMAIN W :
        RunOf(row, cells, n)[j] >= Min({EffectiveWindow(W[row], n), j + 1})}

\* highest_set_bit: -1 for the empty bitmap.
HighestSetBit(bits) == IF bits = {} THEN -1 ELSE Max(bits)

\* Mutation: ranks and groups are swapped in the layout.
FoldFlatMutant(found, n, ranks, W) ==
    LET stride == Len(W) * ranks
        present == {c \in Grid(W, n) : \A r \in 0 .. ranks - 1 :
                       c[2] * Len(W) + (c[1] - 1) + r * n \in found}
    IN FoldGrouped(present, W, n)

\* fold: the flat, chunk-major layout with a bit per (chunk, group, rank).
FoldFlat(found, n, ranks, W) ==
    LET stride == Len(W) * ranks
        present == {c \in Grid(W, n) : \A r \in 0 .. ranks - 1 :
                       c[2] * stride + (c[1] - 1) * ranks + r \in found}
    IN FoldGrouped(present, W, n)

\* unfold_range: the chunks a row needs to serve a prefix of hit chunks.
UnfoldRange(hit, w) ==
    IF hit <= 0 THEN {} ELSE (IF w <= 0 THEN 0 ELSE Max({0, hit - w})) .. hit - 1

\* unfold_grouped
UnfoldGrouped(hit, W, n) ==
    {c \in Grid(W, n) : c[2] \in UnfoldRange(Min({hit, n}), W[c[1]])}

HitLength(cells, W, n) == HighestSetBit(FoldGrouped(cells, W, n)) + 1

\* fold_unfold_grouped: the cells to retain.
Retain(cells, W, n) == UnfoldGrouped(HitLength(cells, W, n), W, n)

\* all_grouped: the columns that every row has.
WholeColumns(cells, W, n) == {c \in Grid(W, n) : \A row \in DOMAIN W : <<row, c[2]>> \in cells}

----------------------------------------------------------------------------
\* DefaultPrefetchPolicy.  A MapState is a function from tier indices to cells.

Merge(map) == UNION {map[i] : i \in DOMAIN map}

\* Mutation: a cell that two tiers hold is planned from both.
PlanTierMutant(needed, locked, indices) ==
    [i \in indices \cap DOMAIN locked |-> needed \cap locked[i]]

\* _plan_tier: each needed cell from the lowest index that holds it; an index
\* that contributes no cell is left out.
PlanTier(needed, locked, indices) ==
    LET from == indices \cap DOMAIN locked
        local == [i \in from |->
                    (needed \cap locked[i]) \ UNION {locked[j] : j \in {h \in from : h < i}}]
    IN Restrict(local, {i \in from : local[i] # {}})

\* plan_load: l1 and l2 are what is locked in each tier.  Cells are planned from
\* the active adapters only, but those of the others count as found.
PlanLoad(l1, l2, active, W, n, policy) ==
    LET found  == Merge(l1) \cup Merge(l2)
        needed == IF policy = "full"
                  THEN IF \E row \in DOMAIN W : W[row] > 0 THEN {} ELSE found
                  ELSE Retain(found, W, n) \cap found
    IN [l1 |-> PlanTier(needed, l1, DOMAIN l1),
        l2 |-> PlanTier(needed \ Merge(l1), l2, active)]

\* Mutation: every locked cell is reported.
HitCellsMutant(locked, W, n, policy) == locked

\* _finish_request: the cells reported as hits, of those locked in L1.
HitCells(locked, W, n, policy) ==
    IF policy = "full" THEN WholeColumns(locked, W, n) ELSE Retain(locked, W, n) \cap locked
=============================================================================
