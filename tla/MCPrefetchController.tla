----------------------- MODULE MCPrefetchController -----------------------
(***************************************************************************)
(* Instances of PrefetchController: two requests for the same keys.  The   *)
(* fold it plans with is compared with what the docstring of fold.py       *)
(* defines, for every request of up to MaxRows rows and MaxChunks chunks,  *)
(* every window and every lookup result of L1 and of two adapters, the     *)
(* second of which has everything or nothing.                              *)
(***************************************************************************)
EXTENDS PrefetchController, TLC

CONSTANTS MaxRows, MaxChunks, WindowSizes

Windows == UNION {[1 .. r -> WindowSizes] : r \in 1 .. MaxRows}

\* Row r can serve L chunks: the last min(w, L) of them, or all, are present.
CanServe(row, cells, L, W) ==
    \A j \in 0 .. L - 1 : (W[row] <= 0 \/ j >= L - W[row]) => <<row, j>> \in cells

LongestServable(cells, W, n) ==
    Max({L \in 0 .. n : \A row \in DOMAIN W : CanServe(row, cells, L, W)})

\* fold on a flat bitmap with two ranks per group is fold_grouped with a row for
\* every rank.
FlatAgrees(cells, W, n) ==
    Len(W) = 2 /\ W[1] = W[2] =>
        LET flat == {c[2] * 2 + c[1] - 1 : c \in cells} IN
        FoldFlat(flat, n, 2, <<W[1]>>) = FoldGrouped(cells, W, n)

\* The hit length is the longest prefix every row can serve, and the two layouts
\* agree on it (fold, fold_grouped, highest_set_bit).
FoldIsExact ==
    \A W \in Windows, n \in 1 .. MaxChunks : \A cells \in SUBSET Grid(W, n) :
        /\ HitLength(cells, W, n) = LongestServable(cells, W, n)
        /\ FlatAgrees(cells, W, n)

\* A plan takes each cell from one tier that has it locked, never from L2 when
\* L1 has it, and serves as long a prefix as everything found would.
Sound(plan, l1, l2, W, n, policy) ==
    LET found == Merge(l1) \cup Merge(l2) IN
    /\ \A i \in DOMAIN plan.l1 : plan.l1[i] \subseteq l1[i]
    /\ \A i \in DOMAIN plan.l2 : plan.l2[i] \subseteq l2[i] \ Merge(l1)
    /\ \A i, j \in DOMAIN plan.l2 : i # j => plan.l2[i] \cap plan.l2[j] = {}
    /\ policy = "prefix" =>
         HitLength(Merge(plan.l1) \cup Merge(plan.l2), W, n) = HitLength(found, W, n)

\* The cells reported as hits are servable as they are: under "prefix" they
\* serve the whole hit, under "full" they are whole columns.
Servable(hits, W, n, policy) ==
    hits = IF policy = "full" THEN WholeColumns(hits, W, n) ELSE Retain(hits, W, n)

\* plan_load makes a sound plan of any lookup results, and whichever one of its
\* loads fails, what _finish_request then reports is servable.
PlansAreSound ==
    \A W \in Windows, n \in 1 .. MaxChunks, policy \in {"prefix", "full"} :
        \A S1, S2 \in SUBSET Grid(W, n), S3 \in {{}, Grid(W, n)} :
            LET l1 == [i \in {0} |-> S1]
                l2 == [i \in {0, 1} |-> IF i = 0 THEN S2 ELSE S3]
                plan == PlanLoad(l1, l2, {0, 1}, W, n, policy)
                loads == Merge(plan.l2)
            IN /\ Sound(plan, l1, l2, W, n, policy)
               /\ \A ok \in {loads \ {c} : c \in loads} \cup {loads} :
                     Servable(HitCells(Merge(plan.l1) \cup ok, W, n, policy), W, n, policy)

----------------------------------------------------------------------------
\* The controller

TwoKeys == {<<1, 0>>, <<1, 1>>}
OneKey == {<<1, 0>>}

\* The hit length is the longest prefix every row can serve, for any grid (fold,
\* fold_grouped, highest_set_bit); and what the controller publishes for a
\* request is exactly the cells that its longest servable prefix needs, after
\* failed loads and evictions too (_finish_request).
HitIsLongest ==
    /\ FoldIsExact
    /\ \A r \in Requests :
          LET hit == LongestServable(result[r], <<Window>>, Chunks) IN
          result[r] = UnfoldGrouped(hit, <<Window>>, Chunks)

\* plan_load makes a sound plan of any lookup results; and of the plans the
\* controller makes and trims after a partial reservation, no two loads of one
\* request fill the same cell, and none a cell it has read-locked in L1
\* (_transition_to_load_phase).
PlanIsSound ==
    /\ PlansAreSound
    /\ \A r \in InFlight : \A a \in req[r].loads : load[r][a] # None /\ ~load[r][a].done =>
          /\ DOMAIN load[r][a].bufs \cap req[r].l1 = {}
          /\ \A b \in req[r].loads \ {a} :
                DOMAIN load[r][a].bufs \cap DOMAIN load[r][b].bufs = {}

Perms == Permutations(Requests) \cup Permutations(Bufs)
===========================================================================
