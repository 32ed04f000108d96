------------------------- MODULE AggregationRanges -------------------------
(***************************************************************************)
(* Ranges of block heights, and what the planner of the parallel           *)
(* aggregator promises to return: the first stretch of heights that no     *)
(* reserved range covers, cut at the batch size and at the next            *)
(* reservation.  The scan that computes it is module RangePlanner.         *)
(***************************************************************************)
EXTENDS Integers

\* The non-empty ranges that lie inside lo..hi.
RangesWithin(lo, hi) ==
  {r \in [first : lo..hi, last : lo..hi] : r.first <= r.last}

Heights(r) == r.first .. r.last

Covers(reserved, h) == \E q \in reserved : h \in Heights(q)

Disjoint(r, q) == r.last < q.first \/ q.last < r.first

(***************************************************************************)
(* The range the planner returns for the window lo..hi, as a set: empty    *)
(* when every height of the window is reserved (the code's null).          *)
(***************************************************************************)
NextRanges(lo, hi, batchSize, reserved) ==
  {r \in RangesWithin(lo, hi) :
     /\ ~ Covers(reserved, r.first)
     /\ \A h \in lo .. r.first - 1 : Covers(reserved, h)
     /\ r.last <= r.first + batchSize - 1
     /\ \A q \in reserved : q.first \notin Heights(r)
     /\ \/ r.last \in {hi, r.first + batchSize - 1}
        \/ \E q \in reserved : q.first = r.last + 1}
=============================================================================
