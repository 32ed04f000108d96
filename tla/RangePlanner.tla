---------------------------- MODULE RangePlanner ----------------------------
(***************************************************************************)
(* findNextAggregationRange of server/indexer.mjs, one action per path     *)
(* through its loop body.  The reservations are visited by increasing      *)
(* first height; ties are taken in any order.                              *)
(***************************************************************************)
EXTENDS AggregationRanges, FiniteSets

CONSTANTS
  MaxHeight,        \* heights are 0..MaxHeight
  MaxReservations   \* bound on the number of reserved ranges of an input

ASSUME RangePlannerAssumption ==
  /\ MaxHeight \in Nat
  /\ MaxReservations \in Nat

VARIABLES
  window,     \* the arguments firstHeight, lastHeight
  batchSize,  \* the argument batchSize
  reserved,   \* the argument reservedRanges
  todo,       \* the part of the sorted array not visited yet
  cursor,     \* the lowest height that may still be free
  done,       \* the function has returned
  found       \* its result: one range, or nothing

vars == <<window, batchSize, reserved, todo, cursor, done, found>>

input == <<window, batchSize, reserved>>

Init ==
  /\ window \in RangesWithin(0, MaxHeight)
  /\ batchSize \in 1..(MaxHeight + 1)
  /\ reserved \in {R \in SUBSET RangesWithin(0, MaxHeight) :
                     Cardinality(R) <= MaxReservations}
  /\ todo = reserved
  /\ cursor = window.first
  /\ done = FALSE
  /\ found = {}

\* Seeded fault: the reservations are not sorted first.
IsNextUnsorted(range) == TRUE

\* range is the next element of the sorted reservations.
IsNext(range) == \A other \in todo : range.first <= other.first

\* `if (range.lastHeight < cursor) continue`
SkipPassed(range) ==
  /\ range.last < cursor
  /\ UNCHANGED <<cursor, done, found>>

Min3(a, b, c) == IF a <= b /\ a <= c THEN a ELSE IF b <= c THEN b ELSE c

\* A gap opens before this reservation: return it.
ReturnGap(range) ==
  /\ range.last >= cursor
  /\ range.first > cursor
  /\ found' = {[first |-> cursor,
                last  |-> Min3(window.last, cursor + batchSize - 1, range.first - 1)]}
  /\ done' = TRUE
  /\ UNCHANGED cursor

\* The reservation covers the cursor: move past it, or give up past the window.
MovePast(range) ==
  /\ range.last >= cursor
  /\ range.first <= cursor
  /\ cursor' = range.last + 1
  /\ done' = (cursor' > window.last)
  /\ UNCHANGED found

Visit(range) ==
  /\ ~ done
  /\ IsNext(range)
  /\ todo' = todo \ {range}
  /\ SkipPassed(range) \/ ReturnGap(range) \/ MovePast(range)
  /\ UNCHANGED input

\* After the loop: whatever is left of the window, cut at the batch size.
ReturnRest ==
  /\ ~ done
  /\ todo = {}
  /\ done' = TRUE
  /\ found' = IF cursor <= window.last
              THEN {[first |-> cursor,
                     last  |-> Min3(window.last, cursor + batchSize - 1, window.last)]}
              ELSE {}
  /\ UNCHANGED <<input, todo, cursor>>

Next ==
  \/ \E range \in todo : Visit(range)
  \/ ReturnRest

Spec == Init /\ [][Next]_vars

----------------------------------------------------------------------------
TypeOK ==
  /\ window \in RangesWithin(0, MaxHeight)
  /\ batchSize \in 1..(MaxHeight + 1)
  /\ reserved \subseteq RangesWithin(0, MaxHeight)
  /\ todo \subseteq reserved
  /\ cursor \in 0..(MaxHeight + 1)
  /\ done \in BOOLEAN
  /\ found \subseteq RangesWithin(0, MaxHeight)

(***************************************************************************)
(* The loop invariant: every height of the window below the cursor is      *)
(* reserved, and while the scan runs it has found nothing, it is inside    *)
(* the window and no reservation already visited reaches the cursor.       *)
(***************************************************************************)
ScanInvariant ==
  /\ cursor >= window.first
  /\ \A h \in window.first .. cursor - 1 : Covers(reserved, h)
  /\ ~ done => /\ found = {}
               /\ cursor <= window.last
               /\ \A q \in reserved \ todo : q.last < cursor

(***************************************************************************)
(* The function returns exactly the range the specification of the planner *)
(* names, and null exactly when the whole window is reserved: "parallel    *)
(* range planner fills durable gaps without overlapping completed work"    *)
(* (server/indexer-lifecycle.test.mjs).                                    *)
(***************************************************************************)
PlannerCorrect ==
  done => found = NextRanges(window.first, window.last, batchSize, reserved)

(***************************************************************************)
(* Whatever the scan returns lies in the window, is no longer than a batch *)
(* and shares no height with any reservation, also when reservations       *)
(* overlap each other or reach out of the window.                          *)
(***************************************************************************)
FoundRangeIsFree ==
  \A r \in found :
    /\ r \in RangesWithin(window.first, window.last)
    /\ r.last - r.first < batchSize
    /\ \A q \in reserved : Disjoint(r, q)
=============================================================================
