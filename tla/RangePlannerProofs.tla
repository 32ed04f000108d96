------------------------- MODULE RangePlannerProofs -------------------------
(***************************************************************************)
(* The scan of RangePlanner computes what AggregationRanges specifies, for *)
(* every window, batch size and set of reservations.                       *)
(***************************************************************************)
EXTENDS RangePlanner, TLAPS

\* The inductive invariant: types, the loop invariant and the result.
IInv == TypeOK /\ ScanInvariant /\ PlannerCorrect

(***************************************************************************)
(* A range that starts at the first free height and stops at the window's  *)
(* end, at the batch size or before the next reservation, whichever comes  *)
(* first, is the only member of NextRanges.                                *)
(***************************************************************************)
LEMMA NextRangeUnique ==
  ASSUME NEW R, \A q \in R : q.first \in Int /\ q.last \in Int,
         NEW lo \in Int, NEW hi \in Int, NEW b \in Int,
         NEW c \in lo .. hi, NEW e \in c .. hi,
         ~ Covers(R, c),
         \A h \in lo .. c - 1 : Covers(R, h),
         e <= c + b - 1,
         \A q \in R : q.first < c \/ q.first > e,
         e = hi \/ e = c + b - 1 \/ (\E q \in R : q.first = e + 1)
  PROVE  NextRanges(lo, hi, b, R) = {[first |-> c, last |-> e]}
<1> DEFINE N == NextRanges(lo, hi, b, R)
           f == [first |-> c, last |-> e]
<1>1. f \in N
  BY DEF NextRanges, RangesWithin, Heights
<1>2. ASSUME NEW r \in N PROVE r = f
  <2>1. /\ r \in [first : lo..hi, last : lo..hi]
        /\ r.first <= r.last
        /\ r.last <= r.first + b - 1
        /\ ~ Covers(R, r.first)
        /\ \A h \in lo .. r.first - 1 : Covers(R, h)
        /\ \A q \in R : q.first \notin Heights(r)
        /\ \/ r.last \in {hi, r.first + b - 1}
           \/ \E q \in R : q.first = r.last + 1
    BY <1>2 DEF NextRanges, RangesWithin
  <2>2. r.first = c
    BY <2>1
  <2>3. r.last = e
    BY <2>1, <2>2 DEF Heights
  <2>4. QED BY <2>1, <2>2, <2>3
<1>3. QED BY <1>1, <1>2

(***************************************************************************)
(* A window whose heights are all reserved has no next range.              *)
(***************************************************************************)
LEMMA NextRangeNone ==
  ASSUME NEW R, NEW lo, NEW hi, NEW b,
         \A h \in lo .. hi : Covers(R, h)
  PROVE  NextRanges(lo, hi, b, R) = {}
BY DEF NextRanges, RangesWithin

(***************************************************************************)
(* The initial states satisfy the inductive invariant: nothing is visited  *)
(* and the cursor is at the start of the window.                           *)
(***************************************************************************)
LEMMA InitIInv == Init => IInv
<1> SUFFICES ASSUME Init PROVE IInv
  OBVIOUS
<1>1. /\ window.first \in 0..MaxHeight /\ window.first <= window.last
      /\ \A h \in window.first .. cursor - 1 : FALSE
      /\ cursor \in 0..(MaxHeight + 1)
  BY RangePlannerAssumption DEF Init, RangesWithin
<1>2. TypeOK
  BY <1>1 DEF Init, TypeOK
<1>3. QED BY <1>1, <1>2 DEF Init, IInv, ScanInvariant, PlannerCorrect

(***************************************************************************)
(* Every path through the loop body and the code after the loop keep it.   *)
(***************************************************************************)
LEMMA StepIInv == IInv /\ [Next]_vars => IInv'
<1> SUFFICES ASSUME IInv, [Next]_vars PROVE IInv'
  OBVIOUS
<1> USE RangePlannerAssumption
<1>0. /\ TypeOK /\ ScanInvariant /\ PlannerCorrect
      /\ window.first \in 0..MaxHeight /\ window.last \in 0..MaxHeight
      /\ window.first <= window.last
      /\ \A q \in reserved : /\ q.first \in 0..MaxHeight /\ q.last \in 0..MaxHeight
                            /\ q.first <= q.last
  BY DEF IInv, TypeOK, RangesWithin
<1>1. ASSUME NEW range \in todo, Visit(range) PROVE IInv'
  <2>0. /\ ~ done /\ todo' = todo \ {range} /\ UNCHANGED input
        /\ \A other \in todo : range.first <= other.first
        /\ range \in reserved
    BY <1>0, <1>1 DEF Visit, IsNext, TypeOK
  <2>1. CASE SkipPassed(range)
    BY <1>0, <2>0, <2>1
    DEF IInv, TypeOK, ScanInvariant, PlannerCorrect, SkipPassed, input, Covers, Heights
  <2>2. CASE ReturnGap(range)
    <3> DEFINE e == Min3(window.last, cursor + batchSize - 1, range.first - 1)
    <3>1. /\ cursor \in Int /\ cursor >= window.first /\ batchSize \in Nat \ {0}
          /\ found' = {[first |-> cursor, last |-> e]} /\ done'
          /\ cursor < range.first /\ cursor' = cursor
      BY <1>0, <2>2 DEF ReturnGap, TypeOK, ScanInvariant
    <3>2. /\ e \in cursor .. window.last
          /\ e <= cursor + batchSize - 1
          /\ e = window.last \/ e = cursor + batchSize - 1 \/ range.first = e + 1
          /\ e < range.first
      BY <1>0, <2>0, <3>1 DEF Min3, ScanInvariant
    <3>3. \A q \in reserved : q.first < cursor \/ q.first > e
      BY <1>0, <2>0, <3>1, <3>2 DEF ScanInvariant
    <3>4. ~ Covers(reserved, cursor)
      BY <1>0, <2>0, <3>1 DEF ScanInvariant, Covers, Heights
    <3> HIDE DEF e
    <3>5. NextRanges(window.first, window.last, batchSize, reserved)
            = {[first |-> cursor, last |-> e]}
      <4>1. /\ \A q \in reserved : q.first \in Int /\ q.last \in Int
            /\ window.first \in Int /\ window.last \in Int /\ batchSize \in Int
            /\ cursor \in window.first .. window.last
            /\ \A h \in window.first .. cursor - 1 : Covers(reserved, h)
            /\ e = window.last \/ e = cursor + batchSize - 1
                 \/ (\E q \in reserved : q.first = e + 1)
        BY <1>0, <2>0, <3>1, <3>2 DEF TypeOK, ScanInvariant
      <4>2. QED BY <3>1, <3>2, <3>3, <3>4, <4>1, NextRangeUnique, Z3
    <3>6. TypeOK'
      BY <1>0, <2>0, <3>1, <3>2 DEF TypeOK, input, RangesWithin
    <3>7. QED
      BY <1>0, <2>0, <3>1, <3>5, <3>6 DEF IInv, ScanInvariant, PlannerCorrect, input, Covers
  <2>3. CASE MovePast(range)
    <3>0. done' <=> cursor' > window.last
      BY <2>3, Zenon DEF MovePast
    <3>1. /\ cursor' = range.last + 1 /\ cursor <= cursor' /\ found' = {}
          /\ range.first <= cursor /\ cursor \in Int
      BY <1>0, <2>0, <2>3 DEF MovePast, TypeOK, ScanInvariant
    <3>2. \A h \in window.first .. cursor' - 1 : Covers(reserved, h)
      <4>1. SUFFICES ASSUME NEW h \in window.first .. cursor' - 1, h >= cursor
                     PROVE  Covers(reserved, h)
        BY <1>0, <3>1 DEF ScanInvariant
      <4>2. h \in range.first .. range.last
        BY <1>0, <2>0, <3>1, <4>1
      <4>3. QED BY <2>0, <4>2 DEF Covers, Heights
    <3>3. TypeOK'
      BY <1>0, <2>0, <2>3, <3>1 DEF TypeOK, MovePast, input
    <3>4. ScanInvariant'
      BY <1>0, <2>0, <3>0, <3>1, <3>2, <3>3 DEF ScanInvariant, input, Covers, TypeOK
    <3>5. ASSUME done' PROVE NextRanges(window.first, window.last, batchSize, reserved) = {}
      <4>1. \A h \in window.first .. window.last : Covers(reserved, h)
        BY <1>0, <3>0, <3>1, <3>2, <3>5
      <4>2. QED BY <1>0, <4>1, NextRangeNone DEF TypeOK
    <3>6. PlannerCorrect'
      BY <2>0, <3>1, <3>5 DEF PlannerCorrect, input
    <3>7. QED BY <3>3, <3>4, <3>6 DEF IInv
  <2>4. QED BY <1>1, <2>1, <2>2, <2>3 DEF Visit
<1>2. CASE ReturnRest
  <2> DEFINE e == Min3(window.last, cursor + batchSize - 1, window.last)
  <2>1. /\ ~ done /\ todo = {} /\ done' /\ UNCHANGED <<input, todo, cursor>>
        /\ cursor \in window.first .. window.last /\ batchSize \in Nat \ {0}
        /\ found' = {[first |-> cursor, last |-> e]}
    BY <1>0, <1>2 DEF ReturnRest, TypeOK, ScanInvariant
  <2>2. /\ e \in cursor .. window.last
        /\ e <= cursor + batchSize - 1
        /\ e = window.last \/ e = cursor + batchSize - 1
    BY <1>0, <2>1 DEF Min3
  <2>3. \A q \in reserved : q.first < cursor /\ q.last < cursor
    BY <1>0, <2>1 DEF ScanInvariant
  <2>4. ~ Covers(reserved, cursor)
    BY <1>0, <2>1, <2>3 DEF Covers, Heights
  <2> HIDE DEF e
  <2>5. NextRanges(window.first, window.last, batchSize, reserved)
          = {[first |-> cursor, last |-> e]}
    <3>1. /\ \A h \in window.first .. cursor - 1 : Covers(reserved, h)
          /\ \A q \in reserved : q.first < cursor \/ q.first > e
          /\ \A q \in reserved : q.first \in Int /\ q.last \in Int
          /\ window.first \in Int /\ window.last \in Int /\ batchSize \in Int
      BY <1>0, <2>1, <2>3 DEF TypeOK, ScanInvariant
    <3>2. QED BY <2>1, <2>2, <2>4, <3>1, NextRangeUnique, Z3
  <2>6. TypeOK'
    BY <1>0, <2>1, <2>2 DEF TypeOK, input, RangesWithin
  <2>7. QED
    BY <1>0, <2>1, <2>5, <2>6 DEF IInv, ScanInvariant, PlannerCorrect, input, Covers
<1>3. CASE UNCHANGED vars
  BY <1>0, <1>3 DEF IInv, TypeOK, ScanInvariant, PlannerCorrect, vars, Covers
<1>4. QED BY <1>1, <1>2, <1>3 DEF Next

(***************************************************************************)
(* For every window, batch size and set of reservations the scan returns   *)
(* exactly the range AggregationRanges names, and nothing when there is    *)
(* none.                                                                   *)
(***************************************************************************)
THEOREM PlannerIsCorrect == Spec => []PlannerCorrect
<1>1. IInv => PlannerCorrect
  BY DEF IInv
<1>2. QED BY InitIInv, StepIInv, <1>1, PTL DEF Spec

(***************************************************************************)
(* The range it returns lies in the window, is at most a batch long and    *)
(* shares no height with a reservation.                                    *)
(***************************************************************************)
THEOREM PlannerFindsFreeRange == Spec => []FoundRangeIsFree
<1>1. IInv => FoundRangeIsFree
  <2> SUFFICES ASSUME IInv, NEW r \in found
               PROVE  /\ r \in RangesWithin(window.first, window.last)
                      /\ r.last - r.first < batchSize
                      /\ \A q \in reserved : Disjoint(r, q)
    BY DEF FoundRangeIsFree
  <2>1. r \in NextRanges(window.first, window.last, batchSize, reserved)
    BY DEF IInv, TypeOK, ScanInvariant, PlannerCorrect
  <2>2. /\ r \in RangesWithin(window.first, window.last)
        /\ ~ Covers(reserved, r.first)
        /\ r.last <= r.first + batchSize - 1
        /\ \A q \in reserved : q.first \notin Heights(r)
    BY <2>1 DEF NextRanges
  <2>3. /\ r.first \in Int /\ r.last \in Int /\ batchSize \in Int
        /\ \A q \in reserved : q.first \in Int /\ q.last \in Int
    BY <2>2, RangePlannerAssumption DEF IInv, TypeOK, RangesWithin
  <2>4. \A q \in reserved : Disjoint(r, q)
    BY <2>2, <2>3 DEF Disjoint, Covers, Heights
  <2>5. QED BY <2>2, <2>3, <2>4
<1>2. QED BY InitIInv, StepIInv, <1>1, PTL DEF Spec
=============================================================================
