--------------------------- MODULE RateGateProofs ---------------------------
(***************************************************************************)
(* The rate gate for every interval and every width.  The invariant says    *)
(* where the next point of the grid is, relative to the last picture and to *)
(* all the accepted ones.                                                   *)
(***************************************************************************)
EXTENDS RateGate, TLAPS

GridInv ==
    gate.started =>
        /\ gate.next > gate.last
        /\ gate.next <= gate.last + Interval
        /\ gate.next >= first + count * Interval
        /\ count > 1 => gate.next > previous + Interval
        /\ accepted <= gate.last

GateInv ==
    /\ TypeOK
    /\ gate.started <=> count > 0
    /\ GridInv
    /\ RateBound

\* Rounding a distance down to whole intervals.
LEMMA Rounding ==
    ASSUME NEW d \in Nat
    PROVE  /\ d \div Interval \in Nat
           /\ (d \div Interval) * Interval <= d
           /\ d < (d \div Interval) * Interval + Interval
  BY IntervalOK, Z3

\* One more interval.
LEMMA OneMore ==
    ASSUME NEW n \in Nat
    PROVE  /\ n * Interval \in Nat
           /\ (n + 1) * Interval = n * Interval + Interval
           /\ 1 * Interval = Interval
  BY IntervalOK, SMT

\* The next point of the grid lies after the picture, within one interval, and
\* at least one interval on.
LEMMA AdvancedBounds ==
    ASSUME NEW next \in Nat, NEW t \in Nat, next <= t
    PROVE  /\ Advanced(next, t) \in Nat
           /\ Advanced(next, t) > t
           /\ Advanced(next, t) <= t + Interval
           /\ Advanced(next, t) >= next + Interval
  <1> DEFINE n == (t - next) \div Interval
  <1>1. /\ n \in Nat /\ n * Interval <= t - next /\ t - next < n * Interval + Interval
    BY Rounding
  <1>2. n * Interval \in Nat /\ (n + 1) * Interval = n * Interval + Interval
    BY <1>1, OneMore
  <1> QED
    BY <1>1, <1>2, IntervalOK DEF Advanced

\* The gate's types, and no saturation at the times pictures have.
LEMMA StepTypes ==
    ASSUME TypeOK, NEW t \in 0..ClockMax
    PROVE  /\ GateStep(gate, t) \in Gates
           /\ Capped(t + Interval) = t + Interval
           /\ gate.next <= t => Capped(Advanced(gate.next, t)) = Advanced(gate.next, t)
  <1>1. /\ t \in Nat /\ t <= ClockMax /\ gate.next \in Nat
        /\ gate.next <= TimeMax /\ ClockMax + Interval <= TimeMax
    BY ClockMaxOK DEF TypeOK, Gates
  <1>2. Capped(t + Interval) = t + Interval /\ t + Interval \in 0..TimeMax /\ t \in 0..TimeMax
    BY <1>1, IntervalOK, ClockMaxOK, TimeMaxOK DEF Capped
  <1>3. gate.next <= t => /\ Capped(Advanced(gate.next, t)) = Advanced(gate.next, t)
                          /\ Advanced(gate.next, t) \in 0..TimeMax
    <2> SUFFICES ASSUME gate.next <= t
                 PROVE  /\ Capped(Advanced(gate.next, t)) = Advanced(gate.next, t)
                        /\ Advanced(gate.next, t) \in 0..TimeMax
      OBVIOUS
    <2>1. Advanced(gate.next, t) \in Nat /\ Advanced(gate.next, t) <= t + Interval
      BY <1>1, AdvancedBounds
    <2>2. Advanced(gate.next, t) <= TimeMax
      BY <1>1, <2>1, IntervalOK, ClockMaxOK, TimeMaxOK
    <2> QED
      BY <2>1, <2>2, TimeMaxOK DEF Capped
  <1>4. GateStep(gate, t) \in Gates
    BY <1>1, <1>2, <1>3, TimeMaxOK DEF GateStep, Gates
  <1> QED
    BY <1>2, <1>3, <1>4

LEMMA InvInit == Init => GateInv
  BY IntervalOK, TimeMaxOK, ClockMaxOK
  DEF Init, GateInv, TypeOK, GridInv, RateBound, GateReset, Gates

\* A picture, accepted or not.
LEMMA PictureKeeps ==
    ASSUME GateInv, NEW t \in 0..ClockMax, Picture(t)
    PROVE  GateInv' /\ (count' = count + 1 /\ count' > 2 => accepted' > previous + Interval)
  <1> USE DEF GateInv
  <1>1. /\ t \in Nat /\ gate.next \in Nat /\ gate.last \in Nat /\ count \in Nat
        /\ first \in Nat /\ accepted \in Nat /\ previous \in Nat /\ Interval \in Nat /\ Interval > 0
    BY IntervalOK, ClockMaxOK, TimeMaxOK DEF TypeOK, Gates
  <1>2. /\ gate' = GateStep(gate, t) /\ gate'.started /\ gate'.last = t
        /\ gate' \in Gates /\ gate'.next \in Nat
    BY StepTypes DEF Picture, GateStep, Gates
  <1>3. CASE ~gate.started \/ t < gate.last
    <2>1. ~GateAt(gate, t).started /\ GateAccepts(gate, t)
      BY <1>3 DEF GateAt, GateReset, GateAccepts
    <2>2. /\ gate'.next = t + Interval
          /\ accepted' = t /\ previous' = accepted /\ first' = t /\ count' = 1
      BY <1>2, <2>1, StepTypes DEF Picture, GateStep
    <2>3. GateInv'
      BY <1>1, <1>2, <2>2, OneMore DEF TypeOK, GridInv, RateBound
    <2> QED
      BY <2>2, <2>3
  <1>4. CASE gate.started /\ t >= gate.last /\ t < gate.next
    <2>1. gate'.next = gate.next /\ UNCHANGED <<first, accepted, previous, count>>
      BY <1>1, <1>2, <1>4 DEF Picture, GateStep, GateAccepts, GateAt
    <2>2. GateInv'
      BY <1>1, <1>2, <1>4, <2>1 DEF TypeOK, GridInv, RateBound
    <2> QED
      BY <1>1, <2>1, <2>2
  <1>5. CASE gate.started /\ t >= gate.next
    <2>1. t >= gate.last
      BY <1>1, <1>5 DEF GridInv
    <2>2. GateAt(gate, t) = gate /\ GateAccepts(gate, t)
      BY <1>1, <1>5, <2>1 DEF GateAccepts, GateAt
    <2>3. /\ gate'.next = Advanced(gate.next, t)
          /\ accepted' = t /\ previous' = accepted /\ first' = first /\ count' = count + 1
      BY <1>1, <1>2, <1>5, <2>2, StepTypes DEF Picture, GateStep
    <2>4. /\ gate'.next > t /\ gate'.next <= t + Interval
          /\ gate'.next >= gate.next + Interval
      BY <1>1, <1>5, <2>3, AdvancedBounds
    <2>5. /\ count * Interval \in Nat /\ (count + 1) * Interval = count * Interval + Interval
          /\ (count + 1) - 1 = count
      BY <1>1, OneMore
    <2>6. count > 0 /\ gate.next >= first + count * Interval
          /\ gate.next > accepted /\ (count > 1 => gate.next > previous + Interval)
      BY <1>1, <1>5 DEF GridInv
    <2>7. gate'.next >= first + (count + 1) * Interval
      BY <1>1, <1>2, <2>4, <2>5, <2>6
    <2>8. t >= first + ((count + 1) - 1) * Interval
      BY <1>1, <1>5, <2>5, <2>6
    <2>9. gate'.next > accepted + Interval
      BY <1>1, <1>2, <2>4, <2>6
    <2>10. TypeOK' /\ (gate'.started <=> count' > 0)
      BY <1>1, <1>2, <2>3 DEF TypeOK
    <2>11. GridInv'
      BY <1>2, <2>3, <2>4, <2>7, <2>9, <1>1 DEF GridInv
    <2>12. RateBound'
      BY <2>3, <2>8 DEF RateBound
    <2>13. count' > 2 => accepted' > previous + Interval
      BY <1>1, <1>5, <2>3, <2>6
    <2> QED
      BY <2>10, <2>11, <2>12, <2>13
  <1> QED
    BY <1>1, <1>3, <1>4, <1>5

\* The gate's invariant.
THEOREM Invariance == Spec => []GateInv
  <1>1. GateInv /\ [Next]_vars => GateInv'
    <2> SUFFICES ASSUME GateInv, [Next]_vars PROVE GateInv'
      OBVIOUS
    <2>1. CASE \E t \in 0..ClockMax : Picture(t)
      BY <2>1, PictureKeeps
    <2>2. CASE Reset
      BY <2>2, IntervalOK, TimeMaxOK, ClockMaxOK
      DEF Reset, GateInv, TypeOK, GridInv, RateBound, GateReset, Gates
    <2>3. CASE UNCHANGED vars
      BY <2>3 DEF vars, GateInv, TypeOK, GridInv, RateBound
    <2> QED
      BY <2>1, <2>2, <2>3 DEF Next
  <1> QED
    BY InvInit, <1>1, PTL DEF Spec

\* n accepted pictures take at least n - 1 intervals, for every interval and
\* every sequence of picture times.
THEOREM RateBounded == Spec => []RateBound
  BY Invariance, PTL DEF GateInv

\* The gate opens again within one interval of the last picture.
THEOREM NeverStarved == Spec => []NotStarved
  <1>1. GateInv => NotStarved
    BY DEF GateInv, GridInv, NotStarved
  <1> QED
    BY Invariance, <1>1, PTL

\* Three accepted pictures are never within one interval.
THEOREM NeverBursts == Spec => NoBurst
  <1>1. GateInv /\ [Next]_vars =>
            [count' = count + 1 /\ count' > 2 => accepted' > previous + Interval]_vars
    <2> SUFFICES ASSUME GateInv, Next
                 PROVE  count' = count + 1 /\ count' > 2 => accepted' > previous + Interval
      OBVIOUS
    <2>1. CASE \E t \in 0..ClockMax : Picture(t)
      BY <2>1, PictureKeeps
    <2>2. CASE Reset
      BY <2>2 DEF Reset
    <2> QED
      BY <2>1, <2>2 DEF Next
  <1> QED
    BY Invariance, <1>1, PTL DEF Spec, NoBurst
=============================================================================
