------------------------------ MODULE RateGate ------------------------------
(***************************************************************************)
(* The rate gate over any sequence of picture times: clocks that stand      *)
(* still, jump ahead or go back, and resets of the session.                 *)
(***************************************************************************)
EXTENDS MediaLogic

CONSTANT ClockMax   \* the last time a picture can have

\* Picture times are signed 64-bit numbers or a monotonic clock
\* (xc_emit_decoded), so they stay far below the saturation of the gate.
ASSUME ClockMaxOK == ClockMax \in Nat /\ ClockMax + Interval <= TimeMax

VARIABLES
    gate,       \* struct xc_media_rate_gate
    first,      \* the picture that has started the gate
    accepted,   \* the last accepted picture
    previous,   \* the accepted picture before it
    count       \* pictures accepted since the start

vars == <<gate, first, accepted, previous, count>>

Init == gate = GateReset /\ first = 0 /\ accepted = 0 /\ previous = 0 /\ count = 0

\* xc_media_rate_gate_accept for a picture of time t.
Picture(t) ==
    /\ gate' = GateStep(gate, t)
    /\ IF GateAccepts(gate, t) THEN
           /\ accepted' = t /\ previous' = accepted
           /\ IF GateAt(gate, t).started THEN first' = first /\ count' = count + 1
              ELSE first' = t /\ count' = 1
       ELSE UNCHANGED <<first, accepted, previous, count>>

\* xc_media_rate_gate_reset.
Reset == gate' = GateReset /\ first' = 0 /\ accepted' = 0 /\ previous' = 0 /\ count' = 0

Next == (\E t \in 0..ClockMax : Picture(t)) \/ Reset

Spec == Init /\ [][Next]_vars
-----------------------------------------------------------------------------
TypeOK ==
    /\ gate \in Gates
    /\ first \in 0..ClockMax /\ accepted \in 0..ClockMax /\ previous \in 0..ClockMax
    /\ count \in Nat

\* However the clock jumps, n pictures in a row take at least n - 1 intervals:
\* a picture that comes late does not move the grid (media_logic.c:29-34).
RateBound == count > 0 => accepted >= first + (count - 1) * Interval

\* Intervals without a picture are not made up for: three accepted pictures are
\* never within one interval.
NoBurst ==
    [][count' = count + 1 /\ count' > 2 => accepted' > previous + Interval]_vars

\* The gate opens again within one interval of the last picture, whichever way
\* the clock has jumped (media_logic.c:19-21).
NotStarved == gate.started => gate.next <= gate.last + Interval
=============================================================================
