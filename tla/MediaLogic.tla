----------------------------- MODULE MediaLogic -----------------------------
(***************************************************************************)
(* The two clocks' rules of src/mhcamera/src/media_logic.c: the gate that   *)
(* keeps decoded pictures at the output rate, and the freshness of a frame  *)
(* against the timeline that the first frame has started.  Times are whole  *)
(* numbers of one unit; the code's are 64-bit microseconds.                 *)
(***************************************************************************)
EXTENDS Integers

CONSTANTS
    Interval,   \* XC_MEDIA_YUV_OUTPUT_INTERVAL_US
    MaxLag,     \* XC_MEDIA_MAX_LAG_US
    TimeMax     \* UINT64_MAX

ASSUME IntervalOK == Interval \in Nat \ {0}
ASSUME MaxLagOK == MaxLag \in Nat \ {0}
ASSUME TimeMaxOK == TimeMax \in Nat
-----------------------------------------------------------------------------
(* xc_media_rate_gate *)

Gates == [started : BOOLEAN, last : 0..TimeMax, next : 0..TimeMax]

GateReset == [started |-> FALSE, last |-> 0, next |-> 0]

\* Additions saturate.
Capped(t) == IF t > TimeMax THEN TimeMax ELSE t

\* Mutant: a clock that goes back is waited for.
GateAtWaiting(gate, t) == gate

\* A clock that goes back starts the gate anew.
GateAt(gate, t) == IF gate.started /\ t < gate.last THEN GateReset ELSE gate

GateAccepts(gate, t) == ~GateAt(gate, t).started \/ t >= GateAt(gate, t).next

\* Mutant: intervals without a picture are made up for.
AdvancedOnce(next, t) == next + Interval

\* Mutant: the interval of the picture itself is not counted.
AdvancedShort(next, t) == next + ((t - next) \div Interval) * Interval

\* The first point of the grid after t.
Advanced(next, t) == next + ((t - next) \div Interval + 1) * Interval

GateStep(gate, t) ==
    [started |-> TRUE,
     last    |-> t,
     next    |-> IF ~GateAt(gate, t).started THEN Capped(t + Interval)
                 ELSE IF t < gate.next THEN gate.next
                 ELSE Capped(Advanced(gate.next, t))]
-----------------------------------------------------------------------------
(* xc_media_timestamp_fresh *)

Timelines == [started : BOOLEAN, pts : 0..TimeMax, at : 0..TimeMax]

FreshReset == [started |-> FALSE, pts |-> 0, at |-> 0]

\* A frame without a time is always fresh; the first one with a time starts
\* the timeline.
Fresh(line, pts, now) ==
    \/ pts = 0
    \/ ~line.started
    \/ /\ pts >= line.pts
       /\ now >= line.at
       /\ (now - line.at) - (pts - line.pts) <= MaxLag

FreshStep(line, pts, now) ==
    IF pts # 0 /\ ~line.started THEN [started |-> TRUE, pts |-> pts, at |-> now] ELSE line
=============================================================================
