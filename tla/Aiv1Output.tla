----------------------------- MODULE Aiv1Output -----------------------------
(***************************************************************************)
(* The sidecar's end of a media connection (Consumer in the patch           *)
(* 0002-aiv1-output.patch): it takes the camera's access units, drops what  *)
(* cannot be decoded, numbers and flags the rest and writes them to the     *)
(* socket.  The camera's units can be lost on the way to it; the socket     *)
(* keeps the order and loses nothing.                                       *)
(***************************************************************************)
EXTENDS Naturals, Sequences

CONSTANTS
    SeqSize,    \* sequence numbers of the wire wrap here (2^64)
    WireMax,    \* frames that fit into the socket
    PtsMax      \* bound on the camera's times

ASSUME WireOK == SeqSize \in Nat \ {0, 1} /\ WireMax \in Nat \ {0} /\ PtsMax \in Nat \ {0}

VARIABLES
    codec,
    needKeyframe, discontinuity,
    haveSourceSeq,
    missed,         \* the next unit does not follow the number in sourceSeq
    outputSeq,
    pts,            \* the last frame's time, 0 before the first
    terminal,
    wire,           \* frames written and not yet read
    unsent          \* a unit after the last frame written was lost or dropped

outputVars == <<codec, needKeyframe, discontinuity, haveSourceSeq, missed, outputSeq, pts,
                terminal, wire, unsent>>

\* What a unit contains.  "bare" is a random access picture without all its
\* parameter sets, "foreign" one of a type that inspectAVCC does not know, with
\* them (only in H.265), "broken" is malformed or too long.
Units(c) == {"key", "bare", "delta", "broken"} \cup (IF c = "h265" THEN {"foreign"} ELSE {})

Codecs == {"h264", "h265"}

\* A frame on the wire; "follows" when the unit before it in the camera's
\* stream is the frame before it.
Frames == [unit : {"key", "bare", "delta", "foreign"}, key : BOOLEAN, disc : BOOLEAN,
           seq : 0..(SeqSize - 1), pts : 1..PtsMax, follows : BOOLEAN]

\* newConsumer and AddTrack for a camera of codec c.
Attached(c) ==
    /\ codec' = c
    /\ needKeyframe' = TRUE /\ discontinuity' = TRUE
    /\ haveSourceSeq' = FALSE /\ missed' = FALSE
    /\ outputSeq' = 0 /\ pts' = 0
    /\ terminal' = FALSE
    /\ wire' = <<>> /\ unsent' = TRUE

\* A unit is lost before it reaches the sidecar's output.
Lose ==
    /\ ~terminal
    /\ missed' = TRUE /\ unsent' = TRUE
    /\ UNCHANGED <<codec, needKeyframe, discontinuity, haveSourceSeq, outputSeq, pts, terminal,
                   wire>>

\* enterResyncLocked: the unit is dropped, and the next frame is a keyframe that
\* is marked.
Resync ==
    /\ needKeyframe' = TRUE /\ discontinuity' = TRUE
    /\ unsent' = TRUE
    /\ UNCHANGED <<outputSeq, pts, terminal, wire>>

\* A malformed unit; its number is not remembered, unless it became malformed, or
\* too long, when its parameter sets were added.
Malformed(unit) ==
    /\ ~terminal
    /\ unit = "broken"
    /\ Resync
    /\ \/ missed' = TRUE /\ UNCHANGED haveSourceSeq
       \/ missed' = FALSE /\ haveSourceSeq' = TRUE
    /\ UNCHANGED codec

\* A hole in the camera's numbers.
SourceGap == haveSourceSeq /\ missed

\* Mutant: every random access picture is taken for a keyframe.
KeyframeAny(unit) == unit \in {"key", "bare"}

\* A keyframe has its parameter sets.
Keyframe(unit) == unit = "key"

\* timestampUS: 32-bit differences add up, so the time never goes back.
Times == IF pts = 0 THEN {1} ELSE pts..PtsMax

Frame(unit, t) ==
    [unit    |-> unit,
     key     |-> Keyframe(unit),
     disc    |-> discontinuity \/ SourceGap,
     seq     |-> (outputSeq + 1) % SeqSize,
     pts     |-> t,
     follows |-> ~unsent]

\* The frame is written, or the socket stays full for the write's deadline and
\* the connection is given up.
Write(unit, t) ==
    /\ pts' = t
    /\ outputSeq' = (outputSeq + 1) % SeqSize
    /\ IF Len(wire) < WireMax THEN
           /\ wire' = Append(wire, Frame(unit, t))
           /\ needKeyframe' = FALSE /\ discontinuity' = FALSE
           /\ unsent' = FALSE
           /\ UNCHANGED terminal
       ELSE
           /\ terminal' = TRUE
           /\ needKeyframe' = (needKeyframe \/ SourceGap)
           /\ discontinuity' = (discontinuity \/ SourceGap)
           /\ unsent' = TRUE
           /\ UNCHANGED wire

\* A whole unit, through acceptPacket and acceptRepaired.
Accept(unit) ==
    /\ ~terminal
    /\ unit # "broken"
    /\ haveSourceSeq' = TRUE /\ missed' = FALSE
    /\ IF ~Keyframe(unit) /\ (unit = "bare" \/ needKeyframe \/ SourceGap)
       THEN IF unit = "bare" \/ SourceGap THEN Resync
            ELSE unsent' = TRUE /\ UNCHANGED <<needKeyframe, discontinuity, outputSeq, pts,
                                               terminal, wire>>
       ELSE \E t \in Times : Write(unit, t)
    /\ UNCHANGED codec

OutputStep ==
    \/ Lose
    \/ \E unit \in Units(codec) : Malformed(unit) \/ Accept(unit)
=============================================================================
