---------------------------- MODULE MediaSession ----------------------------
(***************************************************************************)
(* A session of the AI thread (src/mhcamera/src/media.c): frames are read   *)
(* from the sidecar, checked against their numbers and marks, and forwarded *)
(* to the host (H.264) or decoded first (H.265).  One after the other; the  *)
(* owner's side of a session is module MediaOwner.                          *)
(***************************************************************************)
EXTENDS Aiv1Output, MediaLogic

CONSTANT NowMax     \* bound on the monotonic clock

ASSUME NowMaxOK == NowMax \in Nat \ {0} /\ NowMax <= TimeMax /\ PtsMax <= TimeMax

VARIABLES
    pc,             \* where the session is between two calls
    waiting,        \* waiting_sync
    haveSequence, lastSequence,
    hand,           \* the frame that is processed
    out,            \* the time of the picture that is delivered
    freshness, gate,
    decoder,        \* the private H.265 decoder
    host,           \* the host's video session and its decoder
    now,
    why             \* how the session has ended

sessionVars == <<pc, waiting, haveSequence, lastSequence, hand, out, freshness, gate, decoder,
                 host, why>>
vars == <<outputVars, sessionVars, now>>

\* A decoder is absent, fresh, has all that its stream refers to, or was fed a
\* frame that refers to one it did not get.
Decoders == {"none", "fresh", "intact", "spoiled"}

Feed(d, f) ==
    IF Keyframe(f.unit) \/ (d = "intact" /\ f.follows) THEN "intact" ELSE "spoiled"

NoFrame == [unit |-> "key", key |-> TRUE, disc |-> TRUE, seq |-> 0, pts |-> 1, follows |-> FALSE]

Ended(reason) ==
    /\ pc' = "closed" /\ why' = reason
    /\ host' = "none" /\ decoder' = "none"
    /\ UNCHANGED <<waiting, haveSequence, lastSequence, freshness, gate, out>>

Init ==
    /\ codec \in Codecs
    /\ needKeyframe = TRUE /\ discontinuity = TRUE /\ haveSourceSeq = FALSE /\ missed = FALSE
    /\ outputSeq = 0 /\ pts = 0 /\ terminal = TRUE /\ wire = <<>> /\ unsent = TRUE
    /\ pc = "closed" /\ why = "none"
    /\ waiting = TRUE /\ haveSequence = FALSE /\ lastSequence = 0
    /\ hand = NoFrame /\ out = 0
    /\ freshness = FreshReset /\ gate = GateReset
    /\ decoder = "none" /\ host = "none"
    /\ now = 1
-----------------------------------------------------------------------------
\* xc_media_session_run up to the frame loop: a new session on a new connection.
Begin(c) ==
    /\ pc = "closed"
    /\ Attached(c)
    /\ pc' = "read"
    /\ waiting' = TRUE /\ haveSequence' = FALSE /\ lastSequence' = 0
    /\ freshness' = FreshReset /\ gate' = GateReset
    /\ decoder' = IF c = "h265" THEN "fresh" ELSE "none"
    /\ why' = "none"
    /\ UNCHANGED <<hand, out, host, now>>

\* No frame within the deadline, the connection closed, or a request to stop.
Disconnect ==
    /\ pc = "read"
    /\ Ended("disconnected")
    /\ UNCHANGED <<outputVars, hand, now>>

\* The session finds the parameter sets and the random access pictures of all
\* types by itself; a number is never 0.
Complete(f) == f.unit \in {"key", "foreign"}

Refused(f) == f.seq = 0 \/ f.key # Complete(f) \/ (f.disc /\ ~f.key)

Refuse ==
    /\ pc = "read" /\ wire # <<>>
    /\ Refused(Head(wire))
    /\ hand' = Head(wire) /\ wire' = Tail(wire)
    /\ Ended("refused")
    /\ UNCHANGED <<codec, needKeyframe, discontinuity, haveSourceSeq, missed, outputSeq, pts,
                   terminal, unsent, now>>

\* A hole in the numbers, the last number there is, or a marked frame.
Resets(f) ==
    \/ haveSequence /\ (lastSequence = SeqSize - 1 \/ f.seq # lastSequence + 1)
    \/ f.disc

\* xc_process_frame up to the delivery, with xc_reset: H.264 closes the host's
\* session, H.265 gets a new private decoder.
Process ==
    /\ pc = "read" /\ wire # <<>>
    /\ LET f == Head(wire)
           kept == IF codec = "h265" /\ Resets(f) THEN "fresh" ELSE decoder IN
       /\ ~Refused(f)
       /\ hand' = f /\ wire' = Tail(wire)
       /\ haveSequence' = TRUE /\ lastSequence' = f.seq
       /\ freshness' = IF Resets(f) THEN FreshReset ELSE freshness
       /\ gate' = IF Resets(f) THEN GateReset ELSE gate
       /\ host' = IF codec = "h264" /\ Resets(f) THEN "none" ELSE host
       /\ waiting' = ((waiting \/ Resets(f)) /\ ~f.key)
       /\ IF waiting' THEN pc' = "read" /\ decoder' = kept /\ UNCHANGED out
          ELSE IF codec = "h264" THEN pc' = "check" /\ out' = f.pts /\ decoder' = kept
          ELSE pc' = "drain" /\ decoder' = Feed(kept, f) /\ UNCHANGED out
    /\ UNCHANGED <<codec, needKeyframe, discontinuity, haveSourceSeq, missed, outputSeq, pts,
                   terminal, unsent, why, now>>

\* xc_decoder_drain and xc_emit_decoded: the decoder has a picture, of any time
\* it was given so far or of none, has no more of them, or gives up.
Drain ==
    /\ pc = "drain"
    /\ \/ \E p \in 0..hand.pts :
            LET t == IF p # 0 THEN p ELSE now IN
            /\ gate' = GateStep(gate, t)
            /\ IF GateAccepts(gate, t) THEN pc' = "check" /\ out' = p ELSE UNCHANGED <<pc, out>>
            /\ UNCHANGED <<freshness, decoder, host, why>>
       \/ pc' = "read" /\ UNCHANGED <<gate, out, freshness, decoder, host, why>>
       \/ Ended("undecodable")
    /\ UNCHANGED <<outputVars, waiting, haveSequence, lastSequence, hand, now>>
-----------------------------------------------------------------------------
(* xc_deliver *)

Back == IF codec = "h264" THEN "read" ELSE "drain"

\* The first look at the clock.
Check ==
    /\ pc = "check"
    /\ IF Fresh(freshness, out, now)
       THEN /\ freshness' = FreshStep(freshness, out, now)
            /\ pc' = IF host = "none" THEN "open" ELSE "send"
            /\ UNCHANGED <<waiting, haveSequence, lastSequence, gate, out, decoder, host, why>>
       ELSE Ended("stale")
    /\ UNCHANGED <<outputVars, hand, now>>

\* Mutant: after a failure the next frame is tried, whatever it is.
DroppedGoesOn == host' = "none" /\ pc' = Back /\ UNCHANGED waiting

\* The frame is dropped with the host's session; H.264 waits for a keyframe.
Dropped ==
    /\ host' = "none"
    /\ pc' = Back
    /\ waiting' = (waiting \/ codec = "h264")

\* The handshake with the host, which may take its time.
Open ==
    /\ pc = "open"
    /\ \/ host' = "fresh" /\ pc' = "send" /\ UNCHANGED waiting
       \/ Dropped
    /\ UNCHANGED <<outputVars, haveSequence, lastSequence, hand, out, freshness, gate, decoder,
                   why, now>>

\* Mutant: the clock is not looked at again.
SendUnchecked ==
    /\ pc = "send"
    /\ \/ /\ host' = IF codec = "h264" THEN Feed(host, hand) ELSE "intact"
          /\ pc' = Back
          /\ UNCHANGED waiting
       \/ Dropped
    /\ UNCHANGED <<outputVars, haveSequence, lastSequence, hand, out, freshness, gate, decoder,
                   why, now>>

\* The second look at the clock and the frame to the host; a decoded picture
\* needs no other one.
Send ==
    /\ pc = "send"
    /\ \/ /\ Fresh(freshness, out, now)
          /\ \/ /\ host' = IF codec = "h264" THEN Feed(host, hand) ELSE "intact"
                /\ pc' = Back
                /\ UNCHANGED waiting
             \/ Dropped
          /\ UNCHANGED <<haveSequence, lastSequence, out, freshness, gate, decoder, why>>
       \/ ~Fresh(freshness, out, now) /\ Ended("stale")
    /\ UNCHANGED <<outputVars, hand, now>>

Tick ==
    /\ now < NowMax
    /\ now' = now + 1
    /\ UNCHANGED <<outputVars, sessionVars>>

SessionStep ==
    \/ \E c \in Codecs : Begin(c)
    \/ Disconnect \/ Refuse \/ Process \/ Drain
    \/ Check \/ Open \/ Send

Next ==
    \/ SessionStep
    \/ pc # "closed" /\ OutputStep /\ UNCHANGED <<sessionVars, now>>
    \/ Tick

Spec == Init /\ [][Next]_vars
-----------------------------------------------------------------------------
TypeOK ==
    /\ codec \in Codecs
    /\ needKeyframe \in BOOLEAN /\ discontinuity \in BOOLEAN /\ haveSourceSeq \in BOOLEAN
    /\ missed \in BOOLEAN /\ terminal \in BOOLEAN /\ unsent \in BOOLEAN
    /\ outputSeq \in 0..(SeqSize - 1) /\ pts \in 0..PtsMax
    /\ wire \in Seq(Frames)
    /\ pc \in {"closed", "read", "drain", "check", "open", "send"}
    /\ waiting \in BOOLEAN /\ haveSequence \in BOOLEAN /\ lastSequence \in 0..(SeqSize - 1)
    /\ hand \in Frames /\ out \in 0..PtsMax
    /\ freshness \in Timelines /\ gate \in Gates
    /\ decoder \in Decoders /\ host \in Decoders
    /\ now \in 1..NowMax
    /\ why \in {"none", "disconnected", "refused", "undecodable", "stale"}

\* No decoder is ever fed a frame that refers to one it did not get: not the
\* host's ("a new compressed stream may not begin with a delta access unit",
\* media.c:499) and not the private one, whatever is lost before the sidecar and
\* whatever the host refuses.
Decodable == host # "spoiled" /\ decoder # "spoiled"

\* A frame is sent within the lag the timeline allows, also after a handshake
\* that "can consume up to four seconds" (media.c:290).
NeverStale ==
    [][pc = "send" /\ pc' = Back /\ host' # "none" /\ out # 0 =>
          now - freshness.at <= (out - freshness.pts) + MaxLag]_vars

\* The two ends agree on what a frame may be: the session refuses only a random
\* access picture of a type the sidecar does not know, and the number after
\* the last one.
OnlyForeignRefused == why = "refused" => hand.unit = "foreign" \/ hand.seq = 0
=============================================================================
