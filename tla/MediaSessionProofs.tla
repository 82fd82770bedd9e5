------------------------- MODULE MediaSessionProofs -------------------------
(***************************************************************************)
(* What a decoder gets, for every size of the numbers and of the socket.    *)
(* The sidecar's part: every frame it writes follows the frame before it or *)
(* is a marked keyframe.  The session's part: while it is not waiting, the  *)
(* decoder has all that the next frame can refer to.  The last part is      *)
(* about time: no frame is handed on that its timeline has outrun.          *)
(***************************************************************************)
EXTENDS MediaSession, TLAPS

Sound(f) ==
    /\ f.key = Keyframe(f.unit)
    /\ f.disc => f.key
    /\ f.follows \/ f.disc

SoundFrames == {f \in Frames : Sound(f)}

OutputInv ==
    /\ codec \in Codecs
    /\ pts \in 0..PtsMax /\ outputSeq \in 0..(SeqSize - 1)
    /\ needKeyframe \in BOOLEAN /\ needKeyframe = discontinuity
    /\ haveSourceSeq \in BOOLEAN /\ missed \in BOOLEAN /\ unsent \in BOOLEAN
    /\ ~haveSourceSeq => discontinuity
    /\ unsent /\ ~terminal => discontinuity \/ SourceGap
    /\ wire \in Seq(SoundFrames)

\* What is being processed can be fed.
Feedable == Keyframe(hand.unit) \/ (host = "intact" /\ hand.follows)

SessionInv ==
    /\ pc # "closed" => why = "none"
    /\ pc = "drain" => codec = "h265"
    /\ pc = "open" => host = "none"
    /\ pc = "read" /\ ~waiting => IF codec = "h264" THEN host = "intact" ELSE decoder = "intact"
    /\ pc \in {"drain", "check", "open", "send"} /\ codec = "h265" => decoder = "intact"
    /\ pc \in {"check", "open", "send"} /\ codec = "h264" => Feedable

StreamInv ==
    /\ OutputInv
    /\ SessionInv
    /\ Decodable
    /\ OnlyForeignRefused

sidecar == <<codec, needKeyframe, discontinuity, haveSourceSeq, missed, outputSeq, pts,
             terminal, unsent>>

\* The next frame is sound, and taking it leaves sound ones.
LEMMA NextFrame ==
    ASSUME OutputInv, wire # <<>>
    PROVE  Head(wire) \in SoundFrames /\ Tail(wire) \in Seq(SoundFrames)
  BY DEF OutputInv

\* The sidecar's state is as good as before when only frames are read.
LEMMA OutputKept ==
    ASSUME OutputInv, UNCHANGED sidecar, wire' \in Seq(SoundFrames)
    PROVE  OutputInv'
  BY DEF OutputInv, sidecar, SourceGap

\* A frame written by the sidecar is sound.
LEMMA WrittenFrame ==
    ASSUME OutputInv, ~terminal,
           NEW unit \in Units(codec), unit # "broken", NEW t \in Times,
           Keyframe(unit) \/ ~(unit = "bare" \/ needKeyframe \/ SourceGap)
    PROVE  Frame(unit, t) \in SoundFrames
  <1>1. t \in 1..PtsMax
    BY WireOK DEF OutputInv, Times
  <1>2. (outputSeq + 1) % SeqSize \in 0..(SeqSize - 1)
    BY WireOK, Z3 DEF OutputInv
  <1>3. unit \in {"key", "bare", "delta", "foreign"}
    BY DEF Units
  <1>4. Frame(unit, t) \in Frames
    BY <1>1, <1>2, <1>3 DEF OutputInv, Frame, Frames, Keyframe, SourceGap
  <1>5. Sound(Frame(unit, t))
    BY DEF OutputInv, Sound, Frame, SourceGap
  <1> QED BY <1>4, <1>5 DEF SoundFrames

\* The sidecar's steps keep its part.
LEMMA OutputSteps ==
    ASSUME OutputInv, OutputStep
    PROVE  OutputInv'
  <1>1. CASE Lose
    BY <1>1 DEF Lose, OutputInv, SourceGap
  <1>2. ASSUME NEW unit \in Units(codec), Malformed(unit) PROVE OutputInv'
    BY <1>2 DEF Malformed, Resync, OutputInv, SourceGap
  <1>3. ASSUME NEW unit \in Units(codec), Accept(unit) PROVE OutputInv'
    <2>1. CASE ~Keyframe(unit) /\ (unit = "bare" \/ needKeyframe \/ SourceGap)
      BY <1>3, <2>1 DEF Accept, Resync, OutputInv, SourceGap
    <2>2. CASE Keyframe(unit) \/ ~(unit = "bare" \/ needKeyframe \/ SourceGap)
      <3>1. PICK t \in Times : Write(unit, t)
        BY <1>3, <2>2 DEF Accept
      <3>2. ~terminal /\ unit # "broken" /\ haveSourceSeq' = TRUE /\ missed' = FALSE
            /\ codec' = codec
        BY <1>3 DEF Accept
      <3>3. Frame(unit, t) \in SoundFrames
        BY <2>2, <3>2, WrittenFrame
      <3>4. t \in 0..PtsMax
        BY WireOK DEF OutputInv, Times
      <3>5. (outputSeq + 1) % SeqSize \in 0..(SeqSize - 1)
        BY WireOK, Z3 DEF OutputInv
      <3>6. CASE Len(wire) < WireMax
        <4>1. wire' \in Seq(SoundFrames)
          BY <3>1, <3>3, <3>6 DEF Write, OutputInv
        <4> QED BY <3>1, <3>2, <3>4, <3>5, <3>6, <4>1 DEF Write, OutputInv, SourceGap
      <3>7. CASE ~(Len(wire) < WireMax)
        BY <3>1, <3>2, <3>4, <3>5, <3>7 DEF Write, OutputInv, SourceGap
      <3> QED BY <3>6, <3>7
    <2> QED BY <2>1, <2>2
  <1> QED BY <1>1, <1>2, <1>3 DEF OutputStep

\* A session that ends leaves no decoder.
LEMMA EndedKeeps ==
    ASSUME OutputInv', NEW reason, Ended(reason),
           reason = "refused" => hand'.unit = "foreign" \/ hand'.seq = 0
    PROVE  StreamInv'
  BY DEF Ended, StreamInv, SessionInv, Decodable, OnlyForeignRefused

\* Only a random access picture of an unknown type, or number 0, is refused.
LEMMA RefusedFrames ==
    ASSUME NEW f \in SoundFrames, Refused(f)
    PROVE  f.unit = "foreign" \/ f.seq = 0
  BY DEF SoundFrames, Sound, Refused, Complete, Keyframe, Frames

\* Taking a frame: a decoder of the session gets what it can decode, and what is
\* left for the host's can be decoded there.
LEMMA ProcessKeeps ==
    ASSUME StreamInv, Process
    PROVE  StreamInv'
  <1> DEFINE f == Head(wire)
             kept == IF codec = "h265" /\ Resets(f) THEN "fresh" ELSE decoder
  <1>1. f \in SoundFrames /\ Tail(wire) \in Seq(SoundFrames)
    BY NextFrame DEF Process, StreamInv
  <1>2. /\ hand' = f /\ wire' = Tail(wire) /\ UNCHANGED sidecar
        /\ why' = why /\ pc = "read"
    BY DEF Process, sidecar
  <1>3. OutputInv'
    BY <1>1, <1>2, OutputKept DEF StreamInv
  <1>4. /\ host' = IF codec = "h264" /\ Resets(f) THEN "none" ELSE host
        /\ waiting' = ((waiting \/ Resets(f)) /\ ~f.key)
        /\ IF waiting' THEN pc' = "read" /\ decoder' = kept
           ELSE IF codec = "h264" THEN pc' = "check" /\ decoder' = kept
           ELSE pc' = "drain" /\ decoder' = Feed(kept, f)
    BY DEF Process
  <1>5. /\ f.key \in BOOLEAN /\ (f.key => Keyframe(f.unit)) /\ (f.disc => f.key)
        /\ f.follows \/ f.disc
    BY <1>1 DEF SoundFrames, Sound, Keyframe
  <1>6. f.disc => Resets(f)
    BY DEF Resets
  <1>7. why = "none" /\ codec \in Codecs
    BY <1>2 DEF StreamInv, SessionInv, OutputInv
  <1>8. ~waiting' => \/ Keyframe(f.unit)
                     \/ ~waiting /\ ~Resets(f) /\ f.follows
    <2>1. waiting' = ((waiting \/ Resets(f)) /\ ~f.key)
      BY <1>4
    <2>2. ~waiting' => f.key \/ (~waiting /\ ~Resets(f))
      BY <2>1, Zenon
    <2>3. f.key => Keyframe(f.unit)
      BY <1>5 DEF Keyframe
    <2>4. ~Resets(f) => f.follows
      BY <1>5, <1>6
    <2> QED BY <2>2, <2>3, <2>4
  <1>9. ~waiting /\ ~Resets(f) =>
            /\ codec = "h264" => host' = "intact"
            /\ codec = "h265" => kept = "intact"
    BY <1>2, <1>4 DEF StreamInv, SessionInv
  <1>10. host' # "spoiled" /\ decoder' # "spoiled"
    <2>1. host' # "spoiled" /\ kept # "spoiled"
      BY <1>4 DEF StreamInv, Decodable
    <2>2. ~waiting' /\ codec = "h265" => Feed(kept, f) = "intact"
      BY <1>8, <1>9 DEF Feed
    <2> QED BY <1>4, <1>7, <2>1, <2>2 DEF Codecs
  <1>11. SessionInv'
    <2>1. codec' = codec
      BY <1>2 DEF sidecar
    <2>2. CASE waiting'
      BY <1>2, <1>4, <1>7, <2>1, <2>2 DEF SessionInv
    <2>3. CASE ~waiting' /\ codec = "h264"
      <3>1. pc' = "check" /\ Feedable'
        BY <1>2, <1>4, <1>8, <1>9, <2>3 DEF Feedable
      <3> QED BY <1>2, <1>7, <2>1, <2>3, <3>1 DEF SessionInv
    <2>4. CASE ~waiting' /\ codec = "h265"
      <3>1. pc' = "drain" /\ decoder' = "intact"
        BY <1>4, <1>8, <1>9, <2>4 DEF Feed
      <3> QED BY <1>2, <1>7, <2>1, <2>4, <3>1 DEF SessionInv
    <2> QED BY <1>7, <2>2, <2>3, <2>4 DEF Codecs
  <1>12. OnlyForeignRefused'
    BY <1>2, <1>7 DEF OnlyForeignRefused
  <1> QED BY <1>3, <1>10, <1>11, <1>12 DEF StreamInv, Decodable

\* Every other step of the session.
LEMMA SessionSteps ==
    ASSUME StreamInv, SessionStep
    PROVE  StreamInv'
  <1>1. ASSUME NEW c \in Codecs, Begin(c) PROVE StreamInv'
    <2>1. OutputInv'
      <3>1. <<>> \in Seq(SoundFrames) /\ 0 \in 0..PtsMax /\ 0 \in 0..(SeqSize - 1)
        BY WireOK
      <3> QED BY <1>1, <3>1 DEF Begin, Attached, OutputInv, SourceGap
    <2> QED BY <1>1, <2>1 DEF Begin, Attached, StreamInv, SessionInv, Decodable,
                              OnlyForeignRefused, Codecs
  <1>2. CASE Disconnect
    <2>1. OutputInv'
      BY <1>2, OutputKept DEF Disconnect, StreamInv, outputVars, sidecar, OutputInv
    <2> QED BY <1>2, <2>1, EndedKeeps DEF Disconnect
  <1>3. CASE Refuse
    <2>1. Head(wire) \in SoundFrames /\ Tail(wire) \in Seq(SoundFrames)
      BY <1>3, NextFrame DEF Refuse, StreamInv
    <2>2. OutputInv'
      BY <1>3, <2>1, OutputKept DEF Refuse, StreamInv, sidecar
    <2> QED BY <1>3, <2>1, <2>2, RefusedFrames, EndedKeeps DEF Refuse
  <1>4. CASE Process
    BY <1>4, ProcessKeeps
  <1> DEFINE Quiet == Drain \/ Check \/ Open \/ Send
  <1>5. Quiet => OutputInv'
    BY OutputKept DEF Drain, Check, Open, Send, StreamInv, outputVars, sidecar, OutputInv
  <1>6. Quiet => hand' = hand /\ codec' = codec
    BY DEF Drain, Check, Open, Send, outputVars
  <1>7. codec \in Codecs
    BY DEF StreamInv, OutputInv
  <1>8. CASE Drain
    <2>1. CASE Ended("undecodable")
      BY <1>5, <1>8, <2>1, EndedKeeps
    <2>2. CASE pc' \in {"read", "check", "drain"} /\ UNCHANGED <<decoder, host, why>>
      BY <1>5, <1>6, <1>7, <1>8, <2>2
      DEF Drain, StreamInv, SessionInv, Decodable, OnlyForeignRefused
    <2> QED BY <1>8, <2>1, <2>2 DEF Drain
  <1>9. CASE Check
    <2>1. CASE Ended("stale")
      BY <1>5, <1>9, <2>1, EndedKeeps
    <2>2. CASE /\ pc' = IF host = "none" THEN "open" ELSE "send"
               /\ UNCHANGED <<decoder, host, why>>
      BY <1>5, <1>6, <1>7, <1>9, <2>2
      DEF Check, StreamInv, SessionInv, Decodable, OnlyForeignRefused, Feedable
    <2> QED BY <1>9, <2>1, <2>2 DEF Check
  <1>10. ASSUME Dropped, pc \in {"open", "send"}, hand' = hand, codec' = codec, OutputInv',
                UNCHANGED <<decoder, why>>
         PROVE  StreamInv'
    BY <1>7, <1>10
    DEF Dropped, Back, StreamInv, SessionInv, Decodable, OnlyForeignRefused, Codecs
  <1>11. CASE Open
    <2>1. CASE Dropped
      BY <1>5, <1>6, <1>10, <1>11, <2>1 DEF Open
    <2>2. CASE pc = "open" /\ host' = "fresh" /\ pc' = "send" /\ UNCHANGED <<decoder, why>>
      BY <1>5, <1>6, <1>11, <2>2
      DEF StreamInv, SessionInv, Decodable, OnlyForeignRefused, Feedable
    <2> QED BY <1>11, <2>1, <2>2 DEF Open
  <1>12. CASE Send
    <2>1. CASE Ended("stale")
      BY <1>5, <1>12, <2>1, EndedKeeps
    <2>2. CASE Dropped /\ UNCHANGED <<decoder, why>>
      BY <1>5, <1>6, <1>10, <1>12, <2>2 DEF Send
    <2>3. CASE /\ host' = IF codec = "h264" THEN Feed(host, hand) ELSE "intact"
               /\ pc' = Back /\ UNCHANGED <<decoder, why, waiting>>
      <3>1. host' = "intact"
        BY <1>12, <2>3 DEF Send, StreamInv, SessionInv, Feedable, Feed
      <3> QED BY <1>5, <1>6, <1>7, <1>12, <2>3, <3>1
              DEF Send, Back, StreamInv, SessionInv, Decodable, OnlyForeignRefused, Codecs
    <2> QED BY <1>12, <2>1, <2>2, <2>3 DEF Send
  <1> QED BY <1>1, <1>2, <1>3, <1>4, <1>8, <1>9, <1>11, <1>12 DEF SessionStep

\* The invariant holds in every state of every session: whatever is lost on the
\* way to the sidecar and whatever the host refuses.
THEOREM Invariance == Spec => []StreamInv
  <1>1. Init => StreamInv
    <2> SUFFICES ASSUME Init PROVE StreamInv
      OBVIOUS
    <2>1. <<>> \in Seq(SoundFrames) /\ 0 \in 0..PtsMax /\ 0 \in 0..(SeqSize - 1)
      BY WireOK
    <2>2. OutputInv
      BY <2>1 DEF Init, OutputInv, SourceGap
    <2> QED BY <2>2 DEF Init, StreamInv, SessionInv, Decodable, OnlyForeignRefused
  <1>2. StreamInv /\ [Next]_vars => StreamInv'
    <2> SUFFICES ASSUME StreamInv, [Next]_vars PROVE StreamInv'
      OBVIOUS
    <2>1. CASE SessionStep
      BY <2>1, SessionSteps
    <2>2. CASE pc # "closed" /\ OutputStep /\ UNCHANGED <<sessionVars, now>>
      <3>1. OutputInv'
        BY <2>2, OutputSteps DEF StreamInv
      <3>2. codec' = codec
        BY <2>2 DEF OutputStep, Lose, Malformed, Accept
      <3> QED BY <2>2, <3>1, <3>2
              DEF sessionVars, StreamInv, SessionInv, Decodable, OnlyForeignRefused, Feedable
    <2>3. CASE UNCHANGED <<outputVars, sessionVars>>
      <3>1. OutputInv'
        BY <2>3, OutputKept DEF StreamInv, outputVars, sidecar, OutputInv
      <3> QED BY <2>3, <3>1 DEF outputVars, sessionVars, StreamInv, SessionInv, Decodable,
                                OnlyForeignRefused, Feedable
    <2> QED BY <2>1, <2>2, <2>3 DEF Next, Tick, vars
  <1> QED BY <1>1, <1>2, PTL DEF Spec

\* No decoder is fed a frame that refers to one it did not get (media.c:473-508).
THEOREM NeverSpoiled == Spec => []Decodable
  <1>1. StreamInv => Decodable
    BY DEF StreamInv
  <1> QED BY <1>1, Invariance, PTL

\* The session refuses only what the sidecar does not know (media.c:470).
THEOREM FramesAgree == Spec => []OnlyForeignRefused
  <1>1. StreamInv => OnlyForeignRefused
    BY DEF StreamInv
  <1> QED BY <1>1, Invariance, PTL
-----------------------------------------------------------------------------
(* The clock and the timeline *)

\* A frame that passed the first look has started its timeline, or has no time.
Timed == pc \in {"open", "send"} /\ out # 0 => freshness.started

TimeInv ==
    /\ TypeOK
    /\ Timed

\* The rate gate keeps to its types, saturated or not.
LEMMA GateTyped ==
    ASSUME NEW g \in Gates, NEW t \in 0..TimeMax
    PROVE  GateStep(g, t) \in Gates
  <1>1. t \in Nat /\ g.next \in 0..TimeMax /\ GateReset \in Gates
    BY TimeMaxOK DEF Gates, GateReset
  <1>2. Capped(t + Interval) \in 0..TimeMax
    BY <1>1, IntervalOK, TimeMaxOK DEF Capped
  <1>3. t >= g.next => Capped(Advanced(g.next, t)) \in 0..TimeMax
    <2> SUFFICES ASSUME t >= g.next PROVE Capped(Advanced(g.next, t)) \in 0..TimeMax
      OBVIOUS
    <2>1. t - g.next \in Nat /\ g.next \in Nat
      BY <1>1, TimeMaxOK
    <2> DEFINE n == (t - g.next) \div Interval + 1
    <2>2. n \in Nat
      BY <2>1, IntervalOK, Z3
    <2> HIDE DEF n
    <2>3. n * Interval \in Nat
      BY <2>2, IntervalOK, SMT
    <2>4. Advanced(g.next, t) = g.next + n * Interval
      BY DEF Advanced, n
    <2>5. Advanced(g.next, t) \in Nat
      BY <2>1, <2>3, <2>4
    <2> QED
      BY <2>5, TimeMaxOK DEF Capped
  <1>4. ~(t < g.next) => t >= g.next
    BY <1>1, TimeMaxOK
  <1> QED
    BY <1>1, <1>2, <1>3, <1>4, TimeMaxOK DEF GateStep, Gates

\* A session that ends keeps the types.
LEMMA EndedTyped ==
    ASSUME TimeInv, NEW reason \in {"disconnected", "refused", "undecodable", "stale"},
           Ended(reason), hand' \in Frames, now' = now,
           UNCHANGED <<codec, needKeyframe, discontinuity, haveSourceSeq, missed, outputSeq, pts,
                       terminal, unsent>>,
           wire' \in Seq(Frames)
    PROVE  TimeInv'
  BY DEF Ended, TimeInv, TypeOK, Timed, Decoders

\* The sidecar's output keeps its types, beside a session that does nothing.
LEMMA OutputTyped ==
    ASSUME TimeInv, OutputStep, UNCHANGED <<sessionVars, now>>
    PROVE  TimeInv'
  <1> USE DEF TimeInv
  <1> DEFINE Sent == /\ codec \in Codecs /\ needKeyframe \in BOOLEAN
                     /\ discontinuity \in BOOLEAN /\ haveSourceSeq \in BOOLEAN
                     /\ missed \in BOOLEAN /\ terminal \in BOOLEAN /\ unsent \in BOOLEAN
                     /\ outputSeq \in 0..(SeqSize - 1) /\ pts \in 0..PtsMax
                     /\ wire \in Seq(Frames)
  <1>1. Sent
    BY DEF TypeOK
  <1>2. Sent'
    <2>1. CASE Lose
      BY <1>1, <2>1 DEF Lose
    <2>2. ASSUME NEW unit \in Units(codec), Malformed(unit) PROVE Sent'
      BY <1>1, <2>2 DEF Malformed, Resync
    <2>3. ASSUME NEW unit \in Units(codec), Accept(unit),
                 ~(\E t \in Times : Write(unit, t))
          PROVE  Sent'
      BY <1>1, <2>3 DEF Accept, Resync
    <2>4. ASSUME NEW unit \in Units(codec), Accept(unit), NEW t \in Times, Write(unit, t)
          PROVE  Sent'
      <3>1. t \in 1..PtsMax /\ t \in 0..PtsMax
        BY <1>1, WireOK DEF Times
      <3>2. (outputSeq + 1) % SeqSize \in 0..(SeqSize - 1)
        BY <1>1, WireOK, Z3
      <3>3. unit \in {"key", "bare", "delta", "foreign"}
        BY <2>4 DEF Accept, Units
      <3>4. Keyframe(unit) \in BOOLEAN /\ SourceGap \in BOOLEAN
        BY <1>1 DEF Keyframe, SourceGap
      <3>5. Frame(unit, t) \in Frames
        BY <1>1, <3>1, <3>2, <3>3, <3>4 DEF Frame, Frames
      <3> HIDE DEF Sent
      <3>6. /\ haveSourceSeq' = TRUE /\ missed' = FALSE /\ codec' = codec
        BY <2>4 DEF Accept
      <3>7. CASE Len(wire) < WireMax
        <4>1. wire' \in Seq(Frames)
          BY <1>1, <2>4, <3>5, <3>7 DEF Write, Sent
        <4> QED
          BY <1>1, <2>4, <3>1, <3>2, <3>6, <3>7, <4>1 DEF Write, Sent
      <3>8. CASE ~(Len(wire) < WireMax)
        BY <1>1, <2>4, <3>1, <3>2, <3>4, <3>6, <3>8 DEF Write, Sent
      <3> QED
        BY <3>7, <3>8
    <2> QED
      BY <2>1, <2>2, <2>3, <2>4 DEF OutputStep
  <1> QED
    BY <1>2 DEF TypeOK, Timed, sessionVars

\* The session's steps keep the types, and every frame that passes the first
\* look has a timeline.
LEMMA SessionTimed ==
    ASSUME TimeInv, SessionStep
    PROVE  TimeInv'
  <1> USE DEF TimeInv
  <1>1. ASSUME NEW c \in Codecs, Begin(c) PROVE TimeInv'
    <2>1. <<>> \in Seq(Frames) /\ 0 \in 0..PtsMax /\ 0 \in 0..(SeqSize - 1)
          /\ FreshReset \in Timelines /\ GateReset \in Gates
      BY WireOK, TimeMaxOK DEF FreshReset, Timelines, GateReset, Gates
    <2> QED
      BY <1>1, <2>1 DEF Begin, Attached, TypeOK, Timed, Decoders
  <1>2. CASE Disconnect
    BY <1>2, EndedTyped DEF Disconnect, outputVars, TypeOK
  <1>3. wire # <<>> => Head(wire) \in Frames /\ Tail(wire) \in Seq(Frames)
    BY DEF TypeOK
  <1>4. CASE Refuse
    BY <1>3, <1>4, EndedTyped DEF Refuse
  <1>5. CASE Process
    <2> DEFINE f == Head(wire)
               kept == IF codec = "h265" /\ Resets(f) THEN "fresh" ELSE decoder
    <2>1. f \in Frames /\ Tail(wire) \in Seq(Frames)
      BY <1>3, <1>5 DEF Process
    <2>2. /\ hand' = f /\ wire' = Tail(wire) /\ UNCHANGED sidecar
          /\ UNCHANGED <<why, now>>
          /\ haveSequence' = TRUE /\ lastSequence' = f.seq
          /\ freshness' = (IF Resets(f) THEN FreshReset ELSE freshness)
          /\ gate' = (IF Resets(f) THEN GateReset ELSE gate)
          /\ host' = (IF codec = "h264" /\ Resets(f) THEN "none" ELSE host)
          /\ waiting' = ((waiting \/ Resets(f)) /\ ~f.key)
      BY <1>5 DEF Process, sidecar
    <2>3. /\ pc' \in {"read", "check", "drain"}
          /\ decoder' \in {kept, Feed(kept, f)}
          /\ out' \in {out, f.pts}
      BY <1>5 DEF Process
    <2>4. /\ f.seq \in 0..(SeqSize - 1) /\ f.pts \in 0..PtsMax /\ f.key \in BOOLEAN
          /\ FreshReset \in Timelines /\ GateReset \in Gates
      BY <2>1, WireOK, TimeMaxOK DEF Frames, FreshReset, Timelines, GateReset, Gates
    <2>5. kept \in Decoders /\ Feed(kept, f) \in Decoders
      BY DEF TypeOK, Decoders, Feed
    <2>6. waiting' \in BOOLEAN /\ host' \in Decoders
      BY <2>2 DEF TypeOK, Decoders
    <2> QED
      BY <2>1, <2>2, <2>3, <2>4, <2>5, <2>6 DEF sidecar, TypeOK, Timed
  <1>6. CASE Drain
    <2>1. CASE Ended("undecodable")
      BY <1>6, <2>1, EndedTyped DEF Drain, outputVars, TypeOK
    <2>2. ASSUME NEW p \in 0..hand.pts,
                 gate' = GateStep(gate, IF p # 0 THEN p ELSE now),
                 (pc' = "check" /\ out' = p) \/ UNCHANGED <<pc, out>>,
                 UNCHANGED <<freshness, decoder, host, why>>
          PROVE  TimeInv'
      <3>1. p \in 0..PtsMax
        BY WireOK DEF TypeOK, Frames
      <3>2. (IF p # 0 THEN p ELSE now) \in 0..TimeMax
        BY <3>1, NowMaxOK, WireOK, TimeMaxOK DEF TypeOK
      <3>3. gate' \in Gates
        BY <2>2, <3>2, GateTyped DEF TypeOK
      <3> QED
        BY <1>6, <2>2, <3>1, <3>3 DEF Drain, outputVars, TypeOK, Timed
    <2>3. CASE pc' = "read" /\ UNCHANGED <<gate, out, freshness, decoder, host, why>>
      BY <1>6, <2>3 DEF Drain, outputVars, TypeOK, Timed
    <2> QED
      BY <1>6, <2>1, <2>2, <2>3 DEF Drain
  <1>7. CASE Check
    <2>1. CASE Ended("stale")
      BY <1>7, <2>1, EndedTyped DEF Check, outputVars, TypeOK
    <2>2. CASE /\ freshness' = FreshStep(freshness, out, now)
               /\ pc' = (IF host = "none" THEN "open" ELSE "send")
               /\ UNCHANGED <<waiting, haveSequence, lastSequence, gate, out, decoder, host, why>>
      <3>1. out \in 0..TimeMax /\ now \in 0..TimeMax
        BY NowMaxOK, WireOK, TimeMaxOK DEF TypeOK
      <3>2. freshness' \in Timelines
        BY <2>2, <3>1 DEF FreshStep, Timelines, TypeOK
      <3>3. out # 0 => freshness'.started
        BY <2>2 DEF FreshStep
      <3> QED
        BY <1>7, <2>2, <3>2, <3>3 DEF Check, outputVars, TypeOK, Timed
    <2> QED
      BY <1>7, <2>1, <2>2 DEF Check
  <1>8. ASSUME NEW place \in {"open", "send"}, pc = place,
               pc' \in {"send", Back}, host' \in Decoders, waiting' \in BOOLEAN,
               UNCHANGED <<outputVars, haveSequence, lastSequence, hand, out, freshness, gate,
                           decoder, why, now>>
        PROVE  TimeInv'
    BY <1>8 DEF Back, outputVars, TypeOK, Timed
  <1>9. Dropped => pc' = Back /\ host' \in Decoders /\ waiting' \in BOOLEAN
    BY DEF Dropped, Decoders, TypeOK
  <1>10. CASE Open
    BY <1>8, <1>9, <1>10 DEF Open, Decoders, TypeOK
  <1>11. CASE Send
    <2>1. CASE Ended("stale")
      BY <1>11, <2>1, EndedTyped DEF Send, outputVars, TypeOK
    <2>2. CASE ~Ended("stale")
      <3>1. Feed(host, hand) \in Decoders /\ "intact" \in Decoders
        BY DEF Feed, Decoders
      <3> QED
        BY <1>8, <1>9, <1>11, <2>2, <3>1 DEF Send, TypeOK
    <2> QED
      BY <2>1, <2>2
  <1> QED
    BY <1>1, <1>2, <1>4, <1>5, <1>6, <1>7, <1>10, <1>11 DEF SessionStep

\* Module MediaSession keeps its types, and the timeline is started in time.
LEMMA TimeInvariance == Spec => []TimeInv
  <1>1. Init => TimeInv
    <2> SUFFICES ASSUME Init PROVE TimeInv
      OBVIOUS
    <2>1. /\ <<>> \in Seq(Frames) /\ 0 \in 0..PtsMax /\ 0 \in 0..(SeqSize - 1)
          /\ 1 \in 1..NowMax
          /\ FreshReset \in Timelines /\ GateReset \in Gates
      BY WireOK, TimeMaxOK, NowMaxOK DEF FreshReset, Timelines, GateReset, Gates
    <2>2. NoFrame \in Frames
      BY WireOK DEF NoFrame, Frames
    <2> QED
      BY <2>1, <2>2 DEF Init, TimeInv, TypeOK, Timed, Decoders
  <1>2. TimeInv /\ [Next]_vars => TimeInv'
    <2> SUFFICES ASSUME TimeInv, [Next]_vars PROVE TimeInv'
      OBVIOUS
    <2>1. CASE SessionStep
      BY <2>1, SessionTimed
    <2>2. CASE pc # "closed" /\ OutputStep /\ UNCHANGED <<sessionVars, now>>
      BY <2>2, OutputTyped
    <2>3. CASE Tick
      BY <2>3, NowMaxOK DEF Tick, outputVars, sessionVars, TimeInv, TypeOK, Timed
    <2>4. CASE UNCHANGED vars
      BY <2>4 DEF vars, outputVars, sessionVars, TimeInv, TypeOK, Timed
    <2> QED
      BY <2>1, <2>2, <2>3, <2>4 DEF Next
  <1> QED
    BY <1>1, <1>2, PTL DEF Spec

\* The step that gives a frame to the host leaves "send" for the next frame
\* and keeps the host's session.
LEMMA OnlySendDelivers ==
    ASSUME Next, pc = "send", pc' = Back, host' # "none"
    PROVE  Send /\ Fresh(freshness, out, now)
  <1>1. pc' \in {"read", "drain"}
    BY DEF Back
  <1>2. SessionStep
    BY <1>1 DEF Next, sessionVars, Tick
  <1>3. Send
    BY <1>2 DEF SessionStep, Begin, Disconnect, Refuse, Process, Drain, Check, Open
  <1> QED
    BY <1>1, <1>3 DEF Send, Ended

\* Whatever the handshake with the host takes, a frame with a time that reaches
\* it lies within the lag of its timeline (media.c:289-298).
THEOREM StaleNeverSent == Spec => NeverStale
  <1>1. ASSUME TimeInv, [Next]_vars
        PROVE  [pc = "send" /\ pc' = Back /\ host' # "none" /\ out # 0 =>
                  now - freshness.at <= (out - freshness.pts) + MaxLag]_vars
    <2> SUFFICES ASSUME Next, pc = "send", pc' = Back, host' # "none", out # 0
                 PROVE  now - freshness.at <= (out - freshness.pts) + MaxLag
      BY <1>1
    <2>1. Fresh(freshness, out, now)
      BY OnlySendDelivers
    <2>2. (now - freshness.at) - (out - freshness.pts) <= MaxLag
      BY <1>1, <2>1 DEF TimeInv, Timed, Fresh
    <2>3. /\ now \in Int /\ out \in Int /\ MaxLag \in Int
          /\ freshness.at \in Int /\ freshness.pts \in Int
      BY <1>1, MaxLagOK, NowMaxOK, WireOK, TimeMaxOK DEF TimeInv, TypeOK, Timelines
    <2> QED
      BY <2>2, <2>3
  <1> QED
    BY <1>1, TimeInvariance, PTL DEF Spec, NeverStale
=============================================================================
