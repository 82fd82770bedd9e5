-------------------------- MODULE RtspManagerProofs --------------------------
(***************************************************************************)
(* What the RTSP manager keeps for every set of passwords.  The invariant   *)
(* is one: an operation decides what to do from the listener, the error and *)
(* the pause together, so none of the parts is inductive without the rest.  *)
(***************************************************************************)
EXTENDS RtspManager, TLAPS

\* What an operation in the middle has reached.
MidOperation ==
    /\ pc \in {"rotateSave", "reopen"} => run = NoPassword /\ listener = "stopped"
    /\ pc = "reopen" => enabled /\ available /\ ~paused
    /\ pc \in {"rotate", "rotateSave"} => paused
    /\ pc = "save" /\ available => ((run # NoPassword) <=> Target)
    /\ pc \in {"control", "rollback", "undo"} => available
    /\ pc # "idle" => done = "none"

RtspInv ==
    /\ TypeOK
    /\ MidOperation
    /\ ShownIsStored
    /\ IdentityCurrent
    /\ PausedReported
    /\ ListenerTruth
    /\ OfferEffective
    /\ QuietMeansRight

\* What control_locked does to the listener, on success and on failure.
LEMMA ControlEffect ==
    ASSUME TypeOK, IdentityCurrent, NEW on \in BOOLEAN, NEW ok \in BOOLEAN, Control(on, ok)
    PROVE  /\ run' \in {NoPassword, password}
           /\ run' \in Passwords \cup {NoPassword}
           /\ listener' = IF ok THEN (IF on THEN "running" ELSE "stopped") ELSE "unknown"
           /\ ok => ((run' # NoPassword) <=> on)
           /\ queryFailed' \in BOOLEAN
           /\ ~on /\ run = NoPassword => run' = NoPassword
  BY NoPasswordOK
  DEF TypeOK, IdentityCurrent, Control, Accepts, Fails, Refuses, Configured

\* A configuration is its three fields.
LEMMA ConfigFields ==
    ASSUME NEW c \in Config
    PROVE  /\ c = [enabled |-> c.enabled, audio |-> c.audio, password |-> c.password]
           /\ c.enabled \in BOOLEAN /\ c.audio \in BOOLEAN /\ c.password \in Passwords
  BY DEF Config

\* The manager starts right.
LEMMA InvInit == Init => RtspInv
  <1> SUFFICES ASSUME Init PROVE RtspInv
    OBVIOUS
  <1>1. TypeOK
    BY ConfigFields DEF Init, TypeOK, Errors
  <1>2. ShownIsStored
    BY ConfigFields DEF Init, ShownIsStored
  <1>3. /\ MidOperation /\ IdentityCurrent /\ PausedReported
        /\ ListenerTruth /\ OfferEffective /\ QuietMeansRight
    BY DEF Init, MidOperation, IdentityCurrent, PausedReported, ListenerTruth, OfferEffective,
           QuietMeansRight
  <1> QED
    BY <1>1, <1>2, <1>3 DEF RtspInv

\* An offer or its withdrawal.
LEMMA OfferKeeps ==
    ASSUME RtspInv, NEW on \in BOOLEAN, Offer(on)
    PROVE  RtspInv'
  <1> USE DEF RtspInv
  <1>1. CASE Unneeded(on)
    <2>1. /\ UNCHANGED <<run, source, prefVars, stateVars, pc, request, diskVars>>
          /\ done' = "offer" /\ pc = "idle"
      BY <1>1 DEF Offer
    <2>2. (run # NoPassword) <=> Previous
      BY <1>1, <2>1, NoPasswordOK
      DEF Unneeded, TypeOK, PausedReported, ListenerTruth, QuietMeansRight, Previous
    <2> QED
      BY <2>1, <2>2
      DEF prefVars, stateVars, diskVars, TypeOK, MidOperation, ShownIsStored, IdentityCurrent,
          PausedReported, ListenerTruth, OfferEffective, QuietMeansRight, Previous, Target
  <1>2. CASE ~Unneeded(on)
    <2>1. PICK ok \in BOOLEAN :
            /\ Control(OfferTarget(on), ok)
            /\ error' = CASE ~ok -> "control"
                          [] ok /\ ~paused /\ error \notin {"persist", "not_durable"} -> "none"
                          [] OTHER -> error
            /\ done' = IF ok THEN "offer" ELSE "none"
      BY <1>2 DEF Offer
    <2>2. /\ available' = on /\ pc = "idle" /\ pc' = "idle"
          /\ UNCHANGED <<paused, source, enabled, audio, password, request, stored, durable, synced>>
      BY <1>2 DEF Offer, prefVars, diskVars
    <2>3. OfferTarget(on) \in BOOLEAN
      BY DEF TypeOK, OfferTarget
    <2>4. /\ run' \in {NoPassword, password}
          /\ run' \in Passwords \cup {NoPassword}
          /\ listener' = IF ok THEN (IF OfferTarget(on) THEN "running" ELSE "stopped")
                        ELSE "unknown"
          /\ ok => ((run' # NoPassword) <=> OfferTarget(on))
          /\ queryFailed' \in BOOLEAN
      BY <2>1, <2>3, ControlEffect
    <2>5. TypeOK' /\ ShownIsStored' /\ IdentityCurrent'
      BY <2>1, <2>2, <2>4 DEF TypeOK, Errors, ShownIsStored, IdentityCurrent
    <2>6. PausedReported' /\ MidOperation'
      BY <2>1, <2>2 DEF PausedReported, MidOperation, TypeOK
    <2>7. OfferEffective' /\ ListenerTruth' /\ QuietMeansRight'
      BY <2>1, <2>2, <2>4
      DEF TypeOK, OfferEffective, ListenerTruth, QuietMeansRight, Previous, OfferTarget,
          PausedReported
    <2> QED
      BY <2>5, <2>6, <2>7
  <1> QED
    BY <1>1, <1>2

\* A read, a report, and the change of a source that is not offered.
LEMMA QuietStepsKeep ==
    ASSUME RtspInv, Read \/ (\E e \in {"reconnect", "persist"} : Report(e)) \/ SourceChange
    PROVE  RtspInv'
  <1> USE DEF RtspInv, diskVars, prefVars, stateVars
  <1>1. CASE Read
    <2>1. /\ pc = "idle"
          /\ \/ listener' = "unknown"
             \/ listener' = IF run = NoPassword THEN "stopped" ELSE "running"
          /\ queryFailed' \in BOOLEAN
          /\ \/ error' = error
             \/ error' = "none" /\ ~paused /\ ((run # NoPassword) <=> enabled /\ available)
          /\ UNCHANGED <<run, source, enabled, audio, password, available, paused, pc, request, done,
                         stored, durable, synced>>
      BY <1>1 DEF Read, Resolved
    <2> QED
      BY <2>1, NoPasswordOK
      DEF Errors, TypeOK, MidOperation, ShownIsStored, IdentityCurrent, PausedReported, ListenerTruth,
        OfferEffective, QuietMeansRight, Previous, Target
  <1>2. ASSUME NEW e \in {"reconnect", "persist"}, Report(e)
        PROVE  RtspInv'
    BY <1>2
    DEF Report, Errors, TypeOK, MidOperation, ShownIsStored, IdentityCurrent, PausedReported, ListenerTruth,
        OfferEffective, QuietMeansRight, Previous, Target
  <1>3. CASE SourceChange
    BY <1>3, NoPasswordOK
    DEF SourceChange, TypeOK, MidOperation, ShownIsStored, IdentityCurrent, PausedReported, ListenerTruth,
        OfferEffective, QuietMeansRight, Previous, Target
  <1> QED
    BY <1>1, <1>2, <1>3

\* The beginnings of the two requests.
LEMMA BeginKeeps ==
    ASSUME RtspInv,
           Rotate \/ (\E field \in {"enabled", "audio"}, value \in BOOLEAN : Update(field, value))
    PROVE  RtspInv'
  <1> USE DEF RtspInv, diskVars, prefVars, stateVars
  <1>1. CASE Rotate
    BY <1>1
    DEF Rotate, TypeOK, MidOperation, ShownIsStored, IdentityCurrent, PausedReported, ListenerTruth,
        OfferEffective, QuietMeansRight, Previous, Target
  <1>2. ASSUME NEW field \in {"enabled", "audio"}, NEW value \in BOOLEAN, Update(field, value)
        PROVE  RtspInv'
    BY <1>2
    DEF Update, TypeOK, MidOperation, ShownIsStored, IdentityCurrent, PausedReported, ListenerTruth,
        OfferEffective, QuietMeansRight, Previous, Target
  <1> QED
    BY <1>1, <1>2

\* An update asks for the listener it needs.
LEMMA UpdateControlKeeps ==
    ASSUME RtspInv, UpdateControl
    PROVE  RtspInv'
  <1> USE DEF RtspInv, diskVars, prefVars
  <1>1. PICK ok \in BOOLEAN : UpdateControl!2!(ok)
    BY DEF UpdateControl
  <1>2. /\ Target \in BOOLEAN
        /\ Control(Target, ok)
    BY <1>1 DEF TypeOK, Target, Previous
  <1>3. /\ run' \in {NoPassword, password}
        /\ run' \in Passwords \cup {NoPassword}
        /\ listener' = IF ok THEN (IF Target THEN "running" ELSE "stopped") ELSE "unknown"
        /\ ok => ((run' # NoPassword) <=> Target)
        /\ queryFailed' \in BOOLEAN
        /\ ~Target /\ run = NoPassword => run' = NoPassword
    BY <1>2, ControlEffect
  <1>4. TypeOK' /\ ShownIsStored' /\ IdentityCurrent'
    BY <1>1, <1>3 DEF UpdateControl, RotateEnd, TypeOK, Errors, ShownIsStored, IdentityCurrent
  <1>5. PausedReported' /\ MidOperation'
    BY <1>1, <1>3 DEF UpdateControl, RotateEnd, PausedReported, MidOperation, TypeOK, Target, Previous
  <1>6. OfferEffective' /\ ListenerTruth' /\ QuietMeansRight'
    BY <1>1, <1>3
    DEF UpdateControl, RotateEnd, TypeOK, OfferEffective, ListenerTruth, QuietMeansRight, Previous, Target,
        PausedReported, MidOperation
  <1> QED
    BY <1>4, <1>5, <1>6

\* An update that failed asks for the listener there was.
LEMMA UpdateRestoreKeeps ==
    ASSUME RtspInv, UpdateRestore
    PROVE  RtspInv'
  <1> USE DEF RtspInv, diskVars, prefVars
  <1>1. PICK ok \in BOOLEAN : UpdateRestore!2!(ok)
    BY DEF UpdateRestore
  <1>2. /\ Previous \in BOOLEAN
        /\ Control(Previous, ok)
    BY <1>1 DEF TypeOK, Target, Previous
  <1>3. /\ run' \in {NoPassword, password}
        /\ run' \in Passwords \cup {NoPassword}
        /\ listener' = IF ok THEN (IF Previous THEN "running" ELSE "stopped") ELSE "unknown"
        /\ ok => ((run' # NoPassword) <=> Previous)
        /\ queryFailed' \in BOOLEAN
        /\ ~Previous /\ run = NoPassword => run' = NoPassword
    BY <1>2, ControlEffect
  <1>4. TypeOK' /\ ShownIsStored' /\ IdentityCurrent'
    BY <1>1, <1>3 DEF UpdateRestore, RotateEnd, TypeOK, Errors, ShownIsStored, IdentityCurrent
  <1>5. PausedReported' /\ MidOperation'
    BY <1>1, <1>3 DEF UpdateRestore, RotateEnd, PausedReported, MidOperation, TypeOK, Target, Previous
  <1>6. OfferEffective' /\ ListenerTruth' /\ QuietMeansRight'
    BY <1>1, <1>3
    DEF UpdateRestore, RotateEnd, TypeOK, OfferEffective, ListenerTruth, QuietMeansRight, Previous, Target,
        PausedReported, MidOperation
  <1> QED
    BY <1>4, <1>5, <1>6

\* A rotation closes the listener first.
LEMMA RotateCloseKeeps ==
    ASSUME RtspInv, RotateClose
    PROVE  RtspInv'
  <1> USE DEF RtspInv, diskVars, prefVars
  <1>1. PICK ok \in BOOLEAN : RotateClose!2!(ok)
    BY DEF RotateClose
  <1>2. /\ FALSE \in BOOLEAN
        /\ Control(FALSE, ok)
    BY <1>1 DEF TypeOK, Target, Previous
  <1>3. /\ run' \in {NoPassword, password}
        /\ run' \in Passwords \cup {NoPassword}
        /\ listener' = IF ok THEN (IF FALSE THEN "running" ELSE "stopped") ELSE "unknown"
        /\ ok => ((run' # NoPassword) <=> FALSE)
        /\ queryFailed' \in BOOLEAN
        /\ ~FALSE /\ run = NoPassword => run' = NoPassword
    BY <1>2, ControlEffect
  <1>4. TypeOK' /\ ShownIsStored' /\ IdentityCurrent'
    BY <1>1, <1>3 DEF RotateClose, RotateEnd, TypeOK, Errors, ShownIsStored, IdentityCurrent
  <1>5. PausedReported' /\ MidOperation'
    BY <1>1, <1>3 DEF RotateClose, RotateEnd, PausedReported, MidOperation, TypeOK, Target, Previous
  <1>6. OfferEffective' /\ ListenerTruth' /\ QuietMeansRight'
    BY <1>1, <1>3
    DEF RotateClose, RotateEnd, TypeOK, OfferEffective, ListenerTruth, QuietMeansRight, Previous, Target,
        PausedReported, MidOperation
  <1> QED
    BY <1>4, <1>5, <1>6

\* A rotation reopens the listener under the new password.
LEMMA RotateReopenKeeps ==
    ASSUME RtspInv, RotateReopen
    PROVE  RtspInv'
  <1> USE DEF RtspInv, diskVars, prefVars
  <1>1. PICK ok \in BOOLEAN : RotateReopen!2!(ok)
    BY DEF RotateReopen
  <1>2. /\ TRUE \in BOOLEAN
        /\ Control(TRUE, ok)
    BY <1>1 DEF TypeOK, Target, Previous
  <1>3. /\ run' \in {NoPassword, password}
        /\ run' \in Passwords \cup {NoPassword}
        /\ listener' = IF ok THEN (IF TRUE THEN "running" ELSE "stopped") ELSE "unknown"
        /\ ok => ((run' # NoPassword) <=> TRUE)
        /\ queryFailed' \in BOOLEAN
        /\ ~TRUE /\ run = NoPassword => run' = NoPassword
    BY <1>2, ControlEffect
  <1>4. TypeOK' /\ ShownIsStored' /\ IdentityCurrent'
    BY <1>1, <1>3 DEF RotateReopen, RotateEnd, TypeOK, Errors, ShownIsStored, IdentityCurrent
  <1>5. PausedReported' /\ MidOperation'
    BY <1>1, <1>3 DEF RotateReopen, RotateEnd, PausedReported, MidOperation, TypeOK, Target, Previous
  <1>6. OfferEffective' /\ ListenerTruth' /\ QuietMeansRight'
    BY <1>1, <1>3
    DEF RotateReopen, RotateEnd, TypeOK, OfferEffective, ListenerTruth, QuietMeansRight, Previous, Target,
        PausedReported, MidOperation
  <1> QED
    BY <1>4, <1>5, <1>6

\* The two saves, with what is committed.
LEMMA SavesKeep ==
    ASSUME RtspInv, UpdateSave \/ RotateSave
    PROVE  RtspInv'
  <1> USE DEF RtspInv, diskVars, prefVars
  <1>1. CASE UpdateSave
    <2>1. /\ pc = "save"
          /\ UNCHANGED <<run, source, password, available, listener, queryFailed, request>>
      BY <1>1 DEF UpdateSave
    <2>2. ASSUME NEW sync \in BOOLEAN,
                 Save([enabled |-> request.enabled, audio |-> request.audio,
                       password |-> password], sync),
                 error' = CASE ~sync -> "not_durable"
                            [] sync /\ paused' -> error
                            [] OTHER -> "none",
                 done' = IF sync THEN "update" ELSE "none",
                 enabled' = request.enabled, audio' = request.audio,
                 paused' = (paused /\ ~request.explicit), pc' = "idle"
          PROVE  RtspInv'
      <3>1. TypeOK'
        BY <2>1, <2>2 DEF Save, TypeOK, Config, Errors
      <3>2. ShownIsStored' /\ IdentityCurrent' /\ ListenerTruth'
        BY <2>1, <2>2 DEF Save, ShownIsStored, IdentityCurrent, ListenerTruth
      <3>3. PausedReported' /\ MidOperation'
        BY <2>1, <2>2 DEF TypeOK, PausedReported, MidOperation
      <3>4. OfferEffective' /\ QuietMeansRight'
        BY <2>1, <2>2
        DEF TypeOK, PausedReported, MidOperation, OfferEffective, QuietMeansRight, Previous, Target
      <3> QED
        BY <3>1, <3>2, <3>3, <3>4
    <2>3. ASSUME UNCHANGED <<stored, durable, synced, enabled, audio, paused, done>>,
                 pc' = IF available THEN "undo" ELSE "idle",
                 error' = IF available THEN error ELSE "persist"
          PROVE  RtspInv'
      BY <2>1, <2>3
      DEF TypeOK, Errors, MidOperation, ShownIsStored, IdentityCurrent, PausedReported,
          ListenerTruth, OfferEffective, QuietMeansRight, Previous, Target
    <2> QED
      BY <1>1, <2>2, <2>3 DEF UpdateSave, SaveFails
  <1>2. CASE RotateSave
    <2>1. /\ pc = "rotateSave"
          /\ UNCHANGED <<run, source, enabled, audio, available, listener, queryFailed, request>>
          /\ run = NoPassword /\ listener = "stopped" /\ done = "none"
      BY <1>2 DEF RotateSave, MidOperation
    <2>2. ASSUME NEW new \in Candidates, NEW sync \in BOOLEAN,
                 Save([enabled |-> enabled, audio |-> audio, password |-> new], sync),
                 password' = new, paused' = FALSE,
                 \/ enabled /\ available /\ pc' = "reopen" /\ UNCHANGED <<error, done>>
                 \/ ~(enabled /\ available) /\ pc' = "idle" /\ RotateEnd(sync, TRUE)
          PROVE  RtspInv'
      <3>1. error' \in Errors /\ done' \in {"none", "rotate"} /\ pc' \in {"idle", "reopen"}
        BY <2>1, <2>2 DEF RotateEnd, TypeOK, Errors
      <3>2. TypeOK' /\ ShownIsStored' /\ IdentityCurrent' /\ ListenerTruth'
        BY <2>1, <2>2, <3>1
        DEF Candidates, Save, TypeOK, Config, ShownIsStored, IdentityCurrent, ListenerTruth
      <3>3. PausedReported' /\ MidOperation'
        BY <2>1, <2>2, <3>1 DEF TypeOK, PausedReported, MidOperation
      <3>4. OfferEffective' /\ QuietMeansRight'
        BY <2>1, <2>2, <3>1 DEF TypeOK, OfferEffective, QuietMeansRight
      <3> QED
        BY <3>2, <3>3, <3>4
    <2>3. ASSUME UNCHANGED <<stored, durable, synced, password, paused, done>>,
                 error' = "persist", pc' = "idle"
          PROVE  RtspInv'
      BY <2>1, <2>3
      DEF TypeOK, Errors, MidOperation, ShownIsStored, IdentityCurrent, PausedReported,
          ListenerTruth, OfferEffective, QuietMeansRight, Previous
    <2> QED
      BY <1>2, <2>2, <2>3 DEF RotateSave, SaveFails
  <1> QED
    BY <1>1, <1>2

\* A restart finds a stored configuration, the last one or the durable one.
LEMMA RestartKeeps == RtspInv /\ Restart => RtspInv'
  <1> SUFFICES ASSUME RtspInv, Restart PROVE RtspInv'
    OBVIOUS
  <1>1. stored' \in Config
    BY DEF RtspInv, TypeOK, Restart
  <1>2. TypeOK' /\ ShownIsStored'
    BY <1>1, ConfigFields DEF Restart, RtspInv, TypeOK, Errors, ShownIsStored
  <1>3. /\ MidOperation' /\ IdentityCurrent' /\ PausedReported'
        /\ ListenerTruth' /\ OfferEffective' /\ QuietMeansRight'
    BY DEF Restart, MidOperation, IdentityCurrent, PausedReported, ListenerTruth, OfferEffective,
           QuietMeansRight
  <1> QED
    BY <1>2, <1>3 DEF RtspInv

\* Every step keeps the invariant.
LEMMA InvNext == RtspInv /\ [Next]_vars => RtspInv'
  <1> SUFFICES ASSUME RtspInv, [Next]_vars PROVE RtspInv'
    OBVIOUS
  <1>1. CASE UNCHANGED vars
    BY <1>1
    DEF RtspInv, vars, diskVars, prefVars, stateVars, TypeOK, MidOperation, ShownIsStored, IdentityCurrent, PausedReported, ListenerTruth,
        OfferEffective, QuietMeansRight, Previous, Target
  <1>2. CASE Next
    BY <1>2, OfferKeeps, QuietStepsKeep, BeginKeeps, UpdateControlKeeps, UpdateRestoreKeeps,
       RotateCloseKeeps, RotateReopenKeeps, SavesKeep, RestartKeeps
    DEF Next
  <1> QED
    BY <1>1, <1>2

\* At every moment the invariant holds.
THEOREM Invariance == Spec => []RtspInv
  BY InvInit, InvNext, PTL DEF Spec

\* What the user is shown is what a restart finds, for every rotation, failed
\* save and loss of power.
THEOREM StoredIsShown == Spec => []ShownIsStored
  BY Invariance, PTL DEF RtspInv

\* No viewer is ever let in with a password that is not the shown one.
THEOREM IdentityNeverStale == Spec => []IdentityCurrent
  BY Invariance, PTL DEF RtspInv

\* A source is offered or withdrawn for good when xc_rtsp_source succeeds, also
\* on its path without a request.
THEOREM OffersEffective == Spec => []OfferEffective
  BY Invariance, PTL DEF RtspInv

\* While a source is offered, an absent error means the preference is in force.
THEOREM QuietIsRight == Spec => []QuietMeansRight
  BY Invariance, PTL DEF RtspInv

\* What the manager remembers of the listener, and skips or asserts things by, is
\* true of the sidecar whenever it claims to know.
THEOREM ListenerKnown == Spec => []ListenerTruth
  BY Invariance, PTL DEF RtspInv

\* Only an explicit request reopens a listener that a failed rotation has closed.
THEOREM PauseNeverBroken == Spec => PauseHolds
  <1>1. ASSUME RtspInv, [Next]_vars
        PROVE  [paused /\ run = NoPassword /\ run' # NoPassword =>
                  pc = "control" /\ request.explicit /\ request.enabled]_vars
    <2> SUFFICES ASSUME RtspInv, Next, paused, run = NoPassword, run' # NoPassword
                 PROVE  pc = "control" /\ request.explicit /\ request.enabled
      BY <1>1
    <2> USE DEF RtspInv
    <2>1. CASE Read \/ Rotate \/ UpdateSave \/ RotateSave \/ Restart
      BY <2>1 DEF Read, Rotate, UpdateSave, RotateSave, Restart
    <2>2. CASE SourceChange \/ (\E e \in {"reconnect", "persist"} : Report(e))
      BY <2>2 DEF SourceChange, Report
    <2>3. CASE \E field \in {"enabled", "audio"}, value \in BOOLEAN : Update(field, value)
      BY <2>3 DEF Update
    <2>4. ASSUME NEW on \in BOOLEAN, Offer(on)
          PROVE  FALSE
      <3>1. OfferTarget(on) = FALSE
        BY DEF OfferTarget
      <3>2. run' = run \/ (\E ok \in BOOLEAN : Control(FALSE, ok))
        BY <2>4, <3>1 DEF Offer
      <3> QED
        BY <3>2, ControlEffect
    <2>5. CASE UpdateControl
      <3>1. PICK ok \in BOOLEAN : Control(Target, ok)
        BY <2>5 DEF UpdateControl
      <3>2. Target
        BY <3>1, ControlEffect DEF Target, TypeOK
      <3> QED
        BY <2>5, <3>2 DEF UpdateControl, Target
    <2>6. CASE UpdateRestore \/ RotateClose
      <3>1. Previous = FALSE
        BY DEF Previous
      <3>2. \E ok \in BOOLEAN : Control(FALSE, ok)
        BY <2>6, <3>1 DEF UpdateRestore, RotateClose
      <3> QED
        BY <3>2, ControlEffect
    <2>7. CASE RotateReopen
      BY <2>7 DEF RotateReopen, MidOperation
    <2> QED
      BY <2>1, <2>2, <2>3, <2>4, <2>5, <2>6, <2>7 DEF Next
  <1> QED
    BY <1>1, Invariance, PTL DEF Spec, PauseHolds
=============================================================================
