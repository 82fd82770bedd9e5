---------------------------- MODULE RtspManager ----------------------------
(***************************************************************************)
(* struct xc_rtsp (src/mhcamera/src/rtsp.c): the RTSP preferences and the   *)
(* playback password on disk, and the sidecar's listener, which is opened   *)
(* only through control_locked.  Every operation holds rtsp->lock from its  *)
(* beginning to its end; a step is one call to the sidecar or the store     *)
(* with the assignments that follow it.                                     *)
(***************************************************************************)
EXTENDS RtspListener

VARIABLES
    enabled, audio, password,   \* the committed preferences and identity
    available,                  \* rtsp->source_available
    paused,                     \* rtsp->refresh_paused
    listener, queryFailed, error,
    pc,                         \* where the operation that holds the lock is
    request,                    \* xc_rtsp_route's desired preferences
    done,                       \* the operation that has succeeded last
    stored,                     \* rtsp.json
    durable,                    \* what rtsp.json holds after a loss of power
    synced                      \* the last save was durable

prefVars == <<enabled, audio, password>>
stateVars == <<available, paused, listener, queryFailed, error>>
diskVars == <<stored, durable, synced>>
vars == <<run, source, prefVars, stateVars, pc, request, done, diskVars>>

Config == [enabled : BOOLEAN, audio : BOOLEAN, password : Passwords]
Errors == {"none", "control", "persist", "not_durable", "rollback", "reconnect"}

\* xc_rtsp_create with what rtsp.json holds, in a new sidecar.
Init ==
    /\ stored \in Config
    /\ durable = stored /\ synced = TRUE
    /\ enabled = stored.enabled /\ audio = stored.audio /\ password = stored.password
    /\ available = FALSE /\ paused = FALSE
    /\ listener = "unknown" /\ queryFailed = FALSE /\ error = "none"
    /\ pc = "idle" /\ done = "none"
    /\ request = [enabled |-> FALSE, audio |-> FALSE, explicit |-> FALSE]
    /\ run = NoPassword /\ source = FALSE
-----------------------------------------------------------------------------
(* control_locked *)

\* Mutant: a failed request leaves the listener's last observation.
ControlKeepsListener(on, ok) ==
    IF ok THEN /\ Accepts(on, password)
               /\ listener' = IF on THEN "running" ELSE "stopped"
               /\ queryFailed' = FALSE
    ELSE Fails(on, password) /\ UNCHANGED <<listener, queryFailed>>

\* A request to open or close the listener, and its answer.
Control(on, ok) ==
    IF ok THEN /\ Accepts(on, password)
               /\ listener' = IF on THEN "running" ELSE "stopped"
               /\ queryFailed' = FALSE
    ELSE Fails(on, password) /\ listener' = "unknown" /\ UNCHANGED queryFailed

\* Mutant: any answer clears the doubt.
ResolvedUnmatched(state) == ~paused /\ error = "control"

\* A read resolves the doubt a failed request has left, when the listener is
\* what the preferences ask for.
Resolved(state) ==
    /\ ~paused
    /\ error = "control"
    /\ ((state = "running") <=> enabled /\ available)

\* GET /rtsp and the snapshots the worker reads.
Read ==
    /\ pc = "idle"
    /\ \/ LET state == IF run = NoPassword THEN "stopped" ELSE "running" IN
          /\ listener' = state
          /\ queryFailed' = FALSE
          /\ error' = IF Resolved(state) THEN "none" ELSE error
       \/ listener' = "unknown" /\ queryFailed' = TRUE /\ UNCHANGED error
    /\ UNCHANGED <<run, source, prefVars, available, paused, pc, request, done, diskVars>>
-----------------------------------------------------------------------------
(* xc_rtsp_source and xc_rtsp_error, called by the service's worker *)

\* Mutant: the listener's state is not compared.
UnneededIfSame(on) == available = on /\ error = "none"

\* The listener is known to be what the offer asks for.
Unneeded(on) ==
    /\ available = on
    /\ error = "none"
    /\ listener # "unknown"
    /\ ((listener = "running") <=> on /\ enabled)

\* Mutant: the pause is not looked at.
OfferTargetPaused(on) == on /\ enabled

OfferTarget(on) == on /\ enabled /\ ~paused

\* The source comes or goes.  Success clears an error about the listener, but
\* none about the store.
Offer(on) ==
    /\ pc = "idle"
    /\ IF Unneeded(on)
       THEN done' = "offer" /\ UNCHANGED <<run, stateVars>>
       ELSE /\ available' = on
            /\ \E ok \in BOOLEAN :
                 /\ Control(OfferTarget(on), ok)
                 /\ error' = CASE ~ok -> "control"
                               [] ok /\ ~paused /\ error \notin {"persist", "not_durable"} -> "none"
                               [] OTHER -> error
                 /\ done' = IF ok THEN "offer" ELSE "none"
            /\ UNCHANGED paused
    /\ UNCHANGED <<source, prefVars, pc, request, diskVars>>

\* A failed pass or a released source is reported on top of the manager's own
\* error, except a durability failure.
Report(e) ==
    /\ pc = "idle"
    /\ error' = IF error = "not_durable" THEN error ELSE e
    /\ UNCHANGED <<run, source, prefVars, available, paused, listener, queryFailed, pc, request,
                   done, diskVars>>
-----------------------------------------------------------------------------
(* POST /rtsp *)

Previous == enabled /\ available /\ ~paused

Target == request.enabled /\ available /\ (~paused \/ request.explicit)

\* One field is to change; "explicit" is a request for the enabled field.
Update(field, value) ==
    /\ pc = "idle"
    /\ request' = [enabled  |-> IF field = "enabled" THEN value ELSE enabled,
                   audio    |-> IF field = "audio" THEN value ELSE audio,
                   explicit |-> field = "enabled"]
    /\ IF request'.enabled = enabled /\ request'.audio = audio /\ error = "none"
       THEN done' = "update" /\ UNCHANGED pc
       ELSE done' = "none" /\ pc' = IF available THEN "control" ELSE "save"
    /\ UNCHANGED <<run, source, prefVars, stateVars, diskVars>>

\* The listener first; a failed request is answered by the committed intent,
\* because the sidecar may have obeyed it.
UpdateControl ==
    /\ pc = "control"
    /\ \E ok \in BOOLEAN :
         /\ Control(Target, ok)
         /\ error' = IF ok THEN error ELSE "control"
         /\ pc' = IF ok THEN "save" ELSE "rollback"
    /\ UNCHANGED <<source, prefVars, available, paused, request, done, diskVars>>

\* Mutant: the file is not written.
SaveForgotten(config, sync) == UNCHANGED <<stored, durable>> /\ synced' = sync

\* xc_store_atomic_write: the new file is there or it is not, and when it is,
\* a loss of power may still undo the rename.
Save(config, sync) ==
    /\ stored' = config
    /\ durable' = IF sync THEN config ELSE durable
    /\ synced' = sync

SaveFails == UNCHANGED diskVars

\* The preferences are committed with the file.
UpdateSave ==
    /\ pc = "save"
    /\ \/ /\ paused' = (paused /\ ~request.explicit)
          /\ \E sync \in BOOLEAN :
               /\ Save([enabled |-> request.enabled, audio |-> request.audio,
                        password |-> password], sync)
               /\ error' = CASE ~sync   -> "not_durable"
                             [] sync /\ paused' -> error
                             [] OTHER   -> "none"
               /\ done' = IF sync THEN "update" ELSE "none"
          /\ enabled' = request.enabled /\ audio' = request.audio
          /\ pc' = "idle"
       \/ /\ SaveFails
          /\ pc' = IF available THEN "undo" ELSE "idle"
          /\ error' = IF available THEN error ELSE "persist"
          /\ UNCHANGED <<enabled, audio, paused, done>>
    /\ UNCHANGED <<run, source, password, available, listener, queryFailed, request>>

\* The committed intent is restored after a failed request or a failed save.
UpdateRestore ==
    /\ pc \in {"rollback", "undo"}
    /\ \E ok \in BOOLEAN :
         /\ Control(Previous, ok)
         /\ error' = CASE ~ok -> "rollback"
                       [] ok /\ pc = "rollback" -> "control"
                       [] OTHER -> "persist"
    /\ pc' = "idle"
    /\ UNCHANGED <<source, prefVars, available, paused, request, done, diskVars>>
-----------------------------------------------------------------------------
(* POST /rtsp/credentials: refresh_password_locked *)

\* From here on only a new password or an explicit request opens the listener.
Rotate ==
    /\ pc = "idle"
    /\ paused' = TRUE
    /\ done' = "none"
    /\ pc' = "rotate"
    /\ UNCHANGED <<run, source, prefVars, available, listener, queryFailed, error, request,
                   diskVars>>

\* Mutant: the old listener is not known to be closed.
RotateCloseUnchecked ==
    /\ pc = "rotate"
    /\ \E ok \in BOOLEAN :
         /\ Control(FALSE, ok)
         /\ error' = IF ok THEN error ELSE "control"
    /\ pc' = "rotateSave"
    /\ UNCHANGED <<source, prefVars, available, paused, request, done, diskVars>>

RotateClose ==
    /\ pc = "rotate"
    /\ \E ok \in BOOLEAN :
         /\ Control(FALSE, ok)
         /\ error' = IF ok THEN error ELSE "control"
         /\ pc' = IF ok THEN "rotateSave" ELSE "idle"
    /\ UNCHANGED <<source, prefVars, available, paused, request, done, diskVars>>

\* The rotation is committed, durably or not, and the listener done with.
RotateEnd(sync, ok) ==
    /\ error' = CASE ~sync -> "not_durable"
                  [] sync /\ ~ok -> "control"
                  [] OTHER -> "none"
    /\ done' = IF sync /\ ok THEN "rotate" ELSE "none"

\* generate_password.
Candidates == Passwords \ {password}

\* The new password is committed with the file; when it is not, the listener
\* stays closed.
RotateSave ==
    /\ pc = "rotateSave"
    /\ \/ /\ \E new \in Candidates, sync \in BOOLEAN :
               /\ Save([enabled |-> enabled, audio |-> audio, password |-> new], sync)
               /\ password' = new
               /\ IF enabled /\ available THEN pc' = "reopen" /\ UNCHANGED <<error, done>>
                  ELSE pc' = "idle" /\ RotateEnd(sync, TRUE)
          /\ paused' = FALSE
       \/ /\ SaveFails
          /\ error' = "persist"
          /\ pc' = "idle"
          /\ UNCHANGED <<password, paused, done>>
    /\ UNCHANGED <<run, source, enabled, audio, available, listener, queryFailed, request>>

RotateReopen ==
    /\ pc = "reopen"
    /\ \E ok \in BOOLEAN : Control(TRUE, ok) /\ RotateEnd(synced, ok)
    /\ pc' = "idle"
    /\ UNCHANGED <<source, prefVars, available, paused, request, diskVars>>
-----------------------------------------------------------------------------
(* The sidecar and the device *)

\* The worker changes the sidecar's source, or replaces the sidecar, only
\* after it has withdrawn the offer (DetachedSwitch in ServiceProperties).
SourceChange ==
    /\ ~available
    /\ source' = ~source
    /\ run' \in {run} \cup (IF source THEN {NoPassword} ELSE {})
    /\ UNCHANGED <<prefVars, stateVars, pc, request, done, diskVars>>

\* The device loses its power at any point and starts again.
Restart ==
    /\ stored' \in {stored, durable}
    /\ durable' = stored' /\ synced' = TRUE
    /\ enabled' = stored'.enabled /\ audio' = stored'.audio /\ password' = stored'.password
    /\ available' = FALSE /\ paused' = FALSE
    /\ listener' = "unknown" /\ queryFailed' = FALSE /\ error' = "none"
    /\ pc' = "idle" /\ done' = "none"
    /\ run' = NoPassword /\ source' = FALSE
    /\ UNCHANGED request

Next ==
    \/ Read
    \/ \E on \in BOOLEAN : Offer(on)
    \/ \E e \in {"reconnect", "persist"} : Report(e)
    \/ \E field \in {"enabled", "audio"}, value \in BOOLEAN : Update(field, value)
    \/ UpdateControl \/ UpdateSave \/ UpdateRestore
    \/ Rotate \/ RotateClose \/ RotateSave \/ RotateReopen
    \/ SourceChange
    \/ Restart

Spec == Init /\ [][Next]_vars
-----------------------------------------------------------------------------
TypeOK ==
    /\ run \in Passwords \cup {NoPassword} /\ source \in BOOLEAN
    /\ enabled \in BOOLEAN /\ audio \in BOOLEAN /\ password \in Passwords
    /\ available \in BOOLEAN /\ paused \in BOOLEAN
    /\ listener \in {"unknown", "stopped", "running"} /\ queryFailed \in BOOLEAN
    /\ error \in Errors
    /\ pc \in {"idle", "control", "save", "rollback", "undo", "rotate", "rotateSave", "reopen"}
    /\ request \in [enabled : BOOLEAN, audio : BOOLEAN, explicit : BOOLEAN]
    /\ done \in {"none", "offer", "update", "rotate"}
    /\ stored \in Config /\ durable \in Config /\ synced \in BOOLEAN

\* What GET /rtsp and GET /rtsp/credentials show is what a restart finds: a
\* password "cannot be returned by GET until the atomic store reports a
\* committed rename" (rtsp.c:320-321).
ShownIsStored == stored = [enabled |-> enabled, audio |-> audio, password |-> password]

\* An open listener has the password that is shown, in the middle of a
\* rotation too and whichever requests were lost.
IdentityCurrent == run \in {NoPassword, password}

\* A pause is never silent, so that a request to enable what is enabled already
\* is carried out (rtsp.c:407).
PausedReported == paused /\ pc # "rotate" /\ pc # "rotateSave" => error # "none"

\* A listener that is shown as closed is closed; one that is shown as open is
\* open, unless the sidecar was replaced under a withdrawn offer.
ListenerTruth ==
    /\ listener = "stopped" => run = NoPassword
    /\ listener = "running" /\ available => run = password

\* After a successful xc_rtsp_source, also one that found nothing to do, the
\* listener is open exactly when it should be.
OfferEffective == done = "offer" /\ pc = "idle" => ((run # NoPassword) <=> Previous)

\* While a source is offered and no error is shown, the listener is open exactly
\* when the shown preference says so.
QuietMeansRight ==
    pc = "idle" /\ available /\ error = "none" => ((run # NoPassword) <=> enabled)

\* "Source reconciliation must not restore the old identity after a failed
\* rotation" (rtsp.c:326-328): while paused only an explicit request to enable
\* opens the listener.
PauseHolds ==
    [][paused /\ run = NoPassword /\ run' # NoPassword =>
          pc = "control" /\ request.explicit /\ request.enabled]_vars

\* A preference or password that may not survive a loss of power is reported:
\* "A successful read resolves transport uncertainty, but says nothing about a
\* previous save/durability/rollback failure" (rtsp.c:163-164).
DurabilityReported == pc = "idle" /\ error = "none" => durable = stored
=============================================================================
