------------------------------ MODULE Reconcile ------------------------------
(***************************************************************************)
(* xc_reconcile and xc_source_stop (service.c:1266-1403): the one place     *)
(* where the camera source, the AI attachment and the RTSP demand change.   *)
(* Only the worker runs them; between two steps any other thread may run.   *)
(***************************************************************************)
EXTENDS ServiceState

\* The function returns to its caller with the given result.
ReturnWith(ok) ==
    /\ rec' = NoLocals
    /\ failed' = ~ok
    /\ pc' = ret

\* The caller of xc_reconcile enters it.
EnterReconcile(back) ==
    /\ pc' = "recRead"
    /\ ret' = back

\* Whether the audio branch of the target is kept as it is because the
\* sidecar reports the running source as a camera without audio.
TargetAudio(keep) ==
    IF keep THEN active.audio ELSE rtspOn /\ audioOn

\* The intent is read and the cancellation is consumed under the lock.  The
\* join that a consumed cancellation asks for commutes with every step other
\* threads can take before it, so it is part of the action.
RecRead ==
    /\ pc = "recRead"
    /\ aiCancel' = FALSE
    /\ inFresh' = inFresh \cup {"reconcile"}
    /\ IF aiCancel THEN StopAI ELSE UNCHANGED aiVars
    /\ \E keep \in BOOLEAN :
         /\ keep => WantSource /\ active # NoSource /\ active.camera = selected
         /\ LET target == IF WantSource
                          THEN [camera |-> selected, audio |-> TargetAudio(keep)]
                          ELSE NoSource
                changed == target # active
            IN  /\ rec' = [ai |-> WantAI, source |-> WantSource, target |-> target, ok |-> TRUE]
                /\ pc' = CASE changed /\ active # NoSource -> "srcDetach"
                           [] changed /\ active = NoSource -> "recSet"
                           [] ~changed /\ WantSource       -> "recDemand"
                           [] OTHER                        -> "recAttach"
    /\ stopRet' = "switch"
    /\ UNCHANGED <<slotVars, ret, out, failed, cloud, callStopped, authVars, catVars,
                   selVars, hostVars, input, reconcileReq, srcVars, rtspVars, endVars>>

\* Mutant: the AI stays attached while the source is released.
SrcDetachListener ==
    /\ pc = "srcDetach"
    /\ demand' = FALSE
    /\ pc' = "srcRelease"
    /\ UNCHANGED <<slotVars, ctlVars, authVars, catVars, selVars, hostVars, inVars, aiVars,
                   active, sidecar, rtspVars, endVars>>

\* xc_source_stop, first half: the listener and the AI leave the source.  A
\* failed listener call is only logged; the demand is withdrawn either way.
SrcDetach ==
    /\ pc = "srcDetach"
    /\ demand' = FALSE
    /\ StopAI
    /\ pc' = "srcRelease"
    /\ UNCHANGED <<slotVars, ctlVars, authVars, catVars, selVars, hostVars, inVars,
                   active, sidecar, rtspVars, endVars>>

\* Where xc_source_stop goes on, by caller.
AfterRelease(ok) ==
    CASE stopRet = "switch" ->
           IF ok THEN /\ pc' = IF rec.source THEN "recSet" ELSE "recAttach"
                      /\ UNCHANGED <<rec, failed, out, inFresh>>
           ELSE ReturnWith(FALSE) /\ inFresh' = inFresh \ {"reconcile"} /\ UNCHANGED out
      [] stopRet = "undo" ->
           ReturnWith(FALSE) /\ inFresh' = inFresh \ {"reconcile"} /\ UNCHANGED out
      [] stopRet = "replace" ->
           /\ pc' = IF ok THEN "rtspRoute" ELSE "rtspReply"
           /\ failed' = (failed \/ ~ok)
           /\ UNCHANGED <<rec, out, inFresh>>
      [] stopRet = "clear" -> pc' = "clearReset" /\ UNCHANGED <<rec, failed, out, inFresh>>
      [] OTHER -> pc' = "exited" /\ UNCHANGED <<rec, failed, out, inFresh>>

\* Mutant: the source is forgotten although its stop was not acknowledged.
SrcReleaseForgets ==
    /\ pc = "srcRelease"
    /\ active' = NoSource
    /\ \E ok \in Answers("source") :
         /\ sidecar' \in IF ok THEN {NoSource} ELSE {sidecar, NoSource}
         /\ AfterRelease(ok)
    /\ UNCHANGED <<slotVars, ret, stopRet, cloud, callStopped, authVars, catVars, selVars,
                   hostVars, input, reconcileReq, aiCancel, aiVars, demand, rtspVars, endVars>>

\* xc_source_stop, second half: the sidecar is told to drop the source.  Only
\* an acknowledged stop forgets it; a lost answer may hide either outcome.
SrcRelease ==
    /\ pc = "srcRelease"
    /\ \E ok \in Answers("source") :
         /\ IF ok THEN sidecar' = NoSource /\ active' = NoSource
            ELSE sidecar' \in {sidecar, NoSource} /\ UNCHANGED active
         /\ AfterRelease(ok)
    /\ UNCHANGED <<slotVars, ret, stopRet, cloud, callStopped, authVars, catVars, selVars,
                   hostVars, input, reconcileReq, aiCancel, aiVars, demand, rtspVars, endVars>>

\* The target is remembered before the sidecar is asked for it; a failed or
\* unanswered request is undone by a stop.
RecSet ==
    /\ pc = "recSet"
    /\ active' = rec.target
    /\ \E ok \in Answers("source") :
         IF ok
         THEN /\ sidecar' = rec.target
              /\ pc' = "recDemand"
              /\ UNCHANGED stopRet
         ELSE /\ sidecar' \in {sidecar, rec.target}
              /\ pc' = "srcDetach"
              /\ stopRet' = "undo"
    /\ UNCHANGED <<slotVars, ret, out, rec, failed, cloud, callStopped, authVars, catVars,
                   selVars, hostVars, inVars, aiVars, demand, rtspVars, endVars>>

\* The accepted source is offered to the RTSP manager, which records the
\* demand whether or not the listener obeys.
RecDemand ==
    /\ pc = "recDemand"
    /\ demand' = TRUE
    /\ \E ok \in Answers("control") : rec' = [rec EXCEPT !.ok = ok]
    /\ pc' = "recAttach"
    /\ UNCHANGED <<slotVars, ret, stopRet, out, failed, cloud, callStopped, authVars, catVars,
                   selVars, hostVars, inVars, aiVars, active, sidecar, rtspVars, endVars>>

\* The AI is attached only for the input observation the intent was read with.
RecAttach ==
    /\ pc = "recAttach"
    /\ IF rec.ai /\ InputCurrent("reconcile") /\ ~mediaActive
       THEN pc' = "recStart" /\ UNCHANGED <<rec, failed, inFresh, aiVars>>
       ELSE /\ ReturnWith(rec.ok)
            /\ inFresh' = inFresh \ {"reconcile"}
            /\ IF rec.ai /\ InputCurrent("reconcile") THEN UNCHANGED aiVars ELSE StopAI
    /\ UNCHANGED <<slotVars, ret, stopRet, out, cloud, callStopped, authVars, catVars, selVars,
                   hostVars, input, reconcileReq, aiCancel, srcVars, rtspVars, endVars>>

\* Mutant: a started thread is not recorded in media_active.
RecStartUnrecorded ==
    /\ pc = "recStart"
    /\ aiRun' = TRUE
    /\ ownerStop' = FALSE
    /\ pc' = "recRecheck"
    /\ UNCHANGED <<slotVars, ret, stopRet, out, rec, failed, cloud, callStopped, authVars,
                   catVars, selVars, hostVars, inVars, mediaActive, srcVars, rtspVars, endVars>>

\* xc_media_owner_start clears the stop flag even if it was set for this start.
RecStart ==
    /\ pc = "recStart"
    /\ \E ok \in Answers("media") :
         IF ok
         THEN /\ mediaActive' = TRUE
              /\ aiRun' = TRUE
              /\ ownerStop' = FALSE
              /\ UNCHANGED rec
         ELSE /\ rec' = [rec EXCEPT !.ok = FALSE]
              /\ ownerStop' \in {ownerStop, FALSE}
              /\ UNCHANGED <<mediaActive, aiRun>>
    /\ pc' = "recRecheck"
    /\ UNCHANGED <<slotVars, ret, stopRet, out, failed, cloud, callStopped, authVars, catVars,
                   selVars, hostVars, inVars, srcVars, rtspVars, endVars>>

\* Mutant: the input is not checked again after the start.
RecRecheckSkipped ==
    /\ pc = "recRecheck"
    /\ ReturnWith(rec.ok)
    /\ inFresh' = inFresh \ {"reconcile"}
    /\ UNCHANGED <<slotVars, ret, stopRet, out, cloud, callStopped, authVars, catVars, selVars,
                   hostVars, input, reconcileReq, aiCancel, aiVars, srcVars, rtspVars, endVars>>

\* An input event that fell between the check and the start stops the AI again.
RecRecheck ==
    /\ pc = "recRecheck"
    /\ IF InputCurrent("reconcile") THEN UNCHANGED aiVars ELSE StopAI
    /\ ReturnWith(rec.ok)
    /\ inFresh' = inFresh \ {"reconcile"}
    /\ UNCHANGED <<slotVars, ret, stopRet, out, cloud, callStopped, authVars, catVars, selVars,
                   hostVars, input, reconcileReq, aiCancel, srcVars, rtspVars, endVars>>

ReconcileStep ==
    \/ RecRead
    \/ SrcDetach
    \/ SrcRelease
    \/ RecSet
    \/ RecDemand
    \/ RecAttach
    \/ RecStart
    \/ RecRecheck
=============================================================================
