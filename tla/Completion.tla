----------------------------- MODULE Completion -----------------------------
(***************************************************************************)
(* The end of a work item: preparing the host input for a selection         *)
(* (xc_input_prepare_guarded, xc_host_input_ensure_bitstream), discarding   *)
(* or publishing the completion (service.c:1971-2097), scheduling a retry   *)
(* and choosing what the mailbox gets next before the lock is released.     *)
(***************************************************************************)
EXTENDS WorkBodies

\* xc_host_input_is_bitstream: nothing to patch, unreadable, or to be patched.
PrepRead ==
    /\ pc = "prepRead"
    /\ \/ host /\ Succeed /\ inFresh' = inFresh \ {"guard"}
       \/ ~host /\ pc' = "prepGuard" /\ UNCHANGED <<out, inFresh>>
       \/ "host" \in Faults /\ pc' = "prepFail" /\ UNCHANGED <<out, inFresh>>
    /\ UNCHANGED <<slotVars, ret, stopRet, rec, failed, cloud, callStopped, authVars, catVars,
                   selVars, hostVars, input, reconcileReq, aiCancel, aiVars, srcVars,
                   rtspVars, endVars>>

\* xc_input_patch_allowed: no event has changed the input since the commit.
PrepGuard ==
    /\ pc = "prepGuard"
    /\ pc' = IF InputCurrent("guard") THEN "prepPatch" ELSE "prepFail"
    /\ UNCHANGED <<slotVars, ctlVars, authVars, catVars, selVars, hostVars, inVars, aiVars,
                   srcVars, rtspVars, endVars>>

\* config.patch; the host posts an event when the mode did change.  A lost
\* answer may hide either outcome.
PrepPatch ==
    /\ pc = "prepPatch"
    /\ \E ok \in Answers("host"), done \in BOOLEAN :
         /\ ok => done
         /\ host' = (host \/ done)
         /\ posted' = (posted \/ (done /\ ~host))
         /\ IF ok THEN Succeed /\ inFresh' = inFresh \ {"guard"}
            ELSE pc' = "prepFail" /\ UNCHANGED <<out, inFresh>>
    /\ UNCHANGED <<slotVars, ret, stopRet, rec, failed, cloud, callStopped, authVars, catVars,
                   selVars, seen, input, reconcileReq, aiCancel, aiVars, srcVars, rtspVars,
                   endVars>>

\* Mutant: a failed preparation also takes back what an event has observed.
PrepFailAlways ==
    /\ pc = "prepFail"
    /\ input' = FALSE
    /\ inFresh' = {}
    /\ Fail("other")
    /\ UNCHANGED <<slotVars, ret, stopRet, rec, failed, cloud, callStopped, authVars, catVars,
                   selVars, hostVars, reconcileReq, aiCancel, aiVars, srcVars, rtspVars,
                   endVars>>

\* xc_input_prepare_failed: the assumption is taken back unless an event has
\* already replaced it with an observation.
PrepFail ==
    /\ pc = "prepFail"
    /\ IF "guard" \in inFresh THEN input' = FALSE /\ inFresh' = {} ELSE UNCHANGED <<input, inFresh>>
    /\ Fail("other")
    /\ UNCHANGED <<slotVars, ret, stopRet, rec, failed, cloud, callStopped, authVars, catVars,
                   selVars, hostVars, reconcileReq, aiCancel, aiVars, srcVars, rtspVars,
                   endVars>>
-----------------------------------------------------------------------------
\* The worker's copy and the copies it captured are gone.
Retire ==
    /\ cur' = NoWork
    /\ out' = NoOutcome

\* xc_queue_catalog_locked: the new operation outdates every earlier one.
PostCatalog(w) ==
    /\ slot' = w
    /\ recovery' = NoWork
    /\ recFresh' = {"slot"}
    /\ inFresh' = (inFresh \ {"cur"}) \cup {"slot"}
    /\ catalogState' = "queued"
    /\ pendingRegion' = IF w.kind = "region" THEN w.region ELSE NoRegion

\* Mutant: a request for the region that is shown already is not repeated.
LatestDueElsewhere(settledAuth) ==
    /\ queued \notin {NoRegion, region}
    /\ ~stopping
    /\ account
    /\ settledAuth = "authenticated"

\* xc_queue_latest_region_locked has a region it may queue.
LatestDue(settledAuth) ==
    /\ queued # NoRegion
    /\ ~stopping
    /\ account
    /\ settledAuth = "authenticated"

\* What the mailbox gets when the completion wants no catalog operation: the
\* selection of the first camera, a requested reconciliation, or nothing.
PostOther(defaultDue, cams) ==
    /\ recFresh' = recFresh \ {"cur"}
    /\ IF defaultDue
       THEN /\ \E c \in cams : slot' = [Plain("select") EXCEPT !.camera = c, !.region = region,
                                                               !.background = cur.background]
            /\ inFresh' = Move(inFresh, "cur", "slot")
            /\ UNCHANGED reconcileReq
       ELSE /\ slot' = IF RecoverDue THEN Plain("reconcile") ELSE NoWork
            /\ inFresh' = inFresh \ {"cur"}
            /\ reconcileReq' = (reconcileReq /\ ~RecoverDue)
    /\ UNCHANGED recovery

\* The completion of an operation that a newer one or the stop has outdated is
\* discarded, and so is the region that can no longer be queued.
Stale ==
    /\ cur.kind \in {"refresh", "list", "region"}
    /\ stopping \/ "cur" \notin recFresh

FinishStale ==
    /\ pc = "finish"
    /\ Stale
    /\ Retire
    /\ queued' = NoRegion
    /\ IF LatestDue(auth) THEN PostCatalog(CatalogRequest(queued))
       ELSE /\ slot' = NoWork
            /\ recFresh' = recFresh \ {"cur"}
            /\ inFresh' = inFresh \ {"cur"}
            /\ UNCHANGED <<recovery, catalogState, pendingRegion>>
    /\ pc' = "idle"
    /\ UNCHANGED <<ret, stopRet, rec, failed, cloud, callStopped, authVars, region,
                   catalogRegion, catalog, selVars, hostVars, input, reconcileReq, aiCancel,
                   aiVars, srcVars, rtspVars, endVars>>

\* xc_recovery_schedule_locked: a network failure is always retried, an
\* incomplete catalog up to XC_CATALOG_RETRY_LIMIT times.  The count is left
\* out, so an incomplete catalog may be the last one at any attempt.
Retries ==
    IF out.ok \/ ~RecoveryCurrent(cur, "cur") THEN {FALSE}
    ELSE CASE out.error = "network" -> {TRUE}
           [] out.error = "incomplete" -> BOOLEAN
           [] OTHER -> {FALSE}

\* Mutant: the retry keeps the user's intent to switch the input.
RescheduleForeground ==
    /\ recovery' = cur
    /\ recFresh' = Move(recFresh, "cur", "recovery")
    /\ inFresh' = Move(inFresh, "cur", "recovery")
    /\ slot' = IF RecoverDue THEN Plain("reconcile") ELSE NoWork
    /\ reconcileReq' = (reconcileReq /\ ~RecoverDue)

\* The retry is remembered with the generations the failed attempt had.
Reschedule ==
    /\ recovery' = [cur EXCEPT !.background = TRUE]
    /\ recFresh' = Move(recFresh, "cur", "recovery")
    /\ inFresh' = Move(inFresh, "cur", "recovery")
    /\ slot' = IF RecoverDue THEN Plain("reconcile") ELSE NoWork
    /\ reconcileReq' = (reconcileReq /\ ~RecoverDue)

\* A catalog operation ends.  Every outcome takes the display out of LOADING.
FinishCatalog ==
    /\ pc = "finish"
    /\ CatalogWork(cur)
    /\ ~Stale
    /\ Retire
    /\ queued' = NoRegion
    /\ auth' = IF ~out.ok /\ out.error = "reauth" THEN "reauth" ELSE auth
    /\ \E retry \in Retries :
         IF LatestDue(auth') THEN PostCatalog(CatalogRequest(queued)) /\ UNCHANGED reconcileReq
         ELSE /\ catalogState' = CASE out.loaded -> "ready"
                                   [] retry      -> "retrying"
                                   [] OTHER      -> "error"
              /\ pendingRegion' = IF retry /\ cur.kind = "region" THEN cur.region ELSE NoRegion
              /\ IF retry THEN Reschedule
                 ELSE PostOther(/\ out.loaded
                                /\ ~out.committed
                                /\ auth' = "authenticated"
                                /\ account
                                /\ selected = NoCamera
                                /\ catalog # {}
                                /\ catalogRegion = region,
                                catalog)
    /\ EnterReconcile("idle")
    /\ UNCHANGED <<stopRet, rec, failed, cloud, callStopped, account, region, catalogRegion,
                   catalog, selVars, hostVars, input, aiCancel, aiVars, srcVars, rtspVars,
                   endVars>>

\* The account refresh ends; an account starts the camera list.
FinishRefresh ==
    /\ pc = "finish"
    /\ cur.kind = "refresh"
    /\ ~Stale
    /\ Retire
    /\ \E retry \in Retries :
         /\ auth' = CASE out.ok -> auth
                      [] retry  -> "retrying"
                      [] OTHER  -> "error"
         /\ CASE out.ok /\ account ->
                   PostCatalog(CatalogRequest(region)) /\ UNCHANGED reconcileReq
              [] retry -> Reschedule /\ UNCHANGED <<catalogState, pendingRegion>>
              [] OTHER -> PostOther(FALSE, {}) /\ UNCHANGED <<catalogState, pendingRegion>>
    /\ EnterReconcile("idle")
    /\ UNCHANGED <<stopRet, rec, failed, cloud, callStopped, account, region, catalogRegion,
                   catalog, queued, selVars, hostVars, input, aiCancel, aiVars, srcVars,
                   rtspVars, endVars>>

\* A selection, a stop or a lifecycle item ends.
FinishCamera ==
    /\ pc = "finish"
    /\ cur.kind \in {"select", "stop", "reconcile"}
    /\ Retire
    /\ PostOther(FALSE, {})
    /\ enabled' = CASE out.ok /\ cur.kind = "select" -> TRUE
                    [] out.ok /\ cur.kind = "stop" -> FALSE
                    [] OTHER -> enabled
    /\ EnterReconcile("idle")
    /\ UNCHANGED <<stopRet, rec, failed, cloud, callStopped, authVars, catVars, selected,
                   hostVars, input, aiCancel, aiVars, srcVars, rtspVars, endVars>>

\* The account is cleared; xc_selection_clear_locked forgets the selection.
FinishClear ==
    /\ pc = "finish"
    /\ cur.kind = "clear"
    /\ Retire
    /\ PostOther(FALSE, {})
    /\ IF out.ok
       THEN /\ region' = DefaultRegion /\ catalogRegion' = DefaultRegion
            /\ catalog' = {} /\ catalogState' = "idle"
            /\ pendingRegion' = NoRegion /\ queued' = NoRegion
            /\ selected' = NoCamera /\ enabled' = FALSE
            /\ UNCHANGED auth
       ELSE auth' = "error" /\ UNCHANGED <<catVars, selVars>>
    /\ EnterReconcile("idle")
    /\ UNCHANGED <<stopRet, rec, failed, cloud, callStopped, account, hostVars, input, aiCancel,
                   aiVars, srcVars, rtspVars, endVars>>

\* An RTSP request ends: the caller is answered under the same lock.
RtspReply ==
    /\ pc = "rtspReply"
    /\ Retire
    /\ PostOther(FALSE, {})
    /\ waiter' = [waiter EXCEPT ![cur.job.client] = "answered"]
    /\ pc' = "idle"
    /\ UNCHANGED <<ret, stopRet, rec, failed, cloud, callStopped, authVars, catVars, selVars,
                   hostVars, input, aiCancel, aiVars, srcVars, rtspOn, audioOn, endVars>>

WorkerStep ==
    \/ Take \/ Promote \/ Exit
    \/ StartCall \/ NoBody \/ SelectCommit \/ StopBody \/ ClearBegin \/ ClearReset
    \/ RtspBegin \/ RtspRoute \/ RtspReply
    \/ CallReconcile \/ RefreshApply \/ ListApply \/ RegionCommit \/ ClearApply
    \/ PrepRead \/ PrepGuard \/ PrepPatch \/ PrepFail
    \/ FinishStale \/ FinishCatalog \/ FinishRefresh \/ FinishCamera \/ FinishClear
    \/ ReconcileStep
=============================================================================
