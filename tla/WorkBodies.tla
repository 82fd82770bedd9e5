----------------------------- MODULE WorkBodies -----------------------------
(***************************************************************************)
(* xc_worker (service.c:1573-2101): taking a work item, running its body,   *)
(* waiting for the cloud thread of xc_call, preparing the host input and    *)
(* publishing the completion.  xc_call does not block lifecycle work: while *)
(* the cloud thread runs, the worker enters xc_reconcile whenever an input  *)
(* event or the stop asks for it.                                           *)
(***************************************************************************)
EXTENDS Reconcile

\* The freshness of one holder's generation copy moves to another holder.
Move(fresh, from, to) ==
    IF from \in fresh THEN (fresh \ {from}) \cup {to} ELSE fresh \ {to}
-----------------------------------------------------------------------------
\* Mutant: the loop does not take work any more once the service stops.
TakeUntilStop ==
    /\ pc = "idle"
    /\ ~stopping
    /\ slot # NoWork
    /\ cur' = slot
    /\ slot' = NoWork
    /\ recFresh' = Move(recFresh, "slot", "cur")
    /\ inFresh' = Move(inFresh, "slot", "cur")
    /\ catalogState' = IF CatalogWork(slot) /\ ~slot.background THEN "loading" ELSE catalogState
    /\ out' = NoOutcome
    /\ pc' = "work"
    /\ UNCHANGED <<recovery, ret, stopRet, rec, failed, cloud, callStopped, authVars, region,
                   catalogRegion, catalog, pendingRegion, queued, selVars, hostVars, input,
                   reconcileReq, aiCancel, aiVars, srcVars, rtspVars, endVars>>

\* The worker copies the mailbox and marks itself active, also while the
\* service stops: accepted work is never dropped from the mailbox.
Take ==
    /\ pc = "idle"
    /\ slot # NoWork
    /\ cur' = slot
    /\ slot' = NoWork
    /\ recFresh' = Move(recFresh, "slot", "cur")
    /\ inFresh' = Move(inFresh, "slot", "cur")
    /\ catalogState' = IF CatalogWork(slot) /\ ~slot.background THEN "loading" ELSE catalogState
    /\ out' = NoOutcome
    /\ pc' = "work"
    /\ UNCHANGED <<recovery, ret, stopRet, rec, failed, cloud, callStopped, authVars, region,
                   catalogRegion, catalog, pendingRegion, queued, selVars, hostVars, input,
                   reconcileReq, aiCancel, aiVars, srcVars, rtspVars, endVars>>

\* xc_recovery_promote_locked when the retry is due and still wanted.  The
\* promoted work passes through the mailbox without the lock being released.
Promote ==
    /\ pc = "idle"
    /\ ~stopping
    /\ slot = NoWork
    /\ recovery # NoWork
    /\ RecoveryCurrent(recovery, "recovery")
    /\ cur' = recovery
    /\ recovery' = NoWork
    /\ recFresh' = Move(recFresh, "recovery", "cur")
    /\ inFresh' = Move(inFresh, "recovery", "cur")
    /\ auth' = IF recovery.kind = "refresh" THEN "retrying" ELSE auth
    /\ catalogState' = IF CatalogWork(recovery) THEN "retrying" ELSE catalogState
    /\ pendingRegion' = IF recovery.kind = "region" THEN recovery.region ELSE pendingRegion
    /\ out' = NoOutcome
    /\ pc' = "work"
    /\ UNCHANGED <<slot, ret, stopRet, rec, failed, cloud, callStopped, account, region,
                   catalogRegion, catalog, queued, selVars, hostVars, input, reconcileReq,
                   aiCancel, aiVars, srcVars, rtspVars, endVars>>

\* Mutant: the worker leaves as soon as the service stops.
ExitEarly ==
    /\ pc = "idle"
    /\ stopping
    /\ pc' = "srcDetach"
    /\ stopRet' = "exit"
    /\ UNCHANGED <<slotVars, ret, out, rec, failed, cloud, callStopped, authVars, catVars,
                   selVars, hostVars, inVars, aiVars, srcVars, rtspVars, endVars>>

\* The worker leaves its loop; the last thing it does is release the source.
Exit ==
    /\ pc = "idle"
    /\ stopping
    /\ slot = NoWork
    /\ pc' = "srcDetach"
    /\ stopRet' = "exit"
    /\ UNCHANGED <<slotVars, ret, out, rec, failed, cloud, callStopped, authVars, catVars,
                   selVars, hostVars, inVars, aiVars, srcVars, rtspVars, endVars>>
-----------------------------------------------------------------------------
\* The body is over with this outcome; Finish publishes it.
Done(o) == out' = o /\ pc' = "finish"
Succeed == Done([out EXCEPT !.ok = TRUE])
Fail(e) == Done([out EXCEPT !.error = e])

\* The work that goes to the cloud: one bounded call in a thread of its own.
StartCall ==
    /\ pc = "work"
    /\ cur.kind \in {"refresh", "list", "region"}
    /\ cloud' = "running"
    /\ callStopped' = FALSE
    /\ pc' = "call"
    /\ UNCHANGED <<slotVars, ret, stopRet, out, rec, failed, authVars, catVars, selVars,
                   hostVars, inVars, aiVars, srcVars, rtspVars, endVars>>

\* A RECONCILE item has no body of its own.
NoBody ==
    /\ pc = "work"
    /\ cur.kind = "reconcile"
    /\ Succeed
    /\ UNCHANGED <<slotVars, ret, stopRet, rec, failed, cloud, callStopped, authVars, catVars,
                   selVars, hostVars, inVars, aiVars, srcVars, rtspVars, endVars>>

\* The selection is durable and committed before the host input is touched.
\* An input event since the request was accepted ends a selection; otherwise
\* the input is assumed to become available (xc_input_prepare_begin_locked).
SelectCommit ==
    /\ pc = "work"
    /\ cur.kind = "select"
    /\ \E ok \in Answers("persist") :
         IF ~ok THEN Fail("other") /\ UNCHANGED <<selVars, region, input, inFresh>>
         ELSE /\ selected' = cur.camera
              /\ enabled' = TRUE
              /\ region' = cur.region
              /\ CASE "cur" \notin inFresh -> Fail("other") /\ UNCHANGED <<input, inFresh>>
                   [] "cur" \in inFresh /\ cur.background ->
                        Succeed /\ UNCHANGED <<input, inFresh>>
                   [] OTHER ->
                        /\ input' = TRUE
                        /\ inFresh' = {"guard"}
                        /\ pc' = "prepRead"
                        /\ UNCHANGED out
    /\ UNCHANGED <<slotVars, ret, stopRet, rec, failed, cloud, callStopped, authVars,
                   catalogRegion, catalog, catalogState, pendingRegion, queued, hostVars,
                   reconcileReq, aiCancel, aiVars, srcVars, rtspVars, endVars>>

\* A stop of nothing selected needs no write.
StopBody ==
    /\ pc = "work"
    /\ cur.kind = "stop"
    /\ \/ Succeed
       \/ cur.camera # NoCamera /\ "persist" \in Faults /\ Fail("other")
    /\ UNCHANGED <<slotVars, ret, stopRet, rec, failed, cloud, callStopped, authVars, catVars,
                   selVars, hostVars, inVars, aiVars, srcVars, rtspVars, endVars>>

ClearBegin ==
    /\ pc = "work"
    /\ cur.kind = "clear"
    /\ pc' = "srcDetach"
    /\ stopRet' = "clear"
    /\ UNCHANGED <<slotVars, ret, out, rec, failed, cloud, callStopped, authVars, catVars,
                   selVars, hostVars, inVars, aiVars, srcVars, rtspVars, endVars>>

\* The sidecar is restarted without its token, then the stored selection is
\* removed, then the accounts are read back.  The new process has no source.
ClearReset ==
    /\ pc = "clearReset"
    /\ \/ /\ sidecar' = NoSource
          /\ cloud' = "running"
          /\ callStopped' = FALSE
          /\ pc' = "call"
          /\ UNCHANGED out
       \/ /\ "reset" \in Faults
          /\ sidecar' \in {sidecar, NoSource}
          /\ Fail("other")
          /\ UNCHANGED <<cloud, callStopped>>
       \/ /\ "persist" \in Faults
          /\ sidecar' = NoSource
          /\ Fail("other")
          /\ UNCHANGED <<cloud, callStopped>>
    /\ UNCHANGED <<slotVars, ret, stopRet, rec, failed, authVars, catVars, selVars, hostVars,
                   inVars, aiVars, active, demand, rtspVars, endVars>>
-----------------------------------------------------------------------------
\* The source the sidecar reports about can be the selected camera's.
StatusCanMatch ==
    /\ auth = "authenticated"
    /\ account
    /\ selected # NoCamera
    /\ active # NoSource
    /\ active.camera = selected

\* xc_rtsp_execute up to the route: audio that would change is released first.
RtspBegin ==
    /\ pc = "work"
    /\ cur.kind = "rtsp"
    /\ \E known, supported \in BOOLEAN :
         LET job == cur.job
             mutates == job.field # "credentials"
             desired == IF job.field = "audio" THEN rtspOn /\ job.value
                                               ELSE job.value /\ audioOn
             replace == /\ mutates
                        /\ active # NoSource
                        /\ ~known \/ supported
                        /\ active.audio # desired
         IN /\ known => mutates /\ StatusCanMatch
            /\ supported => known
            /\ out' = [out EXCEPT !.replaced = replace /\ (job.field = "audio" => supported)]
            /\ CASE job.field = "audio" /\ ~supported -> pc' = "rtspReply" /\ UNCHANGED stopRet
                 [] out'.replaced -> pc' = "srcDetach" /\ stopRet' = "replace"
                 [] OTHER -> pc' = "rtspRoute" /\ UNCHANGED stopRet
    /\ UNCHANGED <<slotVars, ret, rec, failed, cloud, callStopped, authVars, catVars, selVars,
                   hostVars, inVars, aiVars, srcVars, rtspVars, endVars>>

\* xc_rtsp_route: the preference is stored durably, stored without a confirmed
\* rename (an error answer although it is committed), or not stored.
RtspRoute ==
    /\ pc = "rtspRoute"
    /\ \E result \in {"durable"} \cup (IF "persist" \in Faults THEN {"uncertain", "failed"} ELSE {})
                        \cup (IF "control" \in Faults THEN {"failed"} ELSE {}) :
         LET job == cur.job
             commit == result # "failed"
             on == IF job.field = "enabled" /\ commit THEN job.value ELSE rtspOn
             audio == IF job.field = "audio" /\ commit THEN job.value ELSE audioOn
             changed == on # rtspOn \/ audio # audioOn
         IN /\ rtspOn' = on
            /\ audioOn' = audio
            /\ IF job.field # "credentials" /\ (result = "durable" \/ changed)
               THEN EnterReconcile("rtspReply") /\ UNCHANGED failed
               ELSE /\ pc' = "rtspReply"
                    /\ failed' = (failed \/ out.replaced)
                    /\ UNCHANGED ret
    /\ UNCHANGED <<slotVars, stopRet, out, rec, cloud, callStopped, authVars, catVars, selVars,
                   hostVars, inVars, aiVars, srcVars, waiter, endVars>>
-----------------------------------------------------------------------------
\* xc_cloud_call: the thread has the answer.
CloudDone ==
    /\ cloud = "running"
    /\ cloud' = "done"
    /\ UNCHANGED <<slotVars, pc, ret, stopRet, out, rec, failed, callStopped, authVars, catVars,
                   selVars, hostVars, inVars, aiVars, srcVars, rtspVars, endVars>>

\* Mutant: the pass for the stop is not remembered and repeated at once.
CallReconcileAgain ==
    /\ pc = "call"
    /\ cloud = "running"
    /\ reconcileReq \/ (stopping /\ ~callStopped)
    /\ reconcileReq' = FALSE
    /\ EnterReconcile("call")
    /\ UNCHANGED <<slotVars, stopRet, out, rec, failed, cloud, callStopped, authVars, catVars,
                   selVars, hostVars, input, inFresh, aiCancel, aiVars, srcVars, rtspVars, endVars>>

\* xc_call's loop: lifecycle work is done while the answer is outstanding.
CallReconcile ==
    /\ pc = "call"
    /\ cloud = "running"
    /\ reconcileReq \/ (stopping /\ ~callStopped)
    /\ reconcileReq' = FALSE
    /\ callStopped' = stopping
    /\ EnterReconcile("call")
    /\ UNCHANGED <<slotVars, stopRet, out, rec, failed, cloud, authVars, catVars, selVars,
                   hostVars, input, inFresh, aiCancel, aiVars, srcVars, rtspVars, endVars>>

\* The loop ends with the answer; a stop turns it into a cancellation.  The
\* answers of the cloud are chosen when they are applied.
CallEnd(kind) ==
    /\ pc = "call"
    /\ cloud = "done"
    /\ cur.kind = kind
    /\ cloud' = "none"
    /\ callStopped' = FALSE

CallFails(errors) ==
    \/ stopping /\ Fail("other")
    \/ ~stopping /\ "cloud" \in Faults /\ \E e \in errors : Fail(e)

\* xc_accounts_apply_locked for an answer with at most one account.  Only
\* losing an account that was there outdates the recovery generation.
AccountsApply(has) ==
    /\ account' = has
    /\ auth' = IF has THEN "authenticated" ELSE "idle"

RefreshApply ==
    /\ CallEnd("refresh")
    /\ \/ CallFails({"network", "other"}) /\ UNCHANGED authVars
       \/ /\ RecoveryCurrent(cur, "cur")
          /\ \E has \in BOOLEAN : AccountsApply(has)
          /\ Succeed
    /\ UNCHANGED <<slotVars, ret, stopRet, rec, failed, catVars, selVars, hostVars, inVars,
                   aiVars, srcVars, rtspVars, endVars>>

\* A catalog answer that a newer request has outdated is only rejected.
Superseded == ~stopping /\ ~RecoveryCurrent(cur, "cur") /\ Fail("other")

ListApply ==
    /\ CallEnd("list")
    /\ \/ /\ CallFails({"network", "incomplete", "reauth", "other"}) \/ Superseded
          /\ UNCHANGED <<catalog, catalogRegion>>
       \/ /\ RecoveryCurrent(cur, "cur")
          /\ catalog' \in SUBSET {c \in Cameras : CameraRegion[c] = cur.region}
          /\ catalogRegion' = cur.region
          /\ Done([out EXCEPT !.ok = TRUE, !.loaded = TRUE])
    /\ UNCHANGED <<slotVars, ret, stopRet, rec, failed, authVars, region, catalogState,
                   pendingRegion, queued, selVars, hostVars, inVars, aiVars, srcVars,
                   rtspVars, endVars>>

\* A new region is committed with its catalog and its first camera, or not at
\* all; persist_selection runs under the lock.
RegionCommit ==
    /\ CallEnd("region")
    /\ \/ /\ \/ CallFails({"network", "incomplete", "reauth", "other"})
             \/ Superseded
             \/ ~stopping /\ "persist" \in Faults /\ Fail("other")
          /\ UNCHANGED <<catalog, catalogRegion, region, selVars, input, inFresh>>
       \/ /\ RecoveryCurrent(cur, "cur")
          /\ region' = cur.region
          /\ catalogRegion' = cur.region
          /\ \E cams \in SUBSET {c \in Cameras : CameraRegion[c] = cur.region} :
               /\ catalog' = cams
               /\ out' = [out EXCEPT !.loaded = TRUE, !.committed = TRUE,
                                     !.ok = cams = {} \/ cur.background]
               /\ IF cams = {} THEN selected' = NoCamera /\ enabled' = FALSE
                  ELSE selected' \in cams /\ enabled' = (enabled \/ ~cur.background)
               /\ IF cams = {} \/ cur.background
                  THEN pc' = "finish" /\ UNCHANGED <<input, inFresh>>
                  ELSE pc' = "prepRead" /\ input' = TRUE /\ inFresh' = {"guard"}
    /\ UNCHANGED <<slotVars, ret, stopRet, rec, failed, authVars, catalogState, pendingRegion,
                   queued, hostVars, reconcileReq, aiCancel, aiVars, srcVars, rtspVars, endVars>>

\* CLEAR reads the accounts back: one that is still there is an error.
ClearApply ==
    /\ CallEnd("clear")
    /\ \/ CallFails({"network", "other"}) /\ UNCHANGED <<authVars, slotVars, catVars>>
       \/ /\ ~stopping
          /\ AccountsApply(FALSE)
          /\ Succeed
          /\ recovery' = IF account THEN NoWork ELSE recovery
          /\ recFresh' = IF account THEN {} ELSE recFresh
          /\ catalogState' = IF account THEN CatalogWithoutRetry ELSE catalogState
          /\ pendingRegion' = IF account THEN NoRegion ELSE pendingRegion
          /\ UNCHANGED <<slot, cur, region, catalogRegion, catalog, queued>>
       \/ /\ ~stopping
          /\ "cloud" \in Faults
          /\ AccountsApply(TRUE)
          /\ Fail("other")
          /\ UNCHANGED <<slotVars, catVars>>
    /\ UNCHANGED <<ret, stopRet, rec, failed, selVars, hostVars, inVars, aiVars, srcVars,
                   rtspVars, endVars>>
=============================================================================
