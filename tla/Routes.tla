------------------------------- MODULE Routes -------------------------------
(***************************************************************************)
(* What other threads do to the service under its lock: the bridge routes   *)
(* (service.c:2323-2629), the host's config-changed callback (main.c:314,   *)
(* service.c:2831) and the media thread that ends when it is asked to.      *)
(* A request that is answered with busy or conflict changes nothing and is  *)
(* no action.                                                               *)
(***************************************************************************)
EXTENDS Completion

Serving(kind) == main = "serve" /\ kind \in Requests

\* xc_recovery_generation_advance_locked, with what the display falls back to.
Advance(authNow) ==
    /\ recovery' = NoWork
    /\ recFresh' = {}
    /\ auth' = authNow
    /\ catalogState' = CatalogWithoutRetry

\* POST /camera/select: a listed camera of the region whose catalog is shown.
QueueSelect(c) ==
    /\ Serving("select")
    /\ ~Busy
    /\ account
    /\ catalogRegion = region
    /\ c \in catalog
    /\ slot' = [Plain("select") EXCEPT !.camera = c, !.region = region]
    /\ inFresh' = inFresh \cup {"slot"}
    /\ Advance(AuthWithoutRetry)
    /\ pendingRegion' = NoRegion
    /\ UNCHANGED <<cur, pc, ctlVars, account, region, catalogRegion, catalog, queued, selVars,
                   hostVars, input, reconcileReq, aiCancel, aiVars, srcVars, rtspVars, endVars>>

\* POST /camera/stop keeps a scheduled retry and needs no account.
QueueStop ==
    /\ Serving("stop")
    /\ ~Busy
    /\ slot' = [Plain("stop") EXCEPT !.camera = selected, !.region = region]
    /\ UNCHANGED <<cur, recovery, recFresh, pc, ctlVars, authVars, catVars, selVars, hostVars,
                   inVars, aiVars, srcVars, rtspVars, endVars>>

\* POST /camera/region: an idle service queues a catalog operation; one that
\* is busy with a catalog operation outdates it and remembers the latest region.
QueueRegion(r) ==
    /\ Serving("region")
    /\ account
    /\ \/ /\ ~Busy
          /\ PostCatalog(CatalogRequest(r))
          /\ auth' = AuthWithoutRetry
          /\ UNCHANGED queued
       \/ /\ CatalogWork(slot) \/ CatalogWork(cur)
          /\ Advance(AuthWithoutRetry)
          /\ queued' = r
          /\ pendingRegion' = r
          /\ UNCHANGED <<slot, inFresh>>
    /\ UNCHANGED <<cur, pc, ctlVars, account, region, catalogRegion, catalog, selVars, hostVars,
                   input, reconcileReq, aiCancel, aiVars, srcVars, rtspVars, endVars>>

\* POST /auth/clear on an idle service.
QueueClear ==
    /\ Serving("clear")
    /\ ~Busy
    /\ slot' = Plain("clear")
    /\ Advance("working")
    /\ pendingRegion' = NoRegion
    /\ UNCHANGED <<cur, pc, ctlVars, account, region, catalogRegion, catalog, queued, selVars,
                   hostVars, inVars, aiVars, srcVars, rtspVars, endVars>>

\* POST /rtsp and /rtsp/credentials: the handler waits for the worker's reply.
QueueRtsp(job) ==
    /\ Serving("rtsp")
    /\ ~stopping
    /\ ~Busy
    /\ waiter[job.client] = "idle"
    /\ slot' = [Plain("rtsp") EXCEPT !.job = job]
    /\ waiter' = [waiter EXCEPT ![job.client] = "waiting"]
    /\ UNCHANGED <<cur, recovery, recFresh, pc, ctlVars, authVars, catVars, selVars, hostVars,
                   inVars, aiVars, srcVars, rtspOn, audioOn, endVars>>

\* The handler wakes with its reply and leaves the service.
ClientReturn(c) ==
    /\ waiter[c] = "answered"
    /\ waiter' = [waiter EXCEPT ![c] = "idle"]
    /\ UNCHANGED <<slotVars, pc, ctlVars, authVars, catVars, selVars, hostVars, inVars, aiVars,
                   srcVars, rtspOn, audioOn, endVars>>
-----------------------------------------------------------------------------
\* The host's user changes the input mode; the host posts an event.
HostChange ==
    /\ main # "destroyed"
    /\ host' = ~host
    /\ posted' = TRUE
    /\ UNCHANGED <<slotVars, pc, ctlVars, authVars, catVars, selVars, seen, inVars, aiVars,
                   srcVars, rtspVars, endVars>>

\* The callback reads the mode the host has now; an unreadable mode drops the
\* event.  The event thread is the only caller and ends with the callback it
\* is in when the application stops.
EventRead ==
    /\ main = "serve"
    /\ posted
    /\ seen = "none"
    /\ posted' = FALSE
    /\ seen' \in {IF host THEN "bitstream" ELSE "other"}
                 \cup (IF "host" \in Faults THEN {"none"} ELSE {})
    /\ UNCHANGED <<slotVars, pc, ctlVars, authVars, catVars, selVars, host, inVars, aiVars,
                   srcVars, rtspVars, endVars>>

\* xc_service_input_changed: losing the input cancels the AI without a join,
\* and every change asks for a reconciliation, queued now or by whoever is busy.
EventApply ==
    /\ seen # "none"
    /\ seen' = "none"
    /\ LET bitstream == seen = "bitstream"
           changed == input # bitstream
           queueNow == changed /\ ~stopping /\ (account \/ active # NoSource) /\ ~Busy
       IN /\ input' = bitstream
          /\ inFresh' = IF changed THEN {} ELSE inFresh
          /\ aiCancel' = (aiCancel \/ (changed /\ ~bitstream))
          /\ ownerStop' = (ownerStop \/ (changed /\ ~bitstream))
          /\ reconcileReq' = ((reconcileReq \/ changed) /\ ~queueNow)
          /\ slot' = IF queueNow THEN Plain("reconcile") ELSE slot
    /\ UNCHANGED <<cur, recovery, recFresh, pc, ctlVars, authVars, catVars, selVars, host,
                   posted, mediaActive, aiRun, srcVars, rtspVars, endVars>>

\* The media thread ends after it sees the stop flag (module MediaOwner).
AiThreadExit ==
    /\ aiRun
    /\ ownerStop
    /\ aiRun' = FALSE
    /\ UNCHANGED <<slotVars, pc, ctlVars, authVars, catVars, selVars, hostVars, inVars,
                   mediaActive, ownerStop, srcVars, rtspVars, endVars>>

RtspJobs == {j \in Job : j.field = "credentials" => ~j.value}

RouteStep ==
    \/ \E c \in Cameras : QueueSelect(c)
    \/ QueueStop
    \/ \E r \in Regions : QueueRegion(r)
    \/ QueueClear
    \/ \E j \in RtspJobs : QueueRtsp(j)

EventStep == EventRead \/ EventApply
=============================================================================
