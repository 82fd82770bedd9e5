------------------------------- MODULE Service -------------------------------
(***************************************************************************)
(* The service with its threads: the worker, the thread of a cloud call,    *)
(* the bridge handlers, the event thread, the media thread and main(),      *)
(* which stops them in order (main.c:369-486).                              *)
(***************************************************************************)
EXTENDS Routes

\* main() has observed the host input, restored the stored selection and
\* queued the account refresh (main.c:431-456).
Init ==
    /\ slot = Plain("refresh") /\ cur = NoWork /\ recovery = NoWork
    /\ recFresh = {"slot"}
    /\ pc = "idle" /\ ret = "idle" /\ stopRet = "switch"
    /\ out = NoOutcome /\ rec = NoLocals
    /\ failed = FALSE
    /\ cloud = "none" /\ callStopped = FALSE
    /\ auth = "idle" /\ account = FALSE
    /\ selected \in Cameras \cup {NoCamera}
    /\ enabled \in BOOLEAN
    /\ enabled => selected # NoCamera
    /\ region = IF selected = NoCamera THEN DefaultRegion ELSE CameraRegion[selected]
    /\ catalogRegion = region
    /\ catalog = {} /\ catalogState = "idle"
    /\ pendingRegion = NoRegion /\ queued = NoRegion
    /\ host \in BOOLEAN /\ posted = FALSE /\ seen = "none"
    /\ input \in {host} \cup (IF "host" \in Faults THEN {FALSE} ELSE {})
    /\ reconcileReq = input
    /\ inFresh = {} /\ aiCancel = FALSE
    /\ mediaActive = FALSE /\ aiRun = FALSE /\ ownerStop = FALSE
    /\ active = NoSource /\ sidecar = NoSource /\ demand = FALSE
    /\ rtspOn \in (IF "rtsp" \in Requests THEN BOOLEAN ELSE {FALSE})
    /\ audioOn = TRUE
    /\ waiter = [c \in Clients |-> "idle"]
    /\ stopping = FALSE /\ main = "serve"
-----------------------------------------------------------------------------
\* SIGTERM, the end of the bridge or the death of the sidecar: the bridge and
\* the event thread leave their loops; a handler that waits keeps waiting.
CloseServe ==
    /\ main = "serve"
    /\ main' = "closing"
    /\ UNCHANGED <<slotVars, pc, ctlVars, authVars, catVars, selVars, hostVars, inVars, aiVars,
                   srcVars, rtspVars, stopping>>

\* xc_service_stop up to the join of the worker; the event thread was joined.
StopService ==
    /\ main = "closing"
    /\ seen = "none"
    /\ main' = "stopping"
    /\ stopping' = TRUE
    /\ Advance(AuthWithoutRetry)
    /\ pendingRegion' = NoRegion
    /\ aiCancel' = TRUE
    /\ ownerStop' = TRUE
    /\ UNCHANGED <<slot, cur, pc, ctlVars, account, region, catalogRegion, catalog, queued,
                   selVars, hostVars, input, inFresh, reconcileReq, mediaActive, aiRun, srcVars,
                   rtspVars>>

\* The worker is joined: main() withdraws the demand, stops the media owner
\* and ends the sidecar, which may outlive the stop that gives up.
Shutdown ==
    /\ main = "stopping"
    /\ pc = "exited"
    /\ main' = "shutdown"
    /\ demand' = FALSE
    /\ sidecar' \in {NoSource} \cup (IF "reset" \in Faults THEN {sidecar} ELSE {})
    /\ aiRun' = FALSE
    /\ ownerStop' = (ownerStop \/ aiRun)
    /\ UNCHANGED <<slotVars, pc, ctlVars, authVars, catVars, selVars, hostVars, inVars,
                   mediaActive, active, rtspVars, stopping>>

\* xc_service_destroy waits until no handler is inside the service.
Destroy ==
    /\ main = "shutdown"
    /\ \A c \in Clients : waiter[c] = "idle"
    /\ main' = "destroyed"
    /\ UNCHANGED <<slotVars, pc, ctlVars, authVars, catVars, selVars, hostVars, inVars, aiVars,
                   srcVars, rtspVars, stopping>>

Terminated ==
    /\ main = "destroyed"
    /\ UNCHANGED vars

MainStep == CloseServe \/ StopService \/ Shutdown \/ Destroy

Next ==
    \/ WorkerStep
    \/ CloudDone
    \/ RouteStep
    \/ \E c \in Clients : ClientReturn(c)
    \/ HostChange
    \/ EventStep
    \/ AiThreadExit
    \/ MainStep
    \/ Terminated

\* Every thread that can run does: the calls of the worker and of the cloud
\* thread are bounded by timeouts, a due retry is promoted by the clock, the
\* bridge and the host are free to ask for nothing.
Fairness ==
    /\ WF_vars(WorkerStep)
    /\ WF_vars(CloudDone)
    /\ \A c \in Clients : WF_vars(ClientReturn(c))
    /\ WF_vars(EventStep)
    /\ WF_vars(AiThreadExit)
    /\ WF_vars(StopService \/ Shutdown \/ Destroy)

Spec == Init /\ [][Next]_vars /\ Fairness
-----------------------------------------------------------------------------
TypeOK ==
    /\ slot \in Work \cup {NoWork} /\ cur \in Work \cup {NoWork}
    /\ recovery \in Work \cup {NoWork}
    /\ recFresh \subseteq Holders /\ inFresh \subseteq Holders
    /\ pc \in {"idle", "work", "call", "prepRead", "prepGuard", "prepPatch", "prepFail",
              "clearReset", "rtspRoute", "rtspReply", "finish", "exited", "recRead",
              "srcDetach", "srcRelease", "recSet", "recDemand", "recAttach", "recStart",
              "recRecheck"}
    /\ ret \in {"idle", "call", "rtspReply"}
    /\ stopRet \in {"switch", "undo", "replace", "clear", "exit"}
    /\ out \in Outcomes /\ rec \in Locals
    /\ failed \in BOOLEAN /\ callStopped \in BOOLEAN
    /\ cloud \in {"none", "running", "done"}
    /\ auth \in {"idle", "working", "authenticated", "reauth", "error", "retrying"}
    /\ account \in BOOLEAN
    /\ region \in Regions /\ catalogRegion \in Regions
    /\ catalog \subseteq Cameras
    /\ catalogState \in {"idle", "queued", "loading", "ready", "error", "retrying"}
    /\ pendingRegion \in Regions \cup {NoRegion} /\ queued \in Regions \cup {NoRegion}
    /\ selected \in Cameras \cup {NoCamera} /\ enabled \in BOOLEAN
    /\ host \in BOOLEAN /\ posted \in BOOLEAN
    /\ seen \in {"none", "bitstream", "other"}
    /\ input \in BOOLEAN /\ reconcileReq \in BOOLEAN /\ aiCancel \in BOOLEAN
    /\ mediaActive \in BOOLEAN /\ aiRun \in BOOLEAN /\ ownerStop \in BOOLEAN
    /\ active \in Source \cup {NoSource} /\ sidecar \in Source \cup {NoSource}
    /\ demand \in BOOLEAN /\ rtspOn \in BOOLEAN /\ audioOn \in BOOLEAN
    /\ waiter \in [Clients -> {"idle", "waiting", "answered"}]
    /\ stopping \in BOOLEAN
    /\ main \in {"serve", "closing", "stopping", "shutdown", "destroyed"}
=============================================================================
