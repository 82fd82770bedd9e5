---------------------------- MODULE ServiceState ----------------------------
(***************************************************************************)
(* State of struct xc_service (src/mhcamera/src/service.c) and of what its  *)
(* single worker owns: the work mailbox, the camera catalog and selection,  *)
(* the host input observation, the AI attachment, the camera source in the  *)
(* go2rtc sidecar and the RTSP demand.  The actions are in Reconcile,        *)
(* WorkBodies, Routes and Service, which extend one another.                 *)
(*                                                                         *)
(* A critical section under service->lock is one action.  A remote call     *)
(* made without the lock is an action of its own, so that every other       *)
(* thread can run before and after it.                                      *)
(***************************************************************************)
EXTENDS Naturals, FiniteSets

CONSTANTS
    Cameras,        \* camera identities
    Regions,        \* cloud regions a catalog can be read from
    CameraRegion,   \* the region whose catalog lists a camera
    DefaultRegion,  \* XC_REGION_CN
    Clients,        \* bridge handlers that can wait for an RTSP reply
    Requests,       \* which routes the clients use
    Faults,         \* which external calls may fail
    NoCamera, NoRegion, NoSource, NoWork, NoJob

RequestKinds == {"select", "stop", "region", "rtsp", "clear"}
FaultKinds   == {"cloud", "persist", "host", "source", "control", "media", "reset"}

ASSUME ConstantsOK ==
    /\ CameraRegion \in [Cameras -> Regions]
    /\ DefaultRegion \in Regions
    /\ Requests \subseteq RequestKinds
    /\ Faults \subseteq FaultKinds

VARIABLES
    slot,           \* service->work while service->pending, else NoWork
    cur,            \* the worker's copy while service->active, else NoWork
    recovery,       \* service->recovery.work while a retry is scheduled
    recFresh,       \* holders whose recovery_generation is the current one
    pc,             \* where the worker thread is
    ret,            \* where xc_reconcile returns to
    stopRet,        \* where xc_source_stop returns to
    out,            \* the worker's ok / catalog_loaded / region_committed / error
    rec,            \* the locals of xc_reconcile
    failed,         \* the last lifecycle pass reported an error
    cloud,          \* the thread of xc_call
    callStopped     \* xc_call's local "stopped"

VARIABLES
    auth,           \* service->auth_state
    account,        \* service->has_account
    region, catalogRegion,
    catalog,        \* service->cameras, listed for catalogRegion
    catalogState,
    pendingRegion,  \* the region shown as pending, or NoRegion
    queued,         \* service->queued_region, or NoRegion
    selected, enabled

VARIABLES
    host,           \* external: the host's input.mode is bitstream
    posted,         \* external: a config-changed event is not handled yet
    seen,           \* the mode the event callback has read and not yet applied
    input,          \* service->input_available
    inFresh,        \* holders whose input_generation is the current one
    reconcileReq,   \* service->reconcile_requested
    aiCancel        \* service->ai_cancel_requested

VARIABLES
    mediaActive,    \* service->media_active
    aiRun,          \* the media owner's thread is alive
    ownerStop,      \* owner->stop
    active,         \* service->active_source
    sidecar,        \* external: the source the sidecar holds
    demand,         \* rtsp->source_available
    rtspOn, audioOn,\* the committed RTSP preferences
    waiter,         \* xc_queue_rtsp callers
    stopping,       \* service->stopping
    main            \* where main() is

slotVars == <<slot, cur, recovery, recFresh>>
ctlVars  == <<ret, stopRet, out, rec, failed, cloud, callStopped>>
authVars == <<auth, account>>
catVars  == <<region, catalogRegion, catalog, catalogState, pendingRegion, queued>>
selVars  == <<selected, enabled>>
hostVars == <<host, posted, seen>>
inVars   == <<input, inFresh, reconcileReq, aiCancel>>
aiVars   == <<mediaActive, aiRun, ownerStop>>
srcVars  == <<active, sidecar, demand>>
rtspVars == <<rtspOn, audioOn, waiter>>
endVars  == <<stopping, main>>
vars == <<slotVars, pc, ctlVars, authVars, catVars, selVars, hostVars, inVars,
          aiVars, srcVars, rtspVars, endVars>>
-----------------------------------------------------------------------------
Source == [camera : Cameras, audio : BOOLEAN]

Kinds == {"refresh", "list", "region", "select", "stop", "reconcile", "rtsp", "clear"}

Job == [client : Clients, field : {"enabled", "audio", "credentials"}, value : BOOLEAN]

Item == [kind : Kinds, camera : Cameras \cup {NoCamera}, region : Regions \cup {NoRegion},
         background : BOOLEAN, job : Job \cup {NoJob}]

\* struct xc_work with the fields its kind needs.
Work == {w \in Item : /\ w.kind = "rtsp" => w.job \in Job
                      /\ w.kind = "select" => w.camera \in Cameras
                      /\ w.kind \in {"list", "region", "select"} => w.region \in Regions}

ASSUME Distinct ==
    /\ NoCamera \notin Cameras
    /\ NoRegion \notin Regions
    /\ NoSource \notin Source
    /\ NoJob \notin Job
    /\ NoWork \notin Work

\* A zeroed struct xc_work of one kind.
Plain(k) == [kind |-> k, camera |-> NoCamera, region |-> NoRegion,
             background |-> FALSE, job |-> NoJob]

\* The holders of a captured generation.  A generation counter is only ever
\* compared with captured copies of itself, so the model keeps the set of
\* holders whose copy is equal; advancing the counter empties the set.
Holders == {"slot", "cur", "recovery", "reconcile", "guard"}

CatalogWork(w) == w # NoWork /\ w.kind \in {"list", "region"}

\* Mutant: only one half of "pending or active" is looked at.
BusyActive == cur # NoWork

Busy == slot # NoWork \/ cur # NoWork

Outcomes == [ok : BOOLEAN, loaded : BOOLEAN, committed : BOOLEAN, replaced : BOOLEAN,
             error : {"none", "network", "incomplete", "reauth", "other"}]
NoOutcome == [ok |-> FALSE, loaded |-> FALSE, committed |-> FALSE, replaced |-> FALSE,
              error |-> "none"]

Locals == [ai : BOOLEAN, source : BOOLEAN, target : Source \cup {NoSource}, ok : BOOLEAN]
NoLocals == [ai |-> FALSE, source |-> FALSE, target |-> NoSource, ok |-> TRUE]

\* What an external call of the given kind may answer.
Answers(fault) == IF fault \in Faults THEN BOOLEAN ELSE {TRUE}
-----------------------------------------------------------------------------
\* Mutant: a cancelled retry stays on display.
CatalogStillRetrying == catalogState

\* xc_recovery_cancel_locked: a displayed retry falls back to its last result.
\* RETRYING is only ever entered together with a list error.
AuthWithoutRetry ==
    IF auth = "retrying" THEN (IF account THEN "authenticated" ELSE "idle") ELSE auth
CatalogWithoutRetry == IF catalogState = "retrying" THEN "error" ELSE catalogState

\* Mutant: the generation is not compared.
RecoveryCurrentAnyAge(w, h) ==
    /\ ~stopping
    /\ w.kind = "refresh" \/ (CatalogWork(w) /\ account)
    /\ w.kind = "list" => region = w.region

\* xc_recovery_current_locked for the copy the holder h has.
RecoveryCurrent(w, h) ==
    /\ ~stopping
    /\ h \in recFresh
    /\ \/ w.kind = "refresh"
       \/ /\ CatalogWork(w)
          /\ account
          /\ w.kind = "list" => region = w.region
          /\ (w.kind = "region" /\ ~w.background) => h \in inFresh

\* xc_input_generation_current.
InputCurrent(h) == ~stopping /\ input /\ h \in inFresh

\* xc_selected_work_locked: there is a selected camera the catalog lists.
SelectionValid ==
    /\ ~stopping
    /\ auth = "authenticated"
    /\ account
    /\ selected # NoCamera
    /\ catalogRegion = region
    /\ selected \in catalog

WantAI == SelectionValid /\ enabled /\ input
WantSource == SelectionValid /\ (WantAI \/ rtspOn)

\* Mutant: media_active is not reset.
StopAIKeepsFlag ==
    /\ aiRun' = IF mediaActive THEN FALSE ELSE aiRun
    /\ ownerStop' = IF mediaActive THEN TRUE ELSE ownerStop
    /\ UNCHANGED mediaActive

\* xc_ai_stop joins the media thread; a thread that was asked to stop ends
\* without the service lock being held (module MediaOwner).
StopAI ==
    /\ mediaActive' = FALSE
    /\ aiRun' = IF mediaActive THEN FALSE ELSE aiRun
    /\ ownerStop' = IF mediaActive THEN TRUE ELSE ownerStop

\* The catalog operation a region request becomes.
CatalogRequest(r) ==
    [Plain(IF r = region THEN "list" ELSE "region") EXCEPT !.region = r]

\* Mutant: an account alone does not justify a reconciliation.
RecoverDueAttached == reconcileReq /\ ~stopping /\ account /\ active # NoSource

\* xc_queue_recover_locked has something to queue.
RecoverDue ==
    /\ reconcileReq
    /\ ~stopping
    /\ account \/ active # NoSource
=============================================================================
