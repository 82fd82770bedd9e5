-------------------------- MODULE ServiceProperties --------------------------
(***************************************************************************)
(* What the service promises, stated over the state of module Service.      *)
(***************************************************************************)
EXTENDS Service

Waiting == pc = "idle" /\ slot = NoWork

Preparing == pc \in {"prepRead", "prepGuard", "prepPatch", "prepFail"}

\* Some catalog operation is accepted or being worked on.
CatalogBusy == CatalogWork(slot) \/ CatalogWork(cur)
-----------------------------------------------------------------------------
\* There is one mailbox for the routes, the event thread, the retry timer and
\* the worker itself.  Accepted work leaves it only into the worker's hands,
\* whoever else looks at it in between (pending/active, service.c:1601-1606).
AcceptedWorkKept == [][slot # NoWork /\ slot' # slot => slot' = NoWork /\ cur' = slot]_vars

\* The mailbox is empty while the worker is active, so that no thread can
\* queue behind an operation and be overwritten by its completion.
OneOperation == slot = NoWork \/ cur = NoWork

\* The job of an RTSP request lives on the stack of its handler: while the
\* mailbox or the worker points to it, exactly that handler is waiting
\* (xc_queue_rtsp, service.c:2612-2624).
RtspJobAlive ==
    \A c \in Clients :
        waiter[c] = "waiting" <=>
            \E w \in {slot, cur} : w # NoWork /\ w.kind = "rtsp" /\ w.job.client = c

\* Whenever the worker waits, for work or for the cloud, an AI thread that has
\* not been told to stop has the host input it was started for, whatever input
\* event fell between the reading of the intent and the start of the thread.
AiGate == pc \in {"idle", "call"} /\ aiRun /\ ~ownerStop => input

\* Until the stop, once no event is outstanding and no selection is switching
\* the input, the service's idea of the input is the host's mode.
InputTruth == ~posted /\ seen = "none" /\ ~Preparing /\ ~stopping => input = host

\* A source the sidecar has accepted is the one the service remembers, so the
\* next stop finds it although the answer was lost ("Remember uncertain
\* mutations as well", service.c:1360).
NoOrphanSource == sidecar \in {NoSource, active}

\* The sidecar's source is only changed under a listener whose demand is
\* withdrawn and with no AI thread attached to it.
DetachedSwitch == [][sidecar' # sidecar => ~demand /\ ~aiRun]_vars

\* The lifecycle reached its target: the worker waits with nothing to do, its
\* last pass reported no error, and source, AI and demand are what selection,
\* catalog, account, input and RTSP preference ask for.
Converged ==
    Waiting /\ ~stopping /\ ~failed =>
        /\ mediaActive = WantAI
        /\ mediaActive => aiRun /\ ~ownerStop
        /\ (active # NoSource) = WantSource
        /\ WantSource => active.camera = selected
        /\ sidecar = active
        /\ demand => WantSource

\* The part of Converged that must survive a failed source request: when the
\* last pass reports no error, the sidecar has the source that is wanted.  The
\* user is told to select the camera again after a failed source request
\* (app.js:159), which is a later pass.
SourceAccepted == Waiting /\ ~stopping /\ ~failed /\ WantSource => sidecar = active

\* A retry the worker makes on its own never patches the host's input mode:
\* "Recovery cannot exercise an old user input-patch intent" (service.c:488).
RetryKeepsInput ==
    Preparing => ~cur.background /\ ~(CatalogWork(cur) /\ catalogState = "retrying")

\* A displayed retry is really scheduled or running, and the scheduled one is
\* still wanted, so it is never shown for ever.
RetryingBacked ==
    /\ auth = "retrying" =>
         \E w \in {recovery, cur} : w # NoWork /\ w.kind = "refresh"
    /\ catalogState = "retrying" => CatalogWork(recovery) \/ CatalogWork(cur)
    /\ recovery # NoWork /\ ~stopping => RecoveryCurrent(recovery, "recovery")

\* What /camera/list shows as queued or loading is in the mailbox or running,
\* and a region shown as pending will be read: the discard of an outdated
\* completion relies on that ("A new region/selection/stop owns the state",
\* service.c:1976).
InProgressOwned ==
    ~stopping =>
        /\ catalogState \in {"queued", "loading"} => CatalogBusy
        /\ pendingRegion # NoRegion => CatalogBusy \/ CatalogWork(recovery)

\* The same, as long as the cloud accepts the account and no clear that leaves
\* it there makes an account it had refused look accepted again.
InProgressOwnedAuthenticated == auth = "authenticated" => InProgressOwned

\* After a newer region was asked for, or the stop, the answer of an older
\* catalog operation changes neither the catalog nor the region.
NewestRegionOnly ==
    [][CatalogWork(cur) => queued = NoRegion /\ ~stopping]_<<catalog, region>>

\* After main() has stopped everything no AI thread runs, the listener is not
\* offered a source and no accepted work is left behind; after
\* xc_service_destroy no thread is inside the freed service.
CleanShutdown ==
    /\ main \in {"shutdown", "destroyed"} =>
         /\ ~aiRun /\ ~demand
         /\ slot = NoWork /\ cur = NoWork /\ cloud = "none"
    /\ main = "destroyed" =>
         pc = "exited" /\ seen = "none" /\ \A c \in Clients : waiter[c] = "idle"
-----------------------------------------------------------------------------
\* Strengthenings that make the invariants above inductive (ServiceProofs).

InReconcile ==
    \/ pc \in {"recRead", "recSet", "recDemand", "recAttach", "recStart", "recRecheck"}
    \/ pc \in {"srcDetach", "srcRelease"} /\ stopRet \in {"switch", "undo"}

\* The worker is in xc_source_stop and will return to the given place.
InSourceStop(back) == pc \in {"srcDetach", "srcRelease"} /\ stopRet = back

\* The worker has a work item wherever it reads one, and of the kind the place
\* is for, also across the calls of xc_reconcile and xc_source_stop.
WorkerHolds ==
    /\ pc \in {"work", "finish"} \/ Preparing => cur # NoWork
    /\ pc = "call" \/ (InReconcile /\ ret = "call") =>
         cur # NoWork /\ cur.kind \in {"refresh", "list", "region", "clear"}
    /\ pc \in {"rtspRoute", "rtspReply"} \/ (InReconcile /\ ret = "rtspReply")
         \/ InSourceStop("replace") => cur # NoWork /\ cur.kind = "rtsp"
    /\ pc = "clearReset" \/ InSourceStop("clear") => cur # NoWork /\ cur.kind = "clear"
    /\ pc \in {"idle", "exited"} \/ (InReconcile /\ ret = "idle") \/ InSourceStop("exit") =>
         cur = NoWork
    /\ cloud # "none" <=> pc = "call" \/ (InReconcile /\ ret = "call")
    /\ pc = "exited" \/ InSourceStop("exit") => stopping /\ slot = NoWork
    /\ stopping <=> main \notin {"serve", "closing"}

\* Nothing is attached to the source while it changes, and nothing is attached
\* where there is none.
SourceGuarded ==
    /\ aiRun => mediaActive
    /\ active = NoSource => ~demand /\ ~aiRun
    /\ pc \in {"srcRelease", "recSet", "clearReset", "exited"} => ~demand /\ ~aiRun
    /\ pc = "recSet" => sidecar = NoSource /\ active = NoSource /\ rec.target # NoSource
    /\ pc = "recDemand" => active # NoSource
    /\ pc \in {"recAttach", "recStart"} /\ rec.ai => active # NoSource
    /\ pc = "recStart" => rec.ai
    /\ InReconcile /\ pc # "recRead" => (rec.ai => rec.source) /\ (rec.source <=> rec.target # NoSource)

\* Outside the start of the AI thread, one that has not been told to stop has
\* its input and the service runs.
AttachGuarded ==
    /\ aiRun => mediaActive
    /\ pc = "recStart" => ~mediaActive
    /\ pc # "recRecheck" /\ aiRun /\ ~ownerStop => input /\ ~stopping
    /\ Preparing /\ "guard" \in inFresh => input
    /\ pc = "prepFail" => "guard" \notin inFresh \/ stopping
-----------------------------------------------------------------------------
\* xc_call has a reason to enter xc_reconcile before it waits for the answer.
CallDue == reconcileReq \/ (stopping /\ ~callStopped)

\* The steps left, at most, until xc_reconcile or xc_source_stop returns.
PassLeft ==
    CASE pc = "recRead"    -> 8
      [] pc = "srcDetach"  -> IF stopRet = "switch" THEN 7 ELSE 2
      [] pc = "srcRelease" -> IF stopRet = "switch" THEN 6 ELSE 1
      [] pc = "recSet"     -> 5
      [] pc = "recDemand"  -> 4
      [] pc = "recAttach"  -> 3
      [] pc = "recStart"   -> 2
      [] pc = "recRecheck" -> 1
      [] OTHER             -> 0

\* The steps left, at most, from a place of a body to the end of its item.
PlaceLeft(place) ==
    CASE place = "work"       -> 27
      [] place = "clearReset" -> 24
      [] place = "call"       -> IF CallDue THEN 23 ELSE 14
      [] place = "prepRead"   -> 13
      [] place = "prepGuard"  -> 12
      [] place = "prepPatch"  -> 11
      [] place = "rtspRoute"  -> 10
      [] place = "prepFail"   -> 10
      [] place = "finish"     -> 9
      [] place = "rtspReply"  -> 1
      [] OTHER                -> 0

\* Where the worker is in the body of its item, or returns to.
BodyPoint ==
    CASE InReconcile             -> ret
      [] InSourceStop("clear")   -> "clearReset"
      [] InSourceStop("replace") -> "rtspRoute"
      [] OTHER                   -> pc

\* The worker's steps left until it waits for work again.
ItemLeft == PassLeft + PlaceLeft(BodyPoint)

\* The worker's steps left until its thread ends, once the service stops.
StopLeft ==
    IF pc = "exited" \/ InSourceStop("exit") THEN PassLeft
    ELSE 3 + ItemLeft + (IF slot # NoWork THEN 28 ELSE 0)

\* The worker never goes round in circles: whichever calls fail, every step it
\* takes brings the item it works on nearer to its end, and once the service
\* stops the end of the thread as well, which no other thread can put off.
\* Only an input event gives an item that waits for the cloud another pass.
WorkerAdvances ==
    [][/\ pc # "idle" /\ pc' # pc => ItemLeft' < ItemLeft
       /\ stopping => StopLeft' <= StopLeft /\ (pc' # pc => StopLeft' < StopLeft)]_vars
-----------------------------------------------------------------------------
\* A stop of the application ends, also in the middle of a cloud call, of a
\* retry or of an RTSP request.
ShutdownCompletes == main = "closing" ~> main = "destroyed"

\* Every RTSP handler gets its reply, also when the service stops meanwhile.
RtspAnswered == \A c \in Clients : waiter[c] = "waiting" ~> waiter[c] = "idle"

\* Losing the input ends the AI thread although the callback does not join it.
InputLossStopsAI == aiRun /\ ~input ~> ~aiRun \/ input

\* A reconciliation an input event asks for is not lost behind other work.
ReconcileServed == reconcileReq /\ account ~> ~reconcileReq \/ ~account \/ stopping

\* An AI that is wanted is attached.
AiAttaches == WantAI ~> (mediaActive /\ aiRun) \/ ~WantAI
=============================================================================
