---------------------------- MODULE ServiceProofs ----------------------------
(***************************************************************************)
(* The safety properties of module Service, proved from the type invariant  *)
(* of ServiceTypes.  Each group has its inductive invariant: SourceInv for  *)
(* the camera source, AttachGuarded for the AI thread, OneOperation for the *)
(* mailbox, EndGuarded for the shutdown, TruthGuarded for the belief about  *)
(* the input, RegionOutdated, RetryInv and DisplayInv for the catalog, and  *)
(* LifecycleInv for the lifecycle as a whole; WorkerEnds measures how far   *)
(* the worker is from the end of its item.  The steps are grouped by what   *)
(* they can touch, so that a group that leaves a conjunct alone is one leaf. *)
(***************************************************************************)
EXTENDS ServiceTypes

USE DEF slotVars, ctlVars, authVars, catVars, selVars, hostVars, inVars, aiVars, srcVars,
        rtspVars, endVars, vars

\* The worker's steps outside xc_reconcile and xc_source_stop.
TakeStep    == Take \/ Promote \/ Exit \/ StartCall \/ NoBody \/ StopBody \/ ClearBegin
RtspStep    == RtspBegin \/ RtspRoute \/ RtspReply
CallStep    == CallReconcile \/ RefreshApply \/ ListApply \/ ClearApply
PrepStep    == PrepRead \/ PrepGuard \/ PrepPatch \/ PrepFail
FinishStep  == FinishStale \/ FinishCatalog \/ FinishRefresh \/ FinishCamera \/ FinishClear
BodyStep    == TakeStep \/ RtspStep \/ CallStep \/ PrepStep \/ FinishStep \/ SelectCommit
                 \/ RegionCommit \/ ClearReset

\* The steps of the threads other than the worker and main().
OtherThread == CloudDone \/ RouteStep \/ (\E c \in Clients : ClientReturn(c)) \/ HostChange
                 \/ EventStep \/ AiThreadExit

\* The steps of the service, grouped by the thread and the part of the worker.
LEMMA NextCases ==
    Next <=> ReconcileStep \/ BodyStep \/ OtherThread \/ MainStep \/ Terminated
BY DEF Next, WorkerStep, BodyStep, TakeStep, RtspStep, CallStep, PrepStep, FinishStep, OtherThread

\* The worker changes source and AI only inside xc_reconcile and
\* xc_source_stop: its other steps leave them alone and enter those properly.
LEMMA BodyPlace ==
    ASSUME BodyStep
    PROVE  /\ UNCHANGED <<aiVars, active, demand>>
           /\ sidecar' # sidecar => pc = "clearReset" /\ sidecar' = NoSource
           /\ pc' \in {"work", "call", "prepRead", "prepGuard", "prepPatch", "prepFail", "finish",
                       "srcDetach", "rtspRoute", "rtspReply", "recRead", "idle"}
           /\ pc' = "srcDetach" => stopRet' \in {"exit", "clear", "replace"}
<1>1. CASE TakeStep
  BY <1>1 DEF TakeStep, Take, Promote, Exit, StartCall, NoBody, StopBody, ClearBegin, Succeed, Fail, Done
<1>2. CASE RtspStep
  BY <1>2 DEF RtspStep, RtspBegin, RtspRoute, RtspReply, EnterReconcile
<1>3. CASE CallStep
  BY <1>3 DEF CallStep, CallReconcile, RefreshApply, ListApply, ClearApply, CallFails, Superseded,
              Succeed, Fail, Done, EnterReconcile
<1>4. CASE PrepStep
  BY <1>4 DEF PrepStep, PrepRead, PrepGuard, PrepPatch, PrepFail, Succeed, Fail, Done
<1>5. CASE FinishStep
  BY <1>5 DEF FinishStep, FinishStale, FinishCatalog, FinishRefresh, FinishCamera, FinishClear,
              EnterReconcile
<1>6. CASE SelectCommit
  BY <1>6 DEF SelectCommit, Succeed, Fail, Done
<1>7. CASE RegionCommit
  BY <1>7 DEF RegionCommit, CallFails, Superseded, Fail, Done
<1>8. CASE ClearReset
  BY <1>8 DEF ClearReset, Fail, Done
<1> QED
  BY <1>1, <1>2, <1>3, <1>4, <1>5, <1>6, <1>7, <1>8 DEF BodyStep

\* The other threads leave the worker's place and the source alone; they can ask
\* the AI thread to stop but never start one.
LEMMA OtherPlace ==
    ASSUME OtherThread
    PROVE  /\ UNCHANGED <<pc, ret, stopRet, rec, mediaActive, srcVars, stopping, main, cur>>
           /\ aiRun' => aiRun
<1>1. CASE RouteStep
  <2>1. ASSUME NEW c \in Cameras, QueueSelect(c)
        PROVE  UNCHANGED <<pc, ret, stopRet, rec, aiVars, srcVars, stopping, main, cur>>
    BY <2>1 DEF QueueSelect
  <2>2. ASSUME NEW r \in Regions, QueueRegion(r)
        PROVE  UNCHANGED <<pc, ret, stopRet, rec, aiVars, srcVars, stopping, main, cur>>
    BY <2>2 DEF QueueRegion
  <2>3. ASSUME NEW j \in Job, QueueRtsp(j)
        PROVE  UNCHANGED <<pc, ret, stopRet, rec, aiVars, srcVars, stopping, main, cur>>
    BY <2>3 DEF QueueRtsp
  <2>4. ASSUME QueueStop \/ QueueClear
        PROVE  UNCHANGED <<pc, ret, stopRet, rec, aiVars, srcVars, stopping, main, cur>>
    BY <2>4 DEF QueueStop, QueueClear
  <2> QED
    BY <1>1, <2>1, <2>2, <2>3, <2>4 DEF RouteStep, RtspJobs
<1>2. CASE EventStep
  BY <1>2 DEF EventStep, EventRead, EventApply
<1> QED
  BY <1>1, <1>2 DEF OtherThread, CloudDone, ClientReturn, HostChange, AiThreadExit
-----------------------------------------------------------------------------
SourceInv == NoOrphanSource /\ SourceGuarded

\* Every step keeps the remembered source and the detachment around its changes.
LEMMA SourceStep ==
    ASSUME TypeInv, SourceInv, Next
    PROVE  SourceInv'
<1> USE Distinct DEF TypeInv, SourceInv, NoOrphanSource, SourceGuarded, InReconcile
<1>1. CASE RecRead
  <2>1. PICK keep \in BOOLEAN : RecRead!5!(keep)
    BY <1>1 DEF RecRead
  <2> DEFINE target == IF WantSource THEN [camera |-> selected, audio |-> TargetAudio(keep)]
                                     ELSE NoSource
  <2>2. rec' = [ai |-> WantAI, source |-> WantSource, target |-> target, ok |-> TRUE]
    BY <2>1
  <2>3. /\ WantSource => selected \in Cameras
        /\ (keep => active # NoSource) => TargetAudio(keep) \in BOOLEAN
    BY DEF TypeOK, WantSource, SelectionValid, TargetAudio, Source
  <2>4. /\ WantAI => WantSource
        /\ WantSource <=> target # NoSource
    BY <2>1, <2>3 DEF WantAI, WantSource, Source
  <2>5. (rec'.ai <=> WantAI) /\ (rec'.source <=> WantSource) /\ rec'.target = target
    BY <2>2 DEF WantAI, WantSource
  <2>6. /\ pc' \in {"srcDetach", "recSet", "recDemand", "recAttach"}
        /\ pc' = "recSet" => active = NoSource /\ target # NoSource
        /\ pc' = "recDemand" => WantSource /\ active = target
        /\ pc' = "recAttach" => ~WantSource
    BY <2>1, <2>4
  <2>7. (aiRun' => aiRun) /\ (aiRun' => mediaActive') /\ UNCHANGED srcVars
    BY <1>1 DEF RecRead, StopAI
  <2> HIDE DEF target
  <2> QED
    BY <2>4, <2>5, <2>6, <2>7
<1>2. CASE SrcDetach
  BY <1>2 DEF SrcDetach, StopAI
<1>3. CASE SrcRelease
  BY <1>3 DEF SrcRelease, AfterRelease, ReturnWith, NoLocals, TypeOK
<1>4. CASE RecSet
  BY <1>4 DEF RecSet
<1>5. CASE RecDemand
  BY <1>5 DEF RecDemand, TypeOK, Locals
<1>6. CASE RecAttach
  BY <1>6 DEF RecAttach, ReturnWith, NoLocals, StopAI, TypeOK
<1>7. CASE RecStart
  <2>1. (rec'.ai <=> rec.ai) /\ (rec'.source <=> rec.source) /\ rec'.target = rec.target
    <3>1. \A r \in Locals : LET q == [r EXCEPT !.ok = FALSE]
                            IN  q.ai = r.ai /\ q.source = r.source /\ q.target = r.target
      BY DEF Locals
    <3>2. rec' \in {rec, [rec EXCEPT !.ok = FALSE]} /\ rec \in Locals
      BY <1>7 DEF RecStart, TypeOK
    <3> QED
      BY <3>1, <3>2
  <2>2. pc = "recStart" /\ pc' = "recRecheck" /\ UNCHANGED srcVars /\ (aiRun' => mediaActive')
    BY <1>7 DEF RecStart
  <2> QED
    BY <2>1, <2>2
<1>8. CASE RecRecheck
  BY <1>8 DEF RecRecheck, ReturnWith, NoLocals, StopAI, TypeOK
<1>9. CASE BodyStep
  BY <1>9, BodyPlace
<1>10. CASE OtherThread
  BY <1>10, OtherPlace
<1>11. CASE MainStep
  BY <1>11 DEF MainStep, CloseServe, StopService, Shutdown, Destroy
<1>12. CASE Terminated
  BY <1>12 DEF Terminated
<1> QED
  BY NextCases, <1>1, <1>2, <1>3, <1>4, <1>5, <1>6, <1>7, <1>8, <1>9, <1>10, <1>11, <1>12
  DEF ReconcileStep

\* The remembered source and the detachment around its changes are invariants.
LEMMA SourceInvariant == Spec => [](TypeInv /\ SourceInv)
<1>1. Init => SourceInv
  BY DEF Init, SourceInv, NoOrphanSource, SourceGuarded, InReconcile
<1>2. TypeInv /\ SourceInv /\ [Next]_vars => SourceInv'
  <2> SUFFICES ASSUME TypeInv, SourceInv, [Next]_vars PROVE SourceInv'
    OBVIOUS
  <2>1. CASE UNCHANGED vars
    BY <2>1 DEF SourceInv, NoOrphanSource, SourceGuarded, InReconcile
  <2> QED
    BY <2>1, SourceStep
<1> QED
  BY <1>1, <1>2, TypeInvariant, PTL DEF Spec

\* "Remember uncertain mutations as well" (service.c:1360), for every number
\* of cameras and clients and whichever calls fail.
THEOREM SourceRemembered == Spec => []NoOrphanSource
<1>1. SourceInv => NoOrphanSource
  BY DEF SourceInv
<1> QED
  BY <1>1, SourceInvariant, PTL

\* xc_source_stop and the order of xc_reconcile: what changes the sidecar's
\* source finds the listener and the AI thread detached.
THEOREM SwitchDetached == Spec => DetachedSwitch
<1>1. TypeInv /\ SourceInv /\ [Next]_vars => [sidecar' # sidecar => ~demand /\ ~aiRun]_vars
  <2> SUFFICES ASSUME TypeInv, SourceInv, Next, sidecar' # sidecar PROVE ~demand /\ ~aiRun
    BY DEF vars
  <2> USE DEF TypeInv, SourceInv, SourceGuarded, WorkerHolds
  <2>1. CASE SrcRelease
    BY <2>1 DEF SrcRelease
  <2>2. CASE RecSet
    BY <2>2 DEF RecSet
  <2>3. CASE ReconcileStep /\ ~SrcRelease /\ ~RecSet
    BY <2>3 DEF ReconcileStep, RecRead, SrcDetach, RecDemand, RecAttach, RecStart, RecRecheck
  <2>4. CASE BodyStep
    BY <2>4, BodyPlace
  <2>5. CASE OtherThread
    BY <2>5, OtherPlace
  <2>6. CASE MainStep
    BY <2>6 DEF MainStep, CloseServe, StopService, Shutdown, Destroy
  <2>7. CASE Terminated
    BY <2>7 DEF Terminated
  <2> QED
    BY NextCases, <2>1, <2>2, <2>3, <2>4, <2>5, <2>6, <2>7
<1> QED
  BY <1>1, SourceInvariant, PTL DEF Spec, DetachedSwitch
-----------------------------------------------------------------------------
\* Without a failing host request.  A region switch whose preparation fails and
\* is then outdated leaves the input withdrawn until the next pass.
LEMMA QuietPlace ==
    ASSUME RtspStep \/ CallStep \/ FinishStep
    PROVE  UNCHANGED <<input, stopping>> /\ ~Preparing' /\ pc' \notin {"recStart", "recRecheck"}
           /\ pc # "recRecheck"
<1>1. CASE RtspStep
  BY <1>1 DEF RtspStep, RtspBegin, RtspRoute, RtspReply, EnterReconcile, Preparing
<1>2. CASE CallStep
  <2>1. CASE CallReconcile
    BY <2>1 DEF CallReconcile, EnterReconcile, Preparing
  <2>2. CASE RefreshApply \/ ListApply \/ ClearApply
    <3>1. pc = "call" /\ pc' = "finish"
      BY <2>2 DEF RefreshApply, ListApply, ClearApply, CallEnd, CallFails, Superseded, Succeed,
                  Fail, Done
    <3>2. UNCHANGED <<input, stopping>>
      BY <2>2 DEF RefreshApply, ListApply, ClearApply
    <3> QED
      BY <3>1, <3>2 DEF Preparing
  <2> QED
    BY <1>2, <2>1, <2>2 DEF CallStep
<1>3. CASE FinishStep
  BY <1>3 DEF FinishStep, FinishStale, FinishCatalog, FinishRefresh, FinishCamera, FinishClear,
              EnterReconcile, Preparing
<1> QED
  BY <1>1, <1>2, <1>3

\* Every step keeps an AI that was not told to stop within its input.
LEMMA AttachStep ==
    ASSUME "host" \notin Faults, TypeInv, AttachGuarded, Next
    PROVE  AttachGuarded'
<1> USE DEF TypeInv, AttachGuarded, Preparing
<1>1. CASE RecRead
  BY <1>1 DEF RecRead, StopAI
<1>2. CASE SrcDetach
  BY <1>2 DEF SrcDetach, StopAI
<1>3. CASE SrcRelease
  BY <1>3 DEF SrcRelease, AfterRelease, ReturnWith, TypeOK
<1>4. CASE RecSet
  BY <1>4 DEF RecSet
<1>5. CASE RecDemand
  BY <1>5 DEF RecDemand
<1>6. CASE RecAttach
  BY <1>6 DEF RecAttach, ReturnWith, StopAI, TypeOK
<1>7. CASE RecStart
  BY <1>7 DEF RecStart
<1>8. CASE RecRecheck
  BY <1>8 DEF RecRecheck, ReturnWith, StopAI, InputCurrent, TypeOK
<1>9. CASE TakeStep
  BY <1>9, BodyPlace DEF BodyStep, TakeStep, Take, Promote, Exit, StartCall, NoBody, StopBody, ClearBegin,
     Succeed, Fail, Done
<1>10. CASE RtspStep
  BY <1>10, QuietPlace, BodyPlace DEF BodyStep
<1>11. CASE CallStep
  BY <1>11, QuietPlace, BodyPlace DEF BodyStep
<1>12. CASE PrepStep
  <2>1. CASE PrepRead
    BY <2>1 DEF PrepRead, Succeed, Done
  <2>2. CASE PrepGuard
    BY <2>2 DEF PrepGuard, InputCurrent
  <2>3. CASE PrepPatch
    BY <2>3 DEF PrepPatch, Answers, Succeed, Done
  <2>4. CASE PrepFail
    BY <2>4 DEF PrepFail, Fail, Done
  <2> QED
    BY <1>12, <2>1, <2>2, <2>3, <2>4 DEF PrepStep
<1>13. CASE FinishStep
  BY <1>13, QuietPlace, BodyPlace DEF BodyStep
<1>14. CASE SelectCommit
  BY <1>14 DEF SelectCommit, Succeed, Fail, Done
<1>15. CASE RegionCommit
  <2>1. \/ pc' = "finish" /\ input' = input
        \/ pc' = "prepRead" /\ input' = TRUE
    BY <1>15 DEF RegionCommit, CallFails, Superseded, Fail, Done
  <2>2. UNCHANGED <<aiVars, stopping>> /\ pc = "call"
    BY <1>15 DEF RegionCommit, CallEnd
  <2> QED
    BY <2>1, <2>2
<1>16. CASE ClearReset
  BY <1>16 DEF ClearReset, Fail, Done
<1>17. CASE RouteStep
  <2>1. ASSUME NEW c \in Cameras, QueueSelect(c)
        PROVE  UNCHANGED <<pc, aiVars, input, stopping, rec>> /\ ("guard" \in inFresh' => "guard" \in inFresh)
    BY <2>1 DEF QueueSelect
  <2>2. ASSUME NEW r \in Regions, QueueRegion(r)
        PROVE  UNCHANGED <<pc, aiVars, input, stopping, rec>> /\ ("guard" \in inFresh' => "guard" \in inFresh)
    BY <2>2 DEF QueueRegion, PostCatalog
  <2>3. ASSUME NEW j \in Job, QueueRtsp(j)
        PROVE  UNCHANGED <<pc, aiVars, input, inFresh, stopping, rec>>
    BY <2>3 DEF QueueRtsp
  <2>4. ASSUME QueueStop \/ QueueClear
        PROVE  UNCHANGED <<pc, aiVars, input, inFresh, stopping, rec>>
    BY <2>4 DEF QueueStop, QueueClear
  <2>5. UNCHANGED <<pc, aiVars, input, stopping, rec>> /\ ("guard" \in inFresh' => "guard" \in inFresh)
    BY <1>17, <2>1, <2>2, <2>3, <2>4 DEF RouteStep, RtspJobs
  <2> QED
    BY <2>5
<1>18. CASE EventStep
  <2>1. CASE EventRead
    BY <2>1 DEF EventRead
  <2>2. CASE EventApply
    <3>1. UNCHANGED <<pc, mediaActive, aiRun, stopping, rec>>
      BY <2>2 DEF EventApply
    <3>2. CASE input = (seen = "bitstream")
      <4>1. (input' <=> input) /\ inFresh' = inFresh /\ (ownerStop' <=> ownerStop)
        BY <2>2, <3>2 DEF EventApply, TypeOK
      <4> QED
        BY <3>1, <4>1
    <3>3. CASE input # (seen = "bitstream")
      <4>1. inFresh' = {} /\ (input' <=> seen = "bitstream") /\ (input' <=> ~input)
        BY <2>2, <3>3 DEF EventApply, TypeOK
      <4>2. ownerStop' <=> ownerStop \/ seen # "bitstream"
        BY <2>2, <3>3 DEF EventApply, TypeOK
      <4> QED
        BY <3>1, <4>1, <4>2
    <3> QED
      BY <3>2, <3>3
  <2> QED
    BY <1>18, <2>1, <2>2 DEF EventStep
<1>19. CASE OtherThread /\ ~RouteStep /\ ~EventStep
  BY <1>19 DEF OtherThread, CloudDone, ClientReturn, HostChange, AiThreadExit
<1>20. CASE MainStep
  BY <1>20 DEF MainStep, CloseServe, StopService, Shutdown, Destroy
<1>21. CASE Terminated
  BY <1>21 DEF Terminated
<1> QED
  BY NextCases, <1>1, <1>2, <1>3, <1>4, <1>5, <1>6, <1>7, <1>8, <1>9, <1>10, <1>11, <1>12, <1>13,
     <1>14, <1>15, <1>16, <1>17, <1>18, <1>19, <1>20, <1>21
  DEF ReconcileStep, BodyStep

\* xc_reconcile's two input checks, the cancellation and the stop flag keep an
\* attached AI within the input it was started for.
THEOREM AiGated ==
    ASSUME "host" \notin Faults
    PROVE  Spec => []AiGate
<1>1. Init => AttachGuarded
  BY DEF Init, AttachGuarded, Preparing
<1>2. TypeInv /\ AttachGuarded /\ [Next]_vars => AttachGuarded'
  <2> SUFFICES ASSUME TypeInv, AttachGuarded, [Next]_vars PROVE AttachGuarded'
    OBVIOUS
  <2>1. CASE UNCHANGED vars
    BY <2>1 DEF AttachGuarded, Preparing
  <2> QED
    BY <2>1, AttachStep
<1>3. AttachGuarded => AiGate
  BY DEF AttachGuarded, AiGate
<1> QED
  BY <1>1, <1>2, <1>3, TypeInvariant, PTL DEF Spec
-----------------------------------------------------------------------------
Kept == slot # NoWork /\ slot' # slot => slot' = NoWork /\ cur' = slot

\* Whoever writes the mailbox finds it empty and the worker without an item,
\* or is the worker that ends the item it has.
LEMMA MailboxStep ==
    ASSUME TypeInv, OneOperation, Next
    PROVE  OneOperation' /\ Kept
<1> USE DEF OneOperation, Kept
<1>1. CASE ReconcileStep
  BY <1>1 DEF ReconcileStep, RecRead, SrcDetach, SrcRelease, RecSet, RecDemand, RecAttach,
              RecStart, RecRecheck
<1>2. CASE TakeStep
  BY <1>2 DEF TakeStep, Take, Promote, Exit, StartCall, NoBody, StopBody, ClearBegin
<1>3. CASE FinishStep \/ RtspReply
  <2>1. cur # NoWork
    BY <1>3 DEF TypeInv, WorkerHolds, FinishStep, FinishStale, FinishCatalog, FinishRefresh,
                FinishCamera, FinishClear, RtspReply
  <2>2. cur' = NoWork
    BY <1>3 DEF FinishStep, FinishStale, FinishCatalog, FinishRefresh, FinishCamera, FinishClear,
                RtspReply, Retire
  <2> QED
    BY <2>1, <2>2
<1>4. CASE RtspBegin \/ RtspRoute
  BY <1>4 DEF RtspBegin, RtspRoute
<1>5. CASE CallStep
  BY <1>5 DEF CallStep, CallReconcile, RefreshApply, ListApply, ClearApply
<1>6. CASE PrepStep
  BY <1>6 DEF PrepStep, PrepRead, PrepGuard, PrepPatch, PrepFail
<1>7. CASE SelectCommit \/ RegionCommit \/ ClearReset
  BY <1>7 DEF SelectCommit, RegionCommit, ClearReset
<1>8. CASE RouteStep
  <2>1. ASSUME NEW c \in Cameras, QueueSelect(c) PROVE OneOperation' /\ Kept
    BY <2>1 DEF QueueSelect, Busy
  <2>2. ASSUME NEW r \in Regions, QueueRegion(r) PROVE OneOperation' /\ Kept
    BY <2>2 DEF QueueRegion, Busy
  <2>3. ASSUME NEW j \in Job, QueueRtsp(j) PROVE OneOperation' /\ Kept
    BY <2>3 DEF QueueRtsp, Busy
  <2>4. ASSUME QueueStop \/ QueueClear PROVE OneOperation' /\ Kept
    BY <2>4 DEF QueueStop, QueueClear, Busy
  <2> QED
    BY <1>8, <2>1, <2>2, <2>3, <2>4 DEF RouteStep, RtspJobs
<1>9. CASE EventStep
  BY <1>9 DEF EventStep, EventRead, EventApply, Busy
<1>10. CASE OtherThread /\ ~RouteStep /\ ~EventStep
  BY <1>10 DEF OtherThread, CloudDone, ClientReturn, HostChange, AiThreadExit
<1>11. CASE MainStep \/ Terminated
  BY <1>11 DEF MainStep, CloseServe, StopService, Shutdown, Destroy, Terminated
<1> QED
  BY NextCases, <1>1, <1>2, <1>3, <1>4, <1>5, <1>6, <1>7, <1>8, <1>9, <1>10, <1>11
  DEF BodyStep, RtspStep

\* One operation at a time is an invariant.
LEMMA MailboxInvariant == Spec => [](TypeInv /\ OneOperation)
<1>1. Init => OneOperation
  BY DEF Init, OneOperation
<1>2. TypeInv /\ OneOperation /\ [Next]_vars => OneOperation'
  <2> SUFFICES ASSUME TypeInv, OneOperation, [Next]_vars PROVE OneOperation'
    OBVIOUS
  <2>1. CASE UNCHANGED vars
    BY <2>1 DEF OneOperation
  <2> QED
    BY <2>1, MailboxStep
<1> QED
  BY <1>1, <1>2, TypeInvariant, PTL DEF Spec

\* pending and active exclude each other (service.c:1601-1606).
THEOREM MailboxExclusive == Spec => []OneOperation
  BY MailboxInvariant, PTL

\* No route, event, timer or completion overwrites accepted work.
THEOREM NothingOverwritten == Spec => AcceptedWorkKept
<1>1. TypeInv /\ OneOperation /\ [Next]_vars => [Kept]_vars
  BY MailboxStep
<1> QED
  BY <1>1, MailboxInvariant, PTL DEF Spec, AcceptedWorkKept, Kept
-----------------------------------------------------------------------------
\* main() goes on only with what the one before it has ended.
EndGuarded ==
    /\ main \in {"shutdown", "destroyed"} => pc = "exited"
    /\ main \notin {"serve", "closing"} => seen = "none"
    /\ main = "destroyed" => \A c \in Clients : waiter[c] = "idle"

\* Every step keeps the order of main()'s shutdown (main.c:469-486).
LEMMA EndStep ==
    ASSUME TypeInv, SourceInv, EndGuarded, Next
    PROVE  EndGuarded'
<1> USE DEF EndGuarded
<1>1. CASE ReconcileStep
  BY <1>1 DEF ReconcileStep, RecRead, SrcDetach, SrcRelease, RecSet, RecDemand, RecAttach,
              RecStart, RecRecheck
<1>2. CASE BodyStep
  <2>1. pc # "exited"
    BY <1>2 DEF BodyStep, TakeStep, Take, Promote, Exit, StartCall, NoBody, StopBody, ClearBegin,
          RtspStep, RtspBegin, RtspRoute, RtspReply, CallStep, CallReconcile, RefreshApply,
          ListApply, ClearApply, CallEnd, PrepStep, PrepRead, PrepGuard, PrepPatch, PrepFail,
          FinishStep, FinishStale, FinishCatalog, FinishRefresh, FinishCamera, FinishClear,
          SelectCommit, RegionCommit, ClearReset
  <2>2. UNCHANGED <<main, seen>>
    BY <1>2 DEF BodyStep, TakeStep, Take, Promote, Exit, StartCall, NoBody, StopBody, ClearBegin,
          RtspStep, RtspBegin, RtspRoute, RtspReply, CallStep, CallReconcile, RefreshApply,
          ListApply, ClearApply, PrepStep, PrepRead, PrepGuard, PrepPatch, PrepFail,
          FinishStep, FinishStale, FinishCatalog, FinishRefresh, FinishCamera, FinishClear,
          SelectCommit, RegionCommit, ClearReset
  <2> QED
    BY <2>1, <2>2
<1>3. CASE RouteStep
  <2>1. main = "serve"
    BY <1>3 DEF RouteStep, QueueSelect, QueueStop, QueueRegion, QueueClear, QueueRtsp, Serving
  <2> QED
    BY <1>3, <2>1, OtherPlace DEF OtherThread
<1>4. CASE EventStep
  BY <1>4 DEF EventStep, EventRead, EventApply
<1>5. ASSUME NEW c \in Clients, ClientReturn(c) PROVE EndGuarded'
  BY <1>5 DEF ClientReturn, TypeInv, TypeOK
<1>6. CASE CloudDone \/ HostChange \/ AiThreadExit
  BY <1>6 DEF CloudDone, HostChange, AiThreadExit
<1>7. CASE MainStep
  BY <1>7 DEF MainStep, CloseServe, StopService, Shutdown, Destroy
<1>8. CASE Terminated
  BY <1>8 DEF Terminated
<1> QED
  BY NextCases, <1>1, <1>2, <1>3, <1>4, <1>5, <1>6, <1>7, <1>8 DEF OtherThread

\* The order of main()'s shutdown is an invariant.
LEMMA EndInvariant == Spec => [](TypeInv /\ SourceInv /\ EndGuarded)
<1>1. Init => EndGuarded
  BY DEF Init, EndGuarded
<1>2. TypeInv /\ SourceInv /\ EndGuarded /\ [Next]_vars => EndGuarded'
  <2> SUFFICES ASSUME TypeInv, SourceInv, EndGuarded, [Next]_vars PROVE EndGuarded'
    OBVIOUS
  <2>1. CASE UNCHANGED vars
    BY <2>1 DEF EndGuarded
  <2> QED
    BY <2>1, EndStep
<1> QED
  BY <1>1, <1>2, SourceInvariant, PTL DEF Spec

\* main.c:469-486: after the joins no AI thread runs, no source is offered and nothing is queued,
\* and the service is only freed when no thread is inside it.
THEOREM ShutdownClean == Spec => []CleanShutdown
<1>1. TypeInv /\ SourceInv /\ EndGuarded => CleanShutdown
  BY DEF TypeInv, TypeOK, WorkerHolds, InReconcile, SourceInv, SourceGuarded, EndGuarded, CleanShutdown
<1> QED
  BY <1>1, EndInvariant, PTL
-----------------------------------------------------------------------------
\* What a completion or an event puts into the mailbox is never an RTSP job.
NoRtsp(w) == w = NoWork \/ w.kind # "rtsp"

\* A completion or a schedule never puts an RTSP job into the mailbox.
LEMMA PostKind ==
    /\ \A w : NoRtsp(w) /\ PostCatalog(w) => NoRtsp(slot')
    /\ Reschedule => NoRtsp(slot')
    /\ \A due, cams : PostOther(due, cams) => NoRtsp(slot')
    /\ \A r : NoRtsp(CatalogRequest(r))
<1>1. \A w : NoRtsp(w) /\ PostCatalog(w) => NoRtsp(slot')
  BY DEF PostCatalog
<1>2. Reschedule => NoRtsp(slot')
  BY DEF Reschedule, NoRtsp, Plain
<1>3. ASSUME NEW due, NEW cams, PostOther(due, cams) PROVE NoRtsp(slot')
  <2>1. \A c, r, b : [Plain("select") EXCEPT !.camera = c, !.region = r, !.background = b].kind
                       = "select"
    BY DEF Plain
  <2>2. Plain("reconcile").kind = "reconcile"
    BY DEF Plain
  <2>3. CASE due
    <3>1. PICK c \in cams : slot' = [Plain("select") EXCEPT !.camera = c, !.region = region,
                                                           !.background = cur.background]
      BY <1>3, <2>3 DEF PostOther
    <3> QED
      BY <2>1, <3>1 DEF NoRtsp
  <2>4. CASE ~due
    BY <1>3, <2>2, <2>4 DEF PostOther, NoRtsp
  <2> QED
    BY <2>3, <2>4
<1>4. \A r : NoRtsp(CatalogRequest(r))
  BY DEF NoRtsp, CatalogRequest, Plain
<1> QED
  BY <1>1, <1>2, <1>3, <1>4

\* The completions that answer no handler end an item that is no RTSP job.
LEMMA FinishKind ==
    ASSUME TypeInv, FinishStep
    PROVE  cur # NoWork /\ cur' = NoWork /\ NoRtsp(cur) /\ NoRtsp(slot') /\ waiter' = waiter
<1>1. cur # NoWork
  BY DEF TypeInv, WorkerHolds, FinishStep, FinishStale, FinishCatalog, FinishRefresh,
         FinishCamera, FinishClear
<1>2. CASE FinishStale
  BY <1>1, <1>2, PostKind DEF FinishStale, Stale, Retire, NoRtsp
<1>3. CASE FinishCatalog
  <2>1. NoRtsp(slot')
    BY <1>3, PostKind DEF FinishCatalog
  <2> QED
    BY <1>1, <1>3, <2>1 DEF FinishCatalog, CatalogWork, Retire, NoRtsp
<1>4. CASE FinishRefresh
  BY <1>1, <1>4, PostKind DEF FinishRefresh, Retire, NoRtsp
<1>5. CASE FinishCamera
  BY <1>1, <1>5, PostKind DEF FinishCamera, Retire, NoRtsp
<1>6. CASE FinishClear
  BY <1>1, <1>6, PostKind DEF FinishClear, Retire, NoRtsp
<1> QED
  BY <1>2, <1>3, <1>4, <1>5, <1>6 DEF FinishStep

\* Every step keeps a handler waiting exactly as long as its job is referenced.
LEMMA RtspJobStep ==
    ASSUME TypeInv, OneOperation, RtspJobAlive, Next
    PROVE  RtspJobAlive'
<1> USE DEF RtspJobAlive, OneOperation, NoRtsp
<1>1. CASE ReconcileStep
  <2>1. UNCHANGED <<slot, cur, waiter>>
    BY <1>1 DEF ReconcileStep, RecRead, SrcDetach, SrcRelease, RecSet, RecDemand, RecAttach,
                RecStart, RecRecheck
  <2> QED
    BY <2>1
<1>2. CASE TakeStep
  <2>1. CASE Take
    BY <2>1 DEF Take
  <2>2. CASE Promote
    <3>1. recovery.kind # "rtsp"
      BY <2>2 DEF Promote, RecoveryCurrent, CatalogWork
    <3>2. cur = NoWork
      BY <2>2 DEF Promote, TypeInv, WorkerHolds
    <3> QED
      BY <2>2, <3>1, <3>2 DEF Promote
  <2>3. CASE Exit \/ StartCall \/ NoBody \/ StopBody \/ ClearBegin
    BY <2>3 DEF Exit, StartCall, NoBody, StopBody, ClearBegin
  <2> QED
    BY <1>2, <2>1, <2>2, <2>3 DEF TakeStep
<1>3. CASE FinishStep
  BY <1>3, FinishKind
<1>4. CASE RtspReply
  <2>1. cur # NoWork /\ cur.kind = "rtsp" /\ slot = NoWork
    BY <1>4 DEF RtspReply, TypeInv, WorkerHolds
  <2>2. cur' = NoWork /\ NoRtsp(slot') /\ waiter' = [waiter EXCEPT ![cur.job.client] = "answered"]
    BY <1>4, PostKind DEF RtspReply, Retire
  <2>3. waiter \in [Clients -> {"idle", "waiting", "answered"}]
    BY DEF TypeInv, TypeOK
  <2> QED
    BY <2>1, <2>2, <2>3
<1>5. CASE RtspBegin \/ RtspRoute
  BY <1>5 DEF RtspBegin, RtspRoute
<1>6. CASE CallStep
  <2>1. UNCHANGED <<slot, cur, waiter>>
    BY <1>6 DEF CallStep, CallReconcile, RefreshApply, ListApply, ClearApply
  <2> QED
    BY <2>1
<1>7. CASE PrepStep
  BY <1>7 DEF PrepStep, PrepRead, PrepGuard, PrepPatch, PrepFail
<1>8. CASE SelectCommit \/ RegionCommit \/ ClearReset
  <2>1. UNCHANGED <<slot, cur, waiter>>
    BY <1>8 DEF SelectCommit, RegionCommit, ClearReset
  <2> QED
    BY <2>1
<1>9. CASE RouteStep
  <2>1. ASSUME NEW c \in Cameras, QueueSelect(c) PROVE RtspJobAlive'
    BY <2>1 DEF QueueSelect, Busy, Plain
  <2>2. ASSUME NEW r \in Regions, QueueRegion(r) PROVE RtspJobAlive'
    BY <2>2, PostKind DEF QueueRegion, Busy, PostCatalog
  <2>3. ASSUME NEW j \in Job, QueueRtsp(j) PROVE RtspJobAlive'
    <3>1. slot = NoWork /\ cur = NoWork /\ cur' = NoWork
      BY <2>3 DEF QueueRtsp, Busy
    <3>2. slot' \in Work /\ slot'.kind = "rtsp" /\ slot'.job = j
      BY <2>3 DEF QueueRtsp, Plain, Work, Item, Kinds
    <3>3. waiter' = [waiter EXCEPT ![j.client] = "waiting"]
      BY <2>3 DEF QueueRtsp
    <3>4. waiter \in [Clients -> {"idle", "waiting", "answered"}]
      BY DEF TypeInv, TypeOK
    <3> QED
      BY <3>1, <3>2, <3>3, <3>4, Distinct DEF Job
  <2>4. ASSUME QueueStop \/ QueueClear PROVE RtspJobAlive'
    <3>1. slot = NoWork /\ cur = NoWork /\ cur' = NoWork /\ waiter' = waiter
      BY <2>4 DEF QueueStop, QueueClear, Busy
    <3>2. NoRtsp(slot')
      <4>1. CASE QueueStop
        BY <4>1 DEF QueueStop, Plain
      <4>2. CASE QueueClear
        BY <4>2 DEF QueueClear, Plain
      <4> QED
        BY <2>4, <4>1, <4>2
    <3> QED
      BY <3>1, <3>2
  <2> QED
    BY <1>9, <2>1, <2>2, <2>3, <2>4 DEF RouteStep, RtspJobs
<1>10. CASE EventStep
  BY <1>10 DEF EventStep, EventRead, EventApply, Busy, Plain
<1>11. ASSUME NEW c \in Clients, ClientReturn(c) PROVE RtspJobAlive'
  BY <1>11 DEF ClientReturn, TypeInv, TypeOK
<1>12. CASE CloudDone \/ HostChange \/ AiThreadExit
  BY <1>12 DEF CloudDone, HostChange, AiThreadExit
<1>13. CASE MainStep \/ Terminated
  BY <1>13 DEF MainStep, CloseServe, StopService, Shutdown, Destroy, Terminated
<1> QED
  BY NextCases, <1>1, <1>2, <1>3, <1>4, <1>5, <1>6, <1>7, <1>8, <1>9, <1>10, <1>11, <1>12, <1>13
  DEF BodyStep, RtspStep, OtherThread

\* xc_queue_rtsp's job is on the handler's stack: it is never used after the
\* handler has left and the handler never waits for a job nobody has.
THEOREM RtspJobOwned == Spec => []RtspJobAlive
<1>1. Init => RtspJobAlive
  BY DEF Init, RtspJobAlive, Plain
<1>2. TypeInv /\ OneOperation /\ RtspJobAlive /\ [Next]_vars => RtspJobAlive'
  <2> SUFFICES ASSUME TypeInv, OneOperation, RtspJobAlive, [Next]_vars PROVE RtspJobAlive'
    OBVIOUS
  <2>1. CASE UNCHANGED vars
    BY <2>1 DEF RtspJobAlive
  <2> QED
    BY <2>1, RtspJobStep
<1> QED
  BY <1>1, <1>2, MailboxInvariant, PTL DEF Spec
-----------------------------------------------------------------------------
\* Until the stop: what the callback has read is the host's mode unless another
\* event is outstanding, and what the service believes is that mode unless a
\* preparation that no event has overtaken is about to establish it.
TruthGuarded ==
    ~stopping /\ ~posted =>
        /\ seen # "none" => (seen = "bitstream" <=> host)
        /\ seen = "none" /\ ~(Preparing /\ "guard" \in inFresh) => (input <=> host)

\* The worker's steps that neither prepare the input nor commit to it.
LEMMA PlainPlace ==
    ASSUME ReconcileStep \/ TakeStep \/ RtspStep \/ CallStep \/ FinishStep \/ ClearReset
    PROVE  UNCHANGED <<host, posted, seen, input, stopping>> /\ ~Preparing
<1>1. CASE ReconcileStep
  BY <1>1 DEF ReconcileStep, RecRead, SrcDetach, SrcRelease, RecSet, RecDemand, RecAttach,
              RecStart, RecRecheck, Preparing
<1>2. CASE TakeStep
  BY <1>2 DEF TakeStep, Take, Promote, Exit, StartCall, NoBody, StopBody, ClearBegin, Preparing
<1>3. CASE RtspStep
  BY <1>3 DEF RtspStep, RtspBegin, RtspRoute, RtspReply, Preparing
<1>4. CASE CallStep
  BY <1>4 DEF CallStep, CallReconcile, RefreshApply, ListApply, ClearApply, CallEnd, Preparing
<1>5. CASE FinishStep
  BY <1>5 DEF FinishStep, FinishStale, FinishCatalog, FinishRefresh, FinishCamera, FinishClear,
              Preparing
<1>6. CASE ClearReset
  BY <1>6 DEF ClearReset, Preparing
<1> QED
  BY <1>1, <1>2, <1>3, <1>4, <1>5, <1>6

\* Every step keeps the belief about the input true, if the host answers.
LEMMA TruthStep ==
    ASSUME "host" \notin Faults, TypeInv, AttachGuarded, TruthGuarded, Next
    PROVE  TruthGuarded'
<1> USE DEF TruthGuarded
<1>1. CASE ReconcileStep \/ TakeStep \/ RtspStep \/ CallStep \/ FinishStep \/ ClearReset
  BY <1>1, PlainPlace
<1>2. CASE PrepStep
  <2> USE DEF AttachGuarded, Preparing
  <2>1. CASE PrepRead
    BY <2>1 DEF PrepRead, Succeed, Done
  <2>2. CASE PrepGuard
    BY <2>2 DEF PrepGuard, InputCurrent
  <2>3. CASE PrepPatch
    BY <2>3 DEF PrepPatch, Answers, Succeed, Done, TypeInv, TypeOK
  <2>4. CASE PrepFail
    BY <2>4 DEF PrepFail, Fail, Done
  <2> QED
    BY <1>2, <2>1, <2>2, <2>3, <2>4 DEF PrepStep
<1>3. CASE SelectCommit \/ RegionCommit
  <2>1. UNCHANGED <<host, posted, seen, stopping>> /\ ~Preparing
    BY <1>3 DEF SelectCommit, RegionCommit, CallEnd, Preparing
  <2>2. input' = input \/ (pc' = "prepRead" /\ inFresh' = {"guard"})
    BY <1>3 DEF SelectCommit, RegionCommit
  <2> QED
    BY <2>1, <2>2 DEF Preparing
<1>4. CASE RouteStep
  <2>1. ASSUME NEW c \in Cameras, QueueSelect(c)
        PROVE  UNCHANGED <<pc, host, posted, seen, input, stopping>>
               /\ ("guard" \in inFresh => "guard" \in inFresh')
               /\ ("guard" \in inFresh' => "guard" \in inFresh)
    BY <2>1 DEF QueueSelect
  <2>2. ASSUME NEW r \in Regions, QueueRegion(r)
        PROVE  UNCHANGED <<pc, host, posted, seen, input, stopping>>
               /\ ("guard" \in inFresh => "guard" \in inFresh')
               /\ ("guard" \in inFresh' => "guard" \in inFresh)
    BY <2>2 DEF QueueRegion, PostCatalog
  <2>3. ASSUME NEW j \in Job, QueueRtsp(j)
        PROVE  UNCHANGED <<pc, host, posted, seen, input, inFresh, stopping>>
    BY <2>3 DEF QueueRtsp
  <2>4. ASSUME QueueStop \/ QueueClear
        PROVE  UNCHANGED <<pc, host, posted, seen, input, inFresh, stopping>>
    BY <2>4 DEF QueueStop, QueueClear
  <2>5. UNCHANGED <<pc, host, posted, seen, input, stopping>>
        /\ ("guard" \in inFresh <=> "guard" \in inFresh')
    BY <1>4, <2>1, <2>2, <2>3, <2>4 DEF RouteStep, RtspJobs
  <2> QED
    BY <2>5 DEF Preparing
<1>5. CASE EventRead
  <2>1. /\ seen' \in {IF host THEN "bitstream" ELSE "other"}
        /\ UNCHANGED <<host, stopping>>
    BY <1>5 DEF EventRead
  <2> QED
    BY <2>1
<1>6. CASE EventApply
  <2>1. seen # "none" /\ seen' = "none" /\ UNCHANGED <<host, posted, stopping>>
        /\ (input' <=> seen = "bitstream")
    BY <1>6 DEF EventApply
  <2> QED
    BY <2>1
<1>7. CASE HostChange
  BY <1>7 DEF HostChange
<1>8. CASE OtherThread /\ ~RouteStep /\ ~EventStep /\ ~HostChange
  BY <1>8 DEF OtherThread, CloudDone, ClientReturn, AiThreadExit, Preparing
<1>9. CASE MainStep \/ Terminated
  BY <1>9 DEF MainStep, CloseServe, StopService, Shutdown, Destroy, Terminated, Preparing
<1> QED
  BY NextCases, <1>1, <1>2, <1>3, <1>4, <1>5, <1>6, <1>7, <1>8, <1>9
  DEF BodyStep, OtherThread, EventStep

\* With a host that answers, an event that crosses a selection's switch of the
\* input never leaves the service with a wrong belief.
THEOREM InputKnown ==
    ASSUME "host" \notin Faults
    PROVE  Spec => []InputTruth
<1>1. Init => AttachGuarded /\ TruthGuarded
  BY DEF Init, AttachGuarded, TruthGuarded, Preparing
<1>2. TypeInv /\ AttachGuarded /\ TruthGuarded /\ [Next]_vars => AttachGuarded' /\ TruthGuarded'
  <2> SUFFICES ASSUME TypeInv, AttachGuarded, TruthGuarded, [Next]_vars
               PROVE  AttachGuarded' /\ TruthGuarded'
    OBVIOUS
  <2>1. CASE UNCHANGED vars
    BY <2>1 DEF AttachGuarded, TruthGuarded, Preparing
  <2> QED
    BY <2>1, AttachStep, TruthStep
<1>3. TypeInv /\ TruthGuarded => InputTruth
  BY DEF TruthGuarded, InputTruth, TypeInv, TypeOK
<1> QED
  BY <1>1, <1>2, <1>3, TypeInvariant, PTL DEF Spec
-----------------------------------------------------------------------------
\* The region the next completion will ask for belongs to a running or accepted
\* catalog operation, which it has outdated.
RegionOutdated ==
    /\ queued # NoRegion => CatalogWork(slot) \/ CatalogWork(cur)
    /\ CatalogWork(slot) /\ "slot" \in recFresh => queued = NoRegion
    /\ CatalogWork(cur) /\ "cur" \in recFresh => queued = NoRegion

\* A retry is background work, and background work never prepares the input.
RetryBackground ==
    /\ recovery # NoWork => recovery.background
    /\ Preparing => ~cur.background
    /\ CatalogWork(cur) /\ ~cur.background => catalogState # "retrying"

\* Next to a scheduled retry there is only work that leaves it alone.
RetryAlone ==
    recovery # NoWork =>
        /\ slot # NoWork => slot.kind \in {"stop", "reconcile", "rtsp"}
        /\ cur # NoWork => cur.kind \in {"stop", "reconcile", "rtsp"}
        /\ ~stopping => RecoveryCurrent(recovery, "recovery")

\* A refresh that has succeeded has taken its retry off the display.
RefreshSettled ==
    /\ Preparing => cur.kind # "refresh"
    /\ cur # NoWork /\ cur.kind = "refresh" /\ out.ok => pc = "finish" /\ auth # "retrying"

\* A retry on display is scheduled, or is running and not outdated.
RetryShown ==
    /\ auth = "retrying" =>
         \/ recovery # NoWork /\ recovery.kind = "refresh"
         \/ cur # NoWork /\ cur.kind = "refresh" /\ "cur" \in recFresh /\ ~stopping
    /\ catalogState = "retrying" =>
         \/ CatalogWork(recovery)
         \/ CatalogWork(cur) /\ "cur" \in recFresh /\ ~stopping

\* What the catalog invariant is about, as far as the threads that post nothing
\* are concerned.
itemVars == <<slot, cur, recovery, recFresh, auth, account, region, catalogState, pendingRegion,
              queued>>

\* The steps that leave the items, the display and the account alone.
LEMMA ItemsKept ==
    ASSUME ReconcileStep \/ RtspBegin \/ RtspRoute \/ CallReconcile \/ PrepStep \/ ClearReset
           \/ Exit \/ StartCall \/ NoBody \/ StopBody \/ ClearBegin \/ CloudDone \/ HostChange
           \/ EventRead \/ AiThreadExit \/ CloseServe \/ Shutdown \/ Destroy \/ Terminated
           \/ (\E c \in Clients : ClientReturn(c))
    PROVE  UNCHANGED itemVars
<1> USE DEF itemVars
<1>1. CASE ReconcileStep
  BY <1>1 DEF ReconcileStep, RecRead, SrcDetach, SrcRelease, RecSet, RecDemand, RecAttach,
              RecStart, RecRecheck
<1>2. CASE RtspBegin \/ RtspRoute \/ CallReconcile \/ PrepStep \/ ClearReset
  BY <1>2 DEF RtspBegin, RtspRoute, CallReconcile, PrepStep, PrepRead, PrepGuard, PrepPatch,
              PrepFail, ClearReset
<1>3. CASE Exit \/ StartCall \/ NoBody \/ StopBody \/ ClearBegin
  BY <1>3 DEF Exit, StartCall, NoBody, StopBody, ClearBegin
<1>4. CASE CloudDone \/ HostChange \/ EventRead \/ AiThreadExit
  BY <1>4 DEF CloudDone, HostChange, EventRead, AiThreadExit
<1>5. CASE CloseServe \/ Shutdown \/ Destroy \/ Terminated
  BY <1>5 DEF CloseServe, Shutdown, Destroy, Terminated
<1>6. ASSUME NEW c \in Clients, ClientReturn(c) PROVE UNCHANGED itemVars
  BY <1>6 DEF ClientReturn
<1> QED
  BY <1>1, <1>2, <1>3, <1>4, <1>5, <1>6

\* Every step keeps the queued region outdating what it waits for.
LEMMA RegionStep ==
    ASSUME TypeInv, OneOperation, RegionOutdated, Next
    PROVE  RegionOutdated'
<1> USE DEF RegionOutdated
<1>1. CASE UNCHANGED itemVars
  BY <1>1 DEF itemVars, CatalogWork
<1>2. CASE Take
  BY <1>2 DEF Take, Move, OneOperation, TypeInv, WorkerHolds, CatalogWork
<1>3. CASE Promote
  BY <1>3 DEF Promote, TypeInv, WorkerHolds, CatalogWork
<1>4. CASE RefreshApply \/ ListApply \/ RegionCommit \/ SelectCommit
  BY <1>4 DEF RefreshApply, ListApply, RegionCommit, SelectCommit, CatalogWork
<1>5. CASE ClearApply
  BY <1>5 DEF ClearApply, CatalogWork
<1>6. CASE FinishStale \/ FinishCatalog
  BY <1>6 DEF FinishStale, FinishCatalog
<1>7. CASE FinishRefresh \/ FinishCamera \/ FinishClear \/ RtspReply
  <2>1. cur # NoWork /\ slot = NoWork /\ ~CatalogWork(cur)
    BY <1>7 DEF FinishRefresh, FinishCamera, FinishClear, RtspReply, TypeInv, WorkerHolds,
                OneOperation, CatalogWork
  <2>2. queued' \in {queued, NoRegion}
    BY <1>7 DEF FinishRefresh, FinishCamera, FinishClear, RtspReply
  <2> QED
    BY <2>1, <2>2 DEF CatalogWork
<1>8. ASSUME NEW c \in Cameras, QueueSelect(c) PROVE RegionOutdated'
  BY <1>8 DEF QueueSelect, Busy, Advance, CatalogWork
<1>9. ASSUME NEW r \in Regions, QueueRegion(r) PROVE RegionOutdated'
  BY <1>9 DEF QueueRegion, Busy, PostCatalog, Advance, CatalogWork
<1>10. ASSUME NEW j \in Job, QueueRtsp(j) PROVE RegionOutdated'
  BY <1>10 DEF QueueRtsp, Busy, CatalogWork
<1>11. CASE QueueStop \/ QueueClear
  BY <1>11 DEF QueueStop, QueueClear, Busy, Advance, CatalogWork
<1>12. CASE EventApply
  <2>1. UNCHANGED <<cur, recFresh, queued>> /\ (slot' = slot \/ ~Busy)
    BY <1>12 DEF EventApply
  <2> QED
    BY <2>1 DEF Busy, CatalogWork
<1>13. CASE StopService
  BY <1>13 DEF StopService, Advance, CatalogWork
<1> QED
  BY NextCases, ItemsKept, <1>1, <1>2, <1>3, <1>4, <1>5, <1>6, <1>7, <1>8, <1>9, <1>10, <1>11,
     <1>12, <1>13
  DEF BodyStep, TakeStep, RtspStep, CallStep, FinishStep, OtherThread, RouteStep, RtspJobs,
      EventStep, MainStep

\* What RegionOutdated is for is an invariant.
LEMMA RegionInvariant == Spec => [](TypeInv /\ RegionOutdated)
<1>1. Init => RegionOutdated
  BY DEF Init, RegionOutdated, CatalogWork, Plain
<1>2. TypeInv /\ OneOperation /\ RegionOutdated /\ [Next]_vars => RegionOutdated'
  <2> SUFFICES ASSUME TypeInv, OneOperation, RegionOutdated, [Next]_vars PROVE RegionOutdated'
    OBVIOUS
  <2>1. CASE UNCHANGED vars
    BY <2>1 DEF RegionOutdated, CatalogWork
  <2> QED
    BY <2>1, RegionStep
<1> QED
  BY <1>1, <1>2, MailboxInvariant, PTL DEF Spec

\* The generation check of xc_worker (service.c:1971): no answer of a catalog
\* operation is applied after a newer region was asked for or after the stop.
THEOREM OldAnswerDiscarded == Spec => NewestRegionOnly
<1>1. TypeInv /\ RegionOutdated /\ [Next]_vars
        => [CatalogWork(cur) => queued = NoRegion /\ ~stopping]_<<catalog, region>>
  <2> SUFFICES ASSUME TypeInv, RegionOutdated, [Next]_vars, CatalogWork(cur),
                      <<catalog, region>>' # <<catalog, region>>
               PROVE  queued = NoRegion /\ ~stopping
    OBVIOUS
  <2>1. CASE ListApply \/ RegionCommit
    BY <2>1 DEF ListApply, RegionCommit, RecoveryCurrent, RegionOutdated
  <2>2. CASE SelectCommit \/ FinishClear
    BY <2>2 DEF SelectCommit, FinishClear, CatalogWork
  <2>3. CASE ReconcileStep \/ TakeStep \/ RtspStep \/ (CallStep /\ ~ListApply) \/ PrepStep
             \/ (FinishStep /\ ~FinishClear) \/ ClearReset
    BY <2>3 DEF ReconcileStep, RecRead, SrcDetach, SrcRelease, RecSet, RecDemand, RecAttach,
       RecStart, RecRecheck, TakeStep, Take, Promote, Exit, StartCall, NoBody, StopBody, ClearBegin,
       RtspStep, RtspBegin, RtspRoute, RtspReply, CallStep, CallReconcile, RefreshApply, ClearApply,
       PrepStep, PrepRead, PrepGuard, PrepPatch, PrepFail, FinishStep, FinishStale, FinishCatalog,
       FinishRefresh, FinishCamera, ClearReset
  <2>4. CASE OtherThread
    BY <2>4 DEF OtherThread, CloudDone, RouteStep, QueueSelect, QueueStop, QueueRegion, QueueClear,
       QueueRtsp, ClientReturn, HostChange, EventStep, EventRead, EventApply, AiThreadExit
  <2>5. CASE MainStep \/ UNCHANGED vars
    BY <2>5 DEF MainStep, CloseServe, StopService, Shutdown, Destroy
  <2> QED
    BY NextCases, <2>1, <2>2, <2>3, <2>4, <2>5 DEF BodyStep, Terminated
<1> QED
  BY <1>1, RegionInvariant, PTL DEF Spec, NewestRegionOnly
-----------------------------------------------------------------------------
\* A scheduled retry is the operation that failed, as background work.
LEMMA RescheduleKind ==
    ASSUME TypeInv, cur # NoWork, Reschedule
    PROVE  /\ recovery' # NoWork /\ recovery'.background /\ recovery'.kind = cur.kind
           /\ recovery'.region = cur.region
           /\ ("recovery" \in recFresh' <=> "cur" \in recFresh)
<1>1. cur \in Work
  BY DEF TypeInv, TypeOK
<1>2. recovery' = [cur EXCEPT !.background = TRUE]
  BY DEF Reschedule
<1>3. /\ recovery' \in Work /\ recovery'.background
      /\ recovery'.kind = cur.kind /\ recovery'.region = cur.region
  BY <1>1, <1>2 DEF Work, Item
<1>4. "recovery" \in recFresh' <=> "cur" \in recFresh
  BY DEF Reschedule, Move
<1> QED
  BY <1>3, <1>4, Distinct

\* Every step keeps the retries in the background.
LEMMA BackgroundStep ==
    ASSUME TypeInv, RetryBackground, Next
    PROVE  RetryBackground'
<1> USE DEF RetryBackground, Preparing
<1>1. CASE UNCHANGED itemVars /\ (Preparing' => Preparing)
  BY <1>1 DEF itemVars, CatalogWork
<1>2. CASE Take
  BY <1>2 DEF Take, CatalogWork
<1>3. CASE Promote
  BY <1>3 DEF Promote, CatalogWork
<1>4. CASE RefreshApply \/ ListApply
  <2>1. pc' = "finish"
    BY <1>4 DEF RefreshApply, ListApply, CallFails, Superseded, Succeed, Fail, Done
  <2> QED
    BY <1>4, <2>1 DEF RefreshApply, ListApply, CatalogWork
<1>5. CASE RegionCommit
  <2>1. pc' = "finish" \/ (pc' = "prepRead" /\ ~cur.background)
    BY <1>5 DEF RegionCommit, CallFails, Superseded, Fail, Done
  <2> QED
    BY <1>5, <2>1 DEF RegionCommit, CatalogWork
<1>6. CASE SelectCommit
  <2>1. pc' = "finish" \/ (pc' = "prepRead" /\ ~cur.background)
    BY <1>6 DEF SelectCommit, Succeed, Fail, Done
  <2> QED
    BY <1>6, <2>1 DEF SelectCommit, CatalogWork
<1>7. CASE ClearApply
  <2>1. pc' = "finish" /\ cur.kind = "clear" /\ cur' = cur
    BY <1>7 DEF ClearApply, CallEnd, CallFails, Succeed, Fail, Done
  <2>2. recovery' \in {recovery, NoWork}
    BY <1>7 DEF ClearApply
  <2> QED
    BY <2>1, <2>2 DEF CatalogWork
<1>8. CASE FinishStep \/ RtspReply
  <2>1. cur # NoWork /\ cur' = NoWork /\ pc' \in {"idle", "recRead"}
    BY <1>8, FinishKind DEF RtspReply, Retire, TypeInv, WorkerHolds, FinishStep, FinishStale,
       FinishCatalog, FinishRefresh, FinishCamera, FinishClear, EnterReconcile
  <2>2. recovery' \in {recovery, NoWork} \/ Reschedule
    BY <1>8 DEF RtspReply, FinishStep, FinishStale, FinishCatalog, FinishRefresh, FinishCamera,
       FinishClear, PostCatalog, PostOther
  <2> QED
    BY <2>1, <2>2, RescheduleKind DEF CatalogWork
<1>9. ASSUME NEW c \in Cameras, QueueSelect(c) PROVE RetryBackground'
  BY <1>9 DEF QueueSelect, Busy, Advance, CatalogWork
<1>10. ASSUME NEW r \in Regions, QueueRegion(r) PROVE RetryBackground'
  BY <1>10 DEF QueueRegion, PostCatalog, Advance, CatalogWithoutRetry, CatalogWork
<1>11. ASSUME NEW j \in Job, QueueRtsp(j) PROVE RetryBackground'
  BY <1>11 DEF QueueRtsp, CatalogWork
<1>12. CASE QueueStop \/ QueueClear
  BY <1>12 DEF QueueStop, QueueClear, Advance, CatalogWithoutRetry, CatalogWork
<1>13. CASE EventApply
  BY <1>13 DEF EventApply, CatalogWork
<1>14. CASE StopService
  BY <1>14 DEF StopService, Advance, CatalogWithoutRetry, CatalogWork
<1>15. CASE OtherThread \/ MainStep \/ Terminated \/ ReconcileStep
  <2>1. pc' = pc \/ ReconcileStep
    BY <1>15, OtherPlace DEF MainStep, CloseServe, StopService, Shutdown, Destroy, Terminated
  <2>2. ReconcileStep => ~Preparing'
    BY DEF ReconcileStep, RecRead, SrcDetach, SrcRelease, RecSet, RecDemand, RecAttach,
           RecStart, RecRecheck, AfterRelease, ReturnWith, TypeInv, TypeOK
  <2>3. Preparing' => Preparing
    BY <2>1, <2>2
  <2> QED
    BY <1>15, <2>3, ItemsKept, <1>1, <1>9, <1>10, <1>11, <1>12, <1>13, <1>14
    DEF OtherThread, RouteStep, RtspJobs, EventStep, MainStep
<1>16. CASE RtspBegin \/ RtspRoute \/ CallReconcile \/ PrepStep \/ ClearReset
            \/ Exit \/ StartCall \/ NoBody \/ StopBody \/ ClearBegin
  <2>1. Preparing' => Preparing
    BY <1>16 DEF RtspBegin, RtspRoute, CallReconcile, EnterReconcile, PrepStep, PrepRead, PrepGuard,
       PrepPatch, PrepFail, ClearReset, Exit, StartCall, NoBody, StopBody, ClearBegin, Succeed, Fail, Done
  <2> QED
    BY <1>1, <1>16, <2>1, ItemsKept
<1> QED
  BY NextCases, <1>2, <1>3, <1>4, <1>5, <1>6, <1>7, <1>8, <1>15, <1>16
  DEF BodyStep, TakeStep, RtspStep, CallStep

\* Every step keeps a successful refresh settled.
LEMMA SettledStep ==
    ASSUME TypeInv, RefreshSettled, Next
    PROVE  RefreshSettled'
<1> USE DEF RefreshSettled, Preparing
<1>1. CASE Take \/ Promote
  BY <1>1 DEF Take, Promote, NoOutcome
<1>2. CASE RefreshApply
  <2>1. cur' = cur /\ pc' = "finish" /\ auth' \in {auth, "authenticated", "idle"}
    BY <1>2 DEF RefreshApply, CallFails, AccountsApply, Succeed, Fail, Done
  <2>2. pc = "call" /\ cur # NoWork /\ cur.kind = "refresh"
    BY <1>2 DEF RefreshApply, CallEnd, TypeInv, WorkerHolds
  <2>3. ~out.ok /\ out \in Outcomes
    BY <2>2 DEF TypeInv, TypeOK, Outcomes
  <2>4. CASE auth' # auth
    BY <2>1, <2>4
  <2>5. CASE auth' = auth
    <3>1. (\E e \in {"network", "other"} : out' = [out EXCEPT !.error = e])
            \/ auth' \in {"authenticated", "idle"}
      BY <1>2 DEF RefreshApply, CallFails, AccountsApply, Succeed, Fail, Done
    <3>2. \A o \in Outcomes : \A e : [o EXCEPT !.error = e].ok = o.ok
      BY DEF Outcomes
    <3> QED
      BY <2>1, <2>3, <3>1, <3>2
  <2> QED
    BY <2>4, <2>5
<1>3. CASE ListApply \/ RegionCommit \/ ClearApply \/ SelectCommit
  BY <1>3 DEF ListApply, RegionCommit, ClearApply, SelectCommit, CallEnd
<1>4. CASE FinishStep \/ RtspReply
  <2>1. cur' = NoWork /\ pc' \in {"idle", "recRead"}
    BY <1>4 DEF RtspReply, Retire, FinishStep, FinishStale, FinishCatalog, FinishRefresh,
       FinishCamera, FinishClear, EnterReconcile
  <2> QED
    BY <2>1
<1>5. CASE OtherThread \/ MainStep \/ Terminated
  <2>1. UNCHANGED <<pc, cur>>
    BY <1>5, OtherPlace DEF MainStep, CloseServe, StopService, Shutdown, Destroy, Terminated
  <2>2. out' = out
    BY <1>5 DEF MainStep, CloseServe, StopService, Shutdown, Destroy, Terminated, OtherThread,
       CloudDone, RouteStep, QueueSelect, QueueStop, QueueRegion, QueueClear, QueueRtsp,
       ClientReturn, HostChange, EventStep, EventRead, EventApply, AiThreadExit
  <2>3. auth' # auth => auth' # "retrying"
    BY <1>5 DEF MainStep, CloseServe, StopService, Shutdown, Destroy, Terminated, OtherThread,
       CloudDone, RouteStep, QueueSelect, QueueStop, QueueRegion, QueueClear, QueueRtsp,
       ClientReturn, HostChange, EventStep, EventRead, EventApply, AiThreadExit, Advance,
       AuthWithoutRetry
  <2> QED
    BY <2>1, <2>2, <2>3
<1>6. CASE PrepStep
  <2>1. Preparing /\ cur' = cur
    BY <1>6 DEF PrepStep, PrepRead, PrepGuard, PrepPatch, PrepFail
  <2> QED
    BY <2>1
<1>7. CASE RtspBegin \/ RtspRoute \/ ClearReset \/ NoBody \/ StopBody \/ ClearBegin
  <2>1. cur' = cur /\ cur.kind # "refresh"
    BY <1>7 DEF RtspBegin, RtspRoute, ClearReset, NoBody, StopBody, ClearBegin, TypeInv, WorkerHolds
  <2> QED
    BY <2>1
<1>8. CASE ReconcileStep \/ CallReconcile \/ Exit \/ StartCall
  <2>1. UNCHANGED <<cur, out>> /\ pc # "finish" /\ pc' \notin {"prepRead", "prepGuard", "prepPatch", "prepFail"}
    BY <1>8 DEF ReconcileStep, RecRead, SrcDetach, SrcRelease, RecSet, RecDemand, RecAttach,
       RecStart, RecRecheck, AfterRelease, ReturnWith, TypeInv, TypeOK, CallReconcile,
       EnterReconcile, Exit, StartCall
  <2> QED
    BY <2>1
<1> QED
  BY NextCases, <1>1, <1>2, <1>3, <1>4, <1>5, <1>6, <1>7, <1>8
  DEF BodyStep, TakeStep, RtspStep, CallStep

\* What a completion leaves of the retry: nothing, the failed operation, or the
\* retry that was there, next to a reconciliation or an empty mailbox.
LEMMA CompletionRetry ==
    ASSUME TypeInv, RetryAlone, FinishStep \/ RtspReply
    PROVE  /\ cur # NoWork /\ cur' = NoWork /\ stopping' = stopping
           /\ \/ recovery' = NoWork
              \/ /\ Reschedule /\ ~out.ok /\ RecoveryCurrent(cur, "cur")
                 /\ UNCHANGED <<account, region>>
              \/ /\ recovery' = recovery /\ cur.kind \in {"stop", "reconcile", "rtsp"}
                 /\ slot' \in {NoWork, Plain("reconcile")}
                 /\ recFresh' = recFresh \ {"cur"}
                 /\ UNCHANGED <<auth, account, region, catalogState>>
<1>1. cur # NoWork /\ cur' = NoWork /\ stopping' = stopping
  BY DEF RtspReply, Retire, TypeInv, WorkerHolds, FinishStep, FinishStale,
         FinishCatalog, FinishRefresh, FinishCamera, FinishClear
<1>2. \A retry \in Retries : retry => ~out.ok /\ RecoveryCurrent(cur, "cur")
  BY DEF Retries
<1>3. CASE FinishStale
  <2>1. recovery = NoWork
    BY <1>1, <1>3 DEF FinishStale, Stale, RetryAlone
  <2> QED
    BY <1>1, <1>3, <2>1 DEF FinishStale, PostCatalog
<1>4. CASE FinishCatalog
  <2>1. recovery = NoWork
    BY <1>1, <1>4 DEF FinishCatalog, CatalogWork, RetryAlone
  <2>2. \E retry \in Retries : recovery' = NoWork \/ (retry /\ Reschedule) \/ recovery' = recovery
    BY <1>4 DEF FinishCatalog, PostCatalog, PostOther
  <2>3. UNCHANGED <<account, region>>
    BY <1>4 DEF FinishCatalog
  <2> QED
    BY <1>1, <1>2, <2>1, <2>2, <2>3
<1>5. CASE FinishRefresh
  <2>1. recovery = NoWork
    BY <1>1, <1>5 DEF FinishRefresh, RetryAlone
  <2>2. \E retry \in Retries : recovery' = NoWork \/ (retry /\ Reschedule) \/ recovery' = recovery
    BY <1>5 DEF FinishRefresh, PostCatalog, PostOther
  <2>3. UNCHANGED <<account, region>>
    BY <1>5 DEF FinishRefresh
  <2> QED
    BY <1>1, <1>2, <2>1, <2>2, <2>3
<1>6. CASE FinishCamera \/ RtspReply
  <2>1. PostOther(FALSE, {}) /\ UNCHANGED <<auth, account, region, catalogState>>
    BY <1>6 DEF FinishCamera, RtspReply
  <2>2. cur.kind \in {"select", "stop", "reconcile", "rtsp"}
    BY <1>6 DEF FinishCamera, RtspReply, TypeInv, WorkerHolds
  <2>3. recovery # NoWork => cur.kind # "select"
    BY <1>1 DEF RetryAlone
  <2> QED
    BY <1>1, <2>1, <2>2, <2>3 DEF PostOther
<1>7. CASE FinishClear
  <2>1. recovery = NoWork
    BY <1>1, <1>7 DEF FinishClear, RetryAlone
  <2> QED
    BY <1>1, <1>7, <2>1 DEF FinishClear, PostOther
<1> QED
  BY <1>3, <1>4, <1>5, <1>6, <1>7 DEF FinishStep

\* What a scheduling puts into the mailbox besides the retry.
LEMMA RescheduleSlot ==
    ASSUME Reschedule \/ slot' \in {NoWork, Plain("reconcile")}
    PROVE  slot' # NoWork => slot'.kind = "reconcile"
  BY DEF Reschedule, Plain

\* Every step keeps what is next to a scheduled retry harmless to it.
LEMMA AloneStep ==
    ASSUME TypeInv, OneOperation, RetryBackground, RetryAlone, Next
    PROVE  RetryAlone'
<1> USE DEF RecoveryCurrent, RetryAlone, RetryBackground, CatalogWork
<1>1. CASE UNCHANGED itemVars /\ stopping' = stopping
  BY <1>1 DEF itemVars
<1>2. CASE Take
  BY <1>2 DEF Take, Move
<1>3. CASE Promote
  BY <1>3 DEF Promote
<1>4. CASE RefreshApply \/ ListApply \/ RegionCommit \/ ClearApply \/ SelectCommit
  <2>1. cur # NoWork /\ cur.kind \in {"refresh", "list", "region", "clear", "select"}
    BY <1>4 DEF RefreshApply, ListApply, RegionCommit, ClearApply, SelectCommit, CallEnd, TypeInv,
                WorkerHolds
  <2>2. recovery = NoWork
    BY <2>1
  <2>3. recovery' = NoWork
    BY <1>4, <2>2 DEF RefreshApply, ListApply, RegionCommit, ClearApply, SelectCommit
  <2> QED
    BY <2>3
<1>5. CASE FinishStep \/ RtspReply
  <2>1. CASE Reschedule /\ ~out.ok /\ RecoveryCurrent(cur, "cur") /\ UNCHANGED <<account, region>>
    BY <1>5, <2>1, CompletionRetry, RescheduleKind, RescheduleSlot
  <2>2. CASE /\ recovery' = recovery /\ slot' \in {NoWork, Plain("reconcile")}
             /\ recFresh' = recFresh \ {"cur"} /\ UNCHANGED <<account, region>>
    BY <1>5, <2>2, CompletionRetry, RescheduleSlot
  <2> QED
    BY <1>5, <2>1, <2>2, CompletionRetry
<1>6. ASSUME NEW c \in Cameras, QueueSelect(c) PROVE RetryAlone'
  BY <1>6 DEF QueueSelect, Advance
<1>7. ASSUME NEW r \in Regions, QueueRegion(r) PROVE RetryAlone'
  BY <1>7 DEF QueueRegion, PostCatalog, Advance
<1>8. ASSUME NEW j \in Job, QueueRtsp(j) PROVE RetryAlone'
  <2>1. slot'.kind = "rtsp"
    BY <1>8 DEF QueueRtsp, Plain
  <2> QED
    BY <1>8, <2>1 DEF QueueRtsp, Busy
<1>9. CASE QueueStop
  <2>1. slot'.kind = "stop"
    BY <1>9 DEF QueueStop, Plain
  <2> QED
    BY <1>9, <2>1 DEF QueueStop, Busy
<1>10. CASE QueueClear
  BY <1>10 DEF QueueClear, Advance
<1>11. CASE EventApply
  <2>1. slot' = slot \/ slot'.kind = "reconcile"
    BY <1>11 DEF EventApply, Plain
  <2> QED
    BY <1>11, <2>1 DEF EventApply
<1>12. CASE StopService
  BY <1>12 DEF StopService, Advance
<1>13. CASE OtherThread \/ MainStep \/ Terminated \/ ReconcileStep \/ RtspBegin \/ RtspRoute
            \/ CallReconcile \/ PrepStep \/ ClearReset \/ Exit \/ StartCall \/ NoBody \/ StopBody
            \/ ClearBegin
  <2>1. stopping' = stopping \/ StopService
    BY <1>13, OtherPlace, PlainPlace DEF MainStep, CloseServe, Shutdown, Destroy, Terminated,
       PrepStep, PrepRead, PrepGuard, PrepPatch, PrepFail, RtspStep, CallStep, TakeStep
  <2> QED
    BY <1>13, <2>1, ItemsKept, <1>1, <1>6, <1>7, <1>8, <1>9, <1>10, <1>11, <1>12
    DEF OtherThread, RouteStep, RtspJobs, EventStep, MainStep
<1> QED
  BY NextCases, <1>2, <1>3, <1>4, <1>5, <1>13
  DEF BodyStep, TakeStep, RtspStep, CallStep

\* A retry on display is scheduled or running after every completion.
LEMMA ShownFinish ==
    ASSUME TypeInv, RetryAlone, RefreshSettled, RetryShown, FinishStep \/ RtspReply
    PROVE  RetryShown'
<1> USE DEF RetryShown
<1>1. cur # NoWork /\ cur' = NoWork /\ stopping' = stopping
  BY CompletionRetry
<1>2. CASE FinishStale
  <2>1. recovery = NoWork
    BY <1>1, <1>2 DEF FinishStale, Stale, RetryAlone
  <2>2. auth # "retrying" /\ catalogState # "retrying"
    BY <1>2, <2>1 DEF FinishStale, Stale, CatalogWork
  <2>3. auth' = auth /\ catalogState' \in {catalogState, "queued"}
    BY <1>2 DEF FinishStale, PostCatalog
  <2> QED
    BY <2>2, <2>3
<1>3. CASE FinishCatalog
  <2>1. recovery = NoWork /\ cur.kind # "refresh"
    BY <1>1, <1>3 DEF FinishCatalog, CatalogWork, RetryAlone
  <2>2. auth # "retrying"
    BY <2>1
  <2>3. auth' # "retrying"
    BY <1>3, <2>2 DEF FinishCatalog
  <2>4. catalogState' # "retrying" \/ Reschedule
    <3>1. PICK retry \in Retries :
               \/ catalogState' = "queued"
               \/ /\ catalogState' = CASE out.loaded -> "ready"
                                       [] retry      -> "retrying"
                                       [] OTHER      -> "error"
                  /\ retry => Reschedule
      BY <1>3 DEF FinishCatalog, PostCatalog
    <3>2. CASE ~retry
      BY <3>1, <3>2
    <3> QED
      BY <3>1, <3>2
  <2>5. Reschedule => CatalogWork(recovery')
    BY <1>1, <1>3, RescheduleKind DEF FinishCatalog, CatalogWork
  <2> QED
    BY <2>3, <2>4, <2>5
<1>4. CASE FinishRefresh
  <2>1. recovery = NoWork /\ cur.kind = "refresh" /\ ~CatalogWork(cur) /\ pc = "finish"
    BY <1>1, <1>4 DEF FinishRefresh, CatalogWork, RetryAlone
  <2>2. catalogState # "retrying"
    BY <2>1 DEF CatalogWork
  <2>3. catalogState' # "retrying"
    BY <1>4, <2>2 DEF FinishRefresh, PostCatalog
  <2>4. out.ok => auth # "retrying"
    BY <1>1, <2>1 DEF RefreshSettled
  <2>5. auth' # "retrying" \/ Reschedule
    <3>1. PICK retry \in Retries :
               /\ auth' = CASE out.ok -> auth
                            [] retry  -> "retrying"
                            [] OTHER  -> "error"
               /\ CASE out.ok /\ account ->
                         PostCatalog(CatalogRequest(region)) /\ UNCHANGED reconcileReq
                    [] retry -> Reschedule /\ UNCHANGED <<catalogState, pendingRegion>>
                    [] OTHER -> PostOther(FALSE, {}) /\ UNCHANGED <<catalogState, pendingRegion>>
      BY <1>4 DEF FinishRefresh
    <3>2. CASE out.ok
      <4>1. ~retry
        BY <3>1, <3>2 DEF Retries
      <4> QED
        BY <2>4, <3>1, <3>2, <4>1
    <3>3. CASE ~out.ok /\ retry
      BY <3>1, <3>3
    <3>4. CASE ~out.ok /\ ~retry
      BY <3>1, <3>4
    <3> QED
      BY <3>2, <3>3, <3>4
  <2>6. Reschedule => recovery' # NoWork /\ recovery'.kind = "refresh"
    BY <1>1, <2>1, RescheduleKind
  <2> QED
    BY <2>3, <2>5, <2>6
<1>5. CASE FinishCamera \/ RtspReply
  <2>1. cur.kind # "refresh" /\ ~CatalogWork(cur)
    BY <1>5 DEF FinishCamera, RtspReply, TypeInv, WorkerHolds, CatalogWork
  <2>2. UNCHANGED <<recovery, auth, catalogState>>
    BY <1>5 DEF FinishCamera, RtspReply, PostOther
  <2> QED
    BY <2>1, <2>2 DEF CatalogWork
<1>6. CASE FinishClear
  <2>1. recovery = NoWork /\ cur.kind = "clear"
    BY <1>1, <1>6 DEF FinishClear, RetryAlone
  <2>2. auth # "retrying" /\ catalogState # "retrying"
    BY <2>1 DEF CatalogWork
  <2>3. auth' \in {auth, "error"} /\ catalogState' \in {catalogState, "idle"}
    BY <1>6 DEF FinishClear
  <2> QED
    BY <2>2, <2>3
<1> QED
  BY <1>2, <1>3, <1>4, <1>5, <1>6 DEF FinishStep

\* Every step keeps a retry on display scheduled or running.
LEMMA ShownStep ==
    ASSUME TypeInv, RetryAlone, RefreshSettled, RetryShown, Next
    PROVE  RetryShown'
<1> USE DEF RetryShown, CatalogWork
<1>1. CASE UNCHANGED itemVars /\ stopping' = stopping
  BY <1>1 DEF itemVars
<1>2. CASE Take
  BY <1>2 DEF Take, TypeInv, WorkerHolds
<1>3. CASE Promote
  <2>1. cur = NoWork /\ recovery # NoWork /\ "cur" \in recFresh' /\ ~stopping'
    BY <1>3 DEF Promote, TypeInv, WorkerHolds, RecoveryCurrent, Move
  <2> QED
    BY <1>3, <2>1 DEF Promote
<1>4. CASE RefreshApply
  <2>1. auth' \in {auth, "authenticated", "idle"}
    BY <1>4 DEF RefreshApply, AccountsApply
  <2> QED
    BY <1>4, <2>1 DEF RefreshApply
<1>5. CASE ListApply \/ RegionCommit \/ SelectCommit
  <2>1. UNCHANGED <<slotVars, auth, catalogState, stopping>>
    BY <1>5 DEF ListApply, RegionCommit, SelectCommit
  <2> QED
    BY <2>1
<1>6. CASE ClearApply
  <2>1. cur # NoWork /\ cur.kind = "clear"
    BY <1>6 DEF ClearApply, CallEnd, TypeInv, WorkerHolds
  <2>2. auth # "retrying" /\ catalogState # "retrying"
    BY <2>1 DEF RetryAlone
  <2>3. auth' # "retrying" /\ catalogState' # "retrying"
    BY <1>6, <2>2 DEF ClearApply, AccountsApply, CatalogWithoutRetry
  <2> QED
    BY <2>3
<1>7. ASSUME NEW c \in Cameras, QueueSelect(c) PROVE RetryShown'
  BY <1>7 DEF QueueSelect, Advance, AuthWithoutRetry, CatalogWithoutRetry
<1>8. ASSUME NEW r \in Regions, QueueRegion(r) PROVE RetryShown'
  BY <1>8 DEF QueueRegion, PostCatalog, Advance, AuthWithoutRetry, CatalogWithoutRetry
<1>9. ASSUME NEW j \in Job, QueueRtsp(j) PROVE RetryShown'
  BY <1>9 DEF QueueRtsp
<1>10. CASE QueueStop \/ QueueClear
  BY <1>10 DEF QueueStop, QueueClear, Advance, CatalogWithoutRetry
<1>11. CASE EventApply
  BY <1>11 DEF EventApply
<1>12. CASE StopService
  BY <1>12 DEF StopService, Advance, AuthWithoutRetry, CatalogWithoutRetry
<1>13. CASE OtherThread \/ MainStep \/ Terminated \/ ReconcileStep \/ RtspBegin \/ RtspRoute
            \/ CallReconcile \/ PrepStep \/ ClearReset \/ Exit \/ StartCall \/ NoBody \/ StopBody
            \/ ClearBegin
  <2>1. stopping' = stopping \/ StopService
    BY <1>13, OtherPlace, PlainPlace DEF MainStep, CloseServe, Shutdown, Destroy, Terminated,
       PrepStep, PrepRead, PrepGuard, PrepPatch, PrepFail, RtspStep, CallStep, TakeStep
  <2> QED
    BY <1>13, <2>1, ItemsKept, <1>1, <1>7, <1>8, <1>9, <1>10, <1>11, <1>12
    DEF OtherThread, RouteStep, RtspJobs, EventStep, MainStep
<1> QED
  BY NextCases, ShownFinish, <1>2, <1>3, <1>4, <1>5, <1>6, <1>13
  DEF BodyStep, TakeStep, RtspStep, CallStep
-----------------------------------------------------------------------------
RetryInv == RetryBackground /\ RetryAlone /\ RefreshSettled /\ RetryShown

\* The four parts together are an invariant.
LEMMA RetryInvariant == Spec => [](TypeInv /\ RetryInv)
<1> USE DEF RetryInv
<1>1. Init => RetryInv
  BY DEF Init, RetryBackground, RetryAlone, RefreshSettled, RetryShown, CatalogWork, Preparing,
         NoOutcome
<1>2. TypeInv /\ OneOperation /\ RetryInv /\ [Next]_vars => RetryInv'
  <2> SUFFICES ASSUME TypeInv, OneOperation, RetryInv, [Next]_vars PROVE RetryInv'
    OBVIOUS
  <2>1. CASE UNCHANGED vars
    BY <2>1 DEF RetryBackground, RetryAlone, RefreshSettled, RetryShown, RecoveryCurrent,
                CatalogWork, Preparing
  <2> QED
    BY <2>1, BackgroundStep, AloneStep, SettledStep, ShownStep
<1> QED
  BY <1>1, <1>2, MailboxInvariant, PTL DEF Spec

\* "Recovery cannot exercise an old user input-patch intent" (service.c:488).
THEOREM RetryLeavesInput == Spec => []RetryKeepsInput
<1>1. TypeInv /\ RetryInv => RetryKeepsInput
  BY DEF RetryInv, RetryBackground, RetryKeepsInput, TypeInv, WorkerHolds
<1> QED
  BY <1>1, RetryInvariant, PTL

\* A retry is never shown for ever: what is shown is scheduled and still wanted,
\* or running.
THEOREM RetryShownTrue == Spec => []RetryingBacked
<1>1. TypeInv /\ RetryInv => RetryingBacked
  BY DEF RetryInv, RetryAlone, RetryShown, RetryingBacked
<1> QED
  BY <1>1, RetryInvariant, PTL
-----------------------------------------------------------------------------
\* An outdated catalog operation has a newer region to make way for, and only an
\* account is authenticated.
OutdatedQueued ==
    ~stopping =>
        /\ CatalogWork(slot) /\ "slot" \notin recFresh => queued # NoRegion
        /\ CatalogWork(cur) /\ "cur" \notin recFresh => queued # NoRegion
        /\ auth = "authenticated" => account

\* The cloud accepts the account, or may still turn out to.
Acceptable ==
    \/ auth = "authenticated" \/ auth = "retrying"
    \/ slot # NoWork /\ slot.kind = "refresh"
    \/ cur # NoWork /\ cur.kind = "refresh"
    \/ recovery # NoWork /\ recovery.kind = "refresh"

\* What is on display is being worked on, also while the account may still turn
\* out to be accepted.
DisplayOwned == Acceptable => InProgressOwned

\* Nobody asks for the account to be cleared.
NoClear ==
    /\ slot # NoWork => slot.kind # "clear"
    /\ cur # NoWork => cur.kind # "clear"

\* What a completion puts into the mailbox.
LEMMA CompletionSlot ==
    ASSUME TypeInv, FinishStep \/ RtspReply
    PROVE  /\ slot' # NoWork => slot'.kind \in {"list", "region", "select", "reconcile"}
           /\ CatalogWork(slot') => "slot" \in recFresh'
<1>1. (\E r \in Regions : PostCatalog(CatalogRequest(r))) \/ Reschedule \/ slot' = NoWork
        \/ (\E due, cams : PostOther(due, cams))
  <2>1. CASE FinishStale
    BY <2>1 DEF FinishStale, LatestDue, TypeInv, TypeOK
  <2>2. CASE FinishCatalog
    BY <2>2 DEF FinishCatalog, LatestDue, TypeInv, TypeOK
  <2>3. CASE FinishRefresh
    BY <2>3 DEF FinishRefresh, TypeInv, TypeOK
  <2>4. CASE FinishCamera \/ FinishClear \/ RtspReply
    BY <2>4 DEF FinishCamera, FinishClear, RtspReply
  <2> QED
    BY <2>1, <2>2, <2>3, <2>4 DEF FinishStep
<1>2. ASSUME NEW r \in Regions, PostCatalog(CatalogRequest(r))
      PROVE  slot'.kind \in {"list", "region"} /\ "slot" \in recFresh'
  BY <1>2 DEF PostCatalog, CatalogRequest, Plain
<1>3. Reschedule => slot' = NoWork \/ slot'.kind = "reconcile"
  BY RescheduleSlot
<1>4. ASSUME NEW due, NEW cams, PostOther(due, cams)
      PROVE  slot' = NoWork \/ slot'.kind \in {"select", "reconcile"}
  <2>1. CASE due
    <3>1. PICK c \in cams : slot' = [Plain("select") EXCEPT !.camera = c, !.region = region,
                                                           !.background = cur.background]
      BY <1>4, <2>1 DEF PostOther
    <3> QED
      BY <3>1 DEF Plain
  <2>2. CASE ~due
    BY <1>4, <2>2 DEF PostOther, Plain
  <2> QED
    BY <2>1, <2>2
<1> QED
  BY <1>1, <1>2, <1>3, <1>4 DEF CatalogWork

\* The account stays if no request clears it.
LEMMA NoClearStep ==
    ASSUME "clear" \notin Requests, TypeInv, NoClear, Next
    PROVE  NoClear'
<1> USE DEF NoClear
<1>1. CASE UNCHANGED itemVars
  BY <1>1 DEF itemVars
<1>2. CASE Take
  BY <1>2 DEF Take
<1>3. CASE Promote
  BY <1>3 DEF Promote, RecoveryCurrent, CatalogWork
<1>4. CASE RefreshApply \/ ListApply \/ RegionCommit \/ SelectCommit \/ ClearApply
  <2>1. UNCHANGED <<slot, cur>>
    BY <1>4 DEF RefreshApply, ListApply, RegionCommit, SelectCommit, ClearApply
  <2> QED
    BY <2>1
<1>5. CASE FinishStep \/ RtspReply
  <2>1. cur' = NoWork
    BY <1>5 DEF RtspReply, Retire, FinishStep, FinishStale, FinishCatalog, FinishRefresh,
       FinishCamera, FinishClear
  <2> QED
    BY <1>5, <2>1, CompletionSlot
<1>6. CASE RouteStep
  <2>1. ASSUME NEW c \in Cameras, QueueSelect(c) PROVE NoClear'
    BY <2>1 DEF QueueSelect, Plain
  <2>2. ASSUME NEW r \in Regions, QueueRegion(r) PROVE NoClear'
    BY <2>2 DEF QueueRegion, PostCatalog, CatalogRequest, Plain
  <2>3. ASSUME NEW j \in Job, QueueRtsp(j) PROVE NoClear'
    BY <2>3 DEF QueueRtsp, Plain
  <2>4. CASE QueueStop \/ QueueClear
    BY <2>4 DEF QueueStop, QueueClear, Serving, Plain
  <2> QED
    BY <1>6, <2>1, <2>2, <2>3, <2>4 DEF RouteStep, RtspJobs
<1>7. CASE EventApply \/ StopService
  <2>1. cur' = cur
    BY <1>7 DEF EventApply, StopService
  <2>2. slot' = slot \/ slot' = Plain("reconcile")
    BY <1>7 DEF EventApply, StopService
  <2> QED
    BY <2>1, <2>2 DEF Plain
<1> QED
  BY NextCases, ItemsKept, <1>1, <1>2, <1>3, <1>4, <1>5, <1>6, <1>7
  DEF BodyStep, TakeStep, RtspStep, CallStep, OtherThread, EventStep, MainStep

\* Every step keeps a newer region queued for an operation it has outdated.
LEMMA OutdatedStep ==
    ASSUME "clear" \notin Requests, TypeInv, RetryAlone, NoClear, OutdatedQueued, Next
    PROVE  OutdatedQueued'
<1> USE DEF OutdatedQueued, CatalogWork
<1>1. CASE UNCHANGED itemVars /\ stopping' = stopping
  BY <1>1 DEF itemVars
<1>2. CASE Take
  BY <1>2 DEF Take, Move
<1>3. CASE Promote
  BY <1>3 DEF Promote, RecoveryCurrent, Move
<1>4. CASE RefreshApply
  <2>1. auth' = "authenticated" => account' \/ UNCHANGED <<auth, account>>
    BY <1>4 DEF RefreshApply, AccountsApply
  <2> QED
    BY <1>4, <2>1 DEF RefreshApply
<1>5. CASE ListApply \/ RegionCommit \/ SelectCommit
  <2>1. UNCHANGED <<slotVars, auth, account, queued, stopping>>
    BY <1>5 DEF ListApply, RegionCommit, SelectCommit
  <2> QED
    BY <2>1
<1>6. CASE ClearApply \/ FinishClear
  BY <1>6 DEF NoClear, ClearApply, CallEnd, FinishClear, TypeInv, WorkerHolds
<1>7. CASE (FinishStep /\ ~FinishClear) \/ RtspReply
  <2>1. cur' = NoWork /\ stopping' = stopping /\ account' = account
    BY <1>7, CompletionRetry DEF FinishStep, FinishStale, FinishCatalog, FinishRefresh, FinishCamera,
       RtspReply
  <2>2. auth' = "authenticated" => auth = "authenticated"
    <3>1. CASE FinishRefresh
      BY <3>1 DEF FinishRefresh
    <3>2. CASE FinishStale \/ FinishCatalog \/ FinishCamera \/ RtspReply
      BY <3>2 DEF FinishStale, FinishCatalog, FinishCamera, RtspReply
    <3> QED
      BY <1>7, <3>1, <3>2 DEF FinishStep
  <2>3. CatalogWork(slot') => "slot" \in recFresh'
    BY <1>7, CompletionSlot
  <2> QED
    BY <2>1, <2>2, <2>3
<1>8. ASSUME NEW c \in Cameras, QueueSelect(c) PROVE OutdatedQueued'
  <2>1. slot'.kind = "select" /\ cur = NoWork
    BY <1>8 DEF QueueSelect, Busy, Plain
  <2> QED
    BY <1>8, <2>1 DEF QueueSelect, Advance, AuthWithoutRetry
<1>9. ASSUME NEW r \in Regions, QueueRegion(r) PROVE OutdatedQueued'
  <2>1. account /\ UNCHANGED <<cur, account, stopping>> /\ r # NoRegion
    BY <1>9, Distinct DEF QueueRegion
  <2>2. CASE ~Busy /\ PostCatalog(CatalogRequest(r)) /\ queued' = queued
    BY <2>1, <2>2 DEF Busy, PostCatalog
  <2>3. CASE queued' = r
    BY <2>1, <2>3
  <2> QED
    BY <1>9, <2>2, <2>3 DEF QueueRegion
<1>10. ASSUME NEW j \in Job, QueueRtsp(j) PROVE OutdatedQueued'
  <2>1. slot'.kind = "rtsp"
    BY <1>10 DEF QueueRtsp, Plain
  <2> QED
    BY <1>10, <2>1 DEF QueueRtsp
<1>11. CASE QueueStop
  <2>1. slot'.kind = "stop"
    BY <1>11 DEF QueueStop, Plain
  <2> QED
    BY <1>11, <2>1 DEF QueueStop
<1>12. CASE QueueClear
  BY <1>12 DEF QueueClear, Serving
<1>13. CASE EventApply
  <2>1. slot' = slot \/ slot'.kind = "reconcile"
    BY <1>13 DEF EventApply, Plain
  <2> QED
    BY <1>13, <2>1 DEF EventApply
<1>14. CASE StopService
  BY <1>14 DEF StopService
<1>15. CASE OtherThread \/ MainStep \/ Terminated \/ ReconcileStep \/ RtspBegin \/ RtspRoute
            \/ CallReconcile \/ PrepStep \/ ClearReset \/ Exit \/ StartCall \/ NoBody \/ StopBody
            \/ ClearBegin
  <2>1. stopping' = stopping \/ StopService
    BY <1>15, OtherPlace, PlainPlace DEF MainStep, CloseServe, Shutdown, Destroy, Terminated,
       PrepStep, PrepRead, PrepGuard, PrepPatch, PrepFail, RtspStep, CallStep, TakeStep
  <2> QED
    BY <1>15, <2>1, ItemsKept, <1>1, <1>8, <1>9, <1>10, <1>11, <1>12, <1>13, <1>14
    DEF OtherThread, RouteStep, RtspJobs, EventStep, MainStep
<1> QED
  BY NextCases, <1>2, <1>3, <1>4, <1>5, <1>6, <1>7, <1>15
  DEF BodyStep, TakeStep, RtspStep, CallStep

\* Every step of another thread keeps the display owned.
LEMMA DisplayRoute ==
    ASSUME "clear" \notin Requests, TypeInv, OneOperation, DisplayOwned, RouteStep \/ EventApply
    PROVE  DisplayOwned'
<1> USE DEF DisplayOwned, Acceptable, InProgressOwned, CatalogBusy, CatalogWork
<1>1. ASSUME NEW c \in Cameras, QueueSelect(c) PROVE DisplayOwned'
  <2>1. slot'.kind = "select" /\ slot = NoWork /\ cur = NoWork /\ UNCHANGED <<cur, stopping>>
    BY <1>1 DEF QueueSelect, Busy, Plain
  <2>2. /\ recovery' = NoWork /\ pendingRegion' = NoRegion
        /\ auth' \in {"authenticated", "retrying"} => auth \in {"authenticated", "retrying"}
        /\ catalogState' \in {catalogState, "error"}
    BY <1>1 DEF QueueSelect, Advance, AuthWithoutRetry, CatalogWithoutRetry
  <2> QED
    BY <2>1, <2>2
<1>2. ASSUME NEW r \in Regions, QueueRegion(r) PROVE DisplayOwned'
  <2>1. UNCHANGED <<cur, stopping>>
    BY <1>2 DEF QueueRegion
  <2>2. CASE PostCatalog(CatalogRequest(r))
    <3>1. slot' # NoWork /\ slot'.kind \in {"list", "region"}
      BY <2>2, RequestType, Distinct DEF PostCatalog, CatalogRequest, Plain
    <3> QED
      BY <3>1
  <2>3. CASE CatalogBusy /\ slot' = slot
    BY <2>1, <2>3
  <2> QED
    BY <1>2, <2>2, <2>3 DEF QueueRegion
<1>3. ASSUME NEW j \in Job, QueueRtsp(j) PROVE DisplayOwned'
  <2>1. slot'.kind = "rtsp"
    BY <1>3 DEF QueueRtsp, Plain
  <2> QED
    BY <1>3, <2>1 DEF QueueRtsp, Busy
<1>4. CASE QueueStop \/ QueueClear
  <2>1. QueueStop
    BY <1>4 DEF QueueClear, Serving
  <2>2. slot'.kind = "stop"
    BY <2>1 DEF QueueStop, Plain
  <2> QED
    BY <2>1, <2>2 DEF QueueStop, Busy
<1>5. CASE EventApply
  <2>1. slot' = slot \/ (~Busy /\ slot'.kind = "reconcile")
    BY <1>5 DEF EventApply, Plain
  <2>2. UNCHANGED <<cur, recovery, auth, catalogState, pendingRegion, stopping>>
    BY <1>5 DEF EventApply
  <2> QED
    BY <2>1, <2>2 DEF Busy
<1> QED
  BY <1>1, <1>2, <1>3, <1>4, <1>5 DEF RouteStep, RtspJobs

\* Every completion keeps the display owned.
LEMMA DisplayFinish ==
    ASSUME TypeInv, OneOperation, NoClear, RetryAlone, RetryShown, OutdatedQueued, DisplayOwned,
           FinishStep \/ RtspReply
    PROVE  DisplayOwned'
<1> USE DEF DisplayOwned, Acceptable, InProgressOwned, CatalogBusy
<1>1. /\ cur # NoWork /\ cur' = NoWork /\ stopping' = stopping /\ slot = NoWork
      /\ ~CatalogWork(slot) /\ (slot' # NoWork => slot'.kind # "refresh")
  BY CompletionRetry, CompletionSlot DEF OneOperation, CatalogWork
<1>2. ASSUME NEW r \in Regions, PostCatalog(CatalogRequest(r))
      PROVE  DisplayOwned'
  <2>1. CatalogWork(slot')
    BY <1>2, RequestType, Distinct DEF PostCatalog, CatalogRequest, Plain, CatalogWork
  <2> QED
    BY <2>1
<1>3. CASE FinishStale /\ LatestDue(auth)
  BY <1>2, <1>3 DEF FinishStale, LatestDue, TypeInv, TypeOK
<1>4. CASE FinishStale /\ ~LatestDue(auth) /\ ~stopping
  <2>1. recovery = NoWork /\ UNCHANGED <<recovery, auth, catalogState, pendingRegion>>
    BY <1>1, <1>4 DEF FinishStale, Stale, RetryAlone
  <2>2. "cur" \notin recFresh
    BY <1>4 DEF FinishStale, Stale
  <2>3. CASE cur.kind = "refresh"
    <3>1. catalogState \notin {"queued", "loading"} /\ pendingRegion = NoRegion
      BY <1>1, <1>4, <2>1, <2>3 DEF CatalogWork
    <3> QED
      BY <2>1, <3>1
  <2>4. CASE CatalogWork(cur)
    <3>1. auth # "authenticated"
      BY <1>4, <2>2, <2>4 DEF OutdatedQueued, LatestDue
    <3>2. auth # "retrying"
      BY <2>1, <2>2 DEF RetryShown
    <3> QED
      BY <1>1, <2>1, <3>1, <3>2
  <2> QED
    BY <1>1, <1>4, <2>3, <2>4 DEF FinishStale, Stale, CatalogWork
<1>5. CASE FinishCatalog
  <2>1. PICK retry \in Retries :
             \/ LatestDue(auth') /\ PostCatalog(CatalogRequest(queued))
             \/ /\ catalogState' = CASE out.loaded -> "ready"
                                       [] retry      -> "retrying"
                                       [] OTHER      -> "error"
                /\ pendingRegion' # NoRegion => retry
                /\ retry => Reschedule
    BY <1>5 DEF FinishCatalog
  <2>2. CASE LatestDue(auth') /\ PostCatalog(CatalogRequest(queued))
    BY <1>2, <2>2 DEF LatestDue, TypeInv, TypeOK
  <2>3. CASE ~(LatestDue(auth') /\ PostCatalog(CatalogRequest(queued)))
    <3>1. catalogState' \in {"ready", "retrying", "error"}
      BY <2>1, <2>3
    <3>2. Reschedule => CatalogWork(recovery')
      BY <1>1, <1>5, RescheduleKind DEF FinishCatalog, CatalogWork
    <3> QED
      BY <2>1, <2>3, <3>1, <3>2
  <2> QED
    BY <2>2, <2>3
<1>6. CASE FinishRefresh /\ ~stopping
  <2>1. recovery = NoWork /\ cur.kind = "refresh"
    BY <1>1, <1>6 DEF FinishRefresh, RetryAlone
  <2>2. catalogState \notin {"queued", "loading"} /\ pendingRegion = NoRegion
    BY <1>1, <1>6, <2>1 DEF CatalogWork
  <2>3. PostCatalog(CatalogRequest(region)) \/ UNCHANGED <<catalogState, pendingRegion>>
    BY <1>6 DEF FinishRefresh
  <2>4. CASE PostCatalog(CatalogRequest(region))
    BY <1>2, <2>4 DEF TypeInv, TypeOK
  <2> QED
    BY <2>2, <2>3, <2>4
<1>7. CASE FinishCamera \/ RtspReply
  <2>1. UNCHANGED <<recovery, auth, catalogState, pendingRegion>>
    BY <1>7 DEF FinishCamera, RtspReply, PostOther
  <2>2. ~CatalogWork(cur)
    BY <1>7 DEF FinishCamera, RtspReply, TypeInv, WorkerHolds, CatalogWork
  <2> QED
    BY <1>1, <2>1, <2>2
<1>8. CASE FinishClear
  BY <1>1, <1>8 DEF FinishClear, NoClear
<1> QED
  BY <1>1, <1>3, <1>4, <1>5, <1>6, <1>7, <1>8 DEF FinishStep

\* Every step keeps the display owned.
LEMMA DisplayStep ==
    ASSUME "clear" \notin Requests, TypeInv, OneOperation, NoClear, RetryAlone, RetryShown,
           OutdatedQueued, DisplayOwned, Next
    PROVE  DisplayOwned'
<1> USE DEF DisplayOwned, Acceptable, InProgressOwned, CatalogBusy, CatalogWork
<1>1. CASE UNCHANGED itemVars /\ stopping' = stopping
  BY <1>1 DEF itemVars
<1>2. CASE Take
  BY <1>2 DEF Take, TypeInv, WorkerHolds
<1>3. CASE Promote
  <2>1. cur = NoWork /\ slot = NoWork /\ recovery # NoWork /\ cur' = recovery
        /\ UNCHANGED <<slot, stopping>>
        /\ catalogState' \in {catalogState, "retrying"}
    BY <1>3 DEF Promote, TypeInv, WorkerHolds
  <2>2. /\ recovery.kind = "region" => pendingRegion' = recovery.region
        /\ recovery.kind # "region" => pendingRegion' = pendingRegion
        /\ recovery.kind # "refresh" => auth' = auth
        /\ recovery' = NoWork
    BY <1>3 DEF Promote
  <2> QED
    BY <2>1, <2>2
<1>4. CASE RefreshApply
  <2>1. cur # NoWork /\ cur.kind = "refresh"
    BY <1>4 DEF RefreshApply, CallEnd, TypeInv, WorkerHolds
  <2> QED
    BY <1>4, <2>1 DEF RefreshApply
<1>5. CASE ListApply \/ RegionCommit \/ SelectCommit
  <2>1. UNCHANGED <<slotVars, auth, catalogState, pendingRegion, stopping>>
    BY <1>5 DEF ListApply, RegionCommit, SelectCommit
  <2> QED
    BY <2>1
<1>6. CASE ClearApply
  BY <1>6 DEF NoClear, ClearApply, CallEnd, TypeInv, WorkerHolds
<1>7. CASE StopService
  BY <1>7 DEF StopService
<1>8. CASE OtherThread \/ MainStep \/ Terminated \/ ReconcileStep \/ RtspBegin \/ RtspRoute
           \/ CallReconcile \/ PrepStep \/ ClearReset \/ Exit \/ StartCall \/ NoBody \/ StopBody
           \/ ClearBegin
  <2>1. stopping' = stopping \/ StopService
    BY <1>8, OtherPlace, PlainPlace DEF MainStep, CloseServe, Shutdown, Destroy, Terminated,
       PrepStep, PrepRead, PrepGuard, PrepPatch, PrepFail, RtspStep, CallStep, TakeStep
  <2> QED
    BY <1>8, <2>1, ItemsKept, DisplayRoute, <1>1, <1>7 DEF OtherThread, EventStep, MainStep
<1> QED
  BY NextCases, DisplayFinish, <1>2, <1>3, <1>4, <1>5, <1>6, <1>8
  DEF BodyStep, TakeStep, RtspStep, CallStep

DisplayInv == NoClear /\ OutdatedQueued /\ DisplayOwned

\* What is shown as queued, loading or pending is really in the mailbox, running
\* or scheduled, as long as the cloud accepts the account and nobody clears it.
THEOREM DisplayTrue ==
    ASSUME "clear" \notin Requests
    PROVE  Spec => []InProgressOwnedAuthenticated
<1> USE DEF DisplayInv
<1>1. Init => DisplayInv
  BY Distinct DEF Init, NoClear, OutdatedQueued, DisplayOwned, InProgressOwned, CatalogWork, Plain
<1>2. TypeInv /\ RetryInv /\ OneOperation /\ DisplayInv /\ [Next]_vars => DisplayInv'
  <2> SUFFICES ASSUME TypeInv, RetryInv, OneOperation, DisplayInv, [Next]_vars PROVE DisplayInv'
    OBVIOUS
  <2>1. CASE UNCHANGED vars
    BY <2>1 DEF NoClear, OutdatedQueued, DisplayOwned, Acceptable, InProgressOwned, CatalogBusy,
                CatalogWork
  <2> QED
    BY <2>1, NoClearStep, OutdatedStep, DisplayStep DEF RetryInv
<1>3. DisplayInv => InProgressOwnedAuthenticated
  BY DEF DisplayOwned, Acceptable, InProgressOwnedAuthenticated
<1> QED
  BY <1>1, <1>2, <1>3, MailboxInvariant, RetryInvariant, PTL DEF Spec
-----------------------------------------------------------------------------
\* Source, AI and demand are what is asked for (the conclusion of Converged).
Clean ==
    /\ mediaActive <=> WantAI
    /\ mediaActive => aiRun /\ ~ownerStop
    /\ active # NoSource <=> WantSource
    /\ WantSource => active.camera = selected
    /\ sidecar = active
    /\ demand => WantSource

\* The item w of the holder h is followed by a pass of xc_reconcile: only the
\* reply to an RTSP request and the discard of an outdated completion lead to
\* none by themselves.
Served(w, h) ==
    /\ w # NoWork
    /\ w.kind = "rtsp" => reconcileReq /\ (account \/ active # NoSource)
    /\ CatalogWork(w) => h \in recFresh \/ LatestDue(auth)

Owed == Served(slot, "slot") \/ Served(cur, "cur")

\* The worker is in xc_reconcile and has read the intent.
InPass == InReconcile /\ pc # "recRead"

\* The intent the pass has read is still the intent.
RecCurrent ==
    /\ rec.ai <=> WantAI
    /\ rec.source <=> WantSource
    /\ WantSource => rec.target.camera = selected
    /\ rec.ai => "reconcile" \in inFresh /\ ~aiCancel

\* An RTSP request has released the source and the pass that sets it again is
\* not decided yet.
Replacing == InSourceStop("replace") \/ (pc = "rtspRoute" /\ out.replaced)

\* Whatever outdates the intent of a pass, or source and AI after the last one,
\* owes another pass, unless the last one reports an error.
PassOwed ==
    ~stopping =>
        /\ InPass => Owed \/ RecCurrent
        /\ ~InReconcile /\ ~Replacing => failed \/ Owed \/ Clean

\* What is known of source and AI at the places of xc_reconcile and
\* xc_source_stop, if the sidecar answers.
PassPlaces ==
    /\ stopRet # "undo"
    /\ InSourceStop("replace") => out.replaced
    /\ Preparing => cur.kind \in {"select", "region"}
    /\ InPass /\ rec.source => account
    /\ pc \in {"recDemand", "recAttach", "recStart", "recRecheck"} => active = rec.target
    /\ pc \in {"recStart", "recRecheck"} => rec.ai
    /\ pc = "recRecheck" /\ rec.ok => mediaActive
    /\ pc \in {"srcRelease", "recSet"} => ~mediaActive
    /\ pc = "clearReset" => active = NoSource
    /\ mediaActive => active # NoSource
    /\ ~stopping => sidecar = active
    /\ ~stopping /\ mediaActive /\ ~aiCancel => aiRun /\ ~ownerStop

\* An outdated item is no refresh, and an outdated catalog operation has a newer
\* region to make way for.
MadeWay(w, h) ==
    w # NoWork /\ h \notin recFresh =>
        /\ w.kind # "refresh"
        /\ CatalogWork(w) => queued # NoRegion /\ account

OutdatedMakesWay == ~stopping => MadeWay(slot, "slot") /\ MadeWay(cur, "cur")

\* While the cloud refuses the account, a catalog operation finds no source: its
\* discard would not be followed by a pass that releases it.
AccountRefused == account /\ auth \notin {"authenticated", "retrying"}

RefusedDetached ==
    ~stopping /\ AccountRefused /\ CatalogBusy =>
        /\ InPass => ~rec.source
        /\ ~InReconcile => failed \/ active = NoSource

\* What the wish for an AI and a source depends on.
wantVars == <<stopping, auth, account, selected, enabled, region, catalogRegion, catalog, input,
              rtspOn>>

\* What it depends on whether a pass is owed, besides the source.
owedVars == <<slot, cur, recFresh, auth, account, queued, stopping>>

\* The wish for an AI and a source is a function of these variables.
LEMMA WantsKept ==
    ASSUME UNCHANGED wantVars
    PROVE  (WantAI' <=> WantAI) /\ (WantSource' <=> WantSource) /\ selected' = selected
BY DEF wantVars, WantAI, WantSource, SelectionValid

\* A pass stays owed as long as its reason is left alone.
LEMMA OwedKept ==
    ASSUME UNCHANGED owedVars, reconcileReq => reconcileReq',
           active # NoSource => active' # NoSource \/ account
    PROVE  Owed => Owed'
BY DEF owedVars, Owed, Served, CatalogWork, LatestDue

\* Source and AI stay as wanted as long as neither they nor the wish change.
LEMMA CleanKept ==
    ASSUME UNCHANGED wantVars, UNCHANGED <<aiVars, srcVars>>
    PROVE  Clean => Clean'
BY WantsKept DEF Clean

\* The intent of a pass stays current as long as the wish does not change.
LEMMA CurrentKept ==
    ASSUME UNCHANGED wantVars, UNCHANGED aiCancel,
           rec'.ai <=> rec.ai, rec'.source <=> rec.source, rec'.target = rec.target,
           "reconcile" \in inFresh => "reconcile" \in inFresh'
    PROVE  RecCurrent => RecCurrent'
BY WantsKept DEF RecCurrent

\* The steps of the worker's pass keep its places, if the sidecar answers.
LEMMA PlacesPass ==
    ASSUME "source" \notin Faults, TypeInv, SourceInv, PassPlaces, ReconcileStep
    PROVE  PassPlaces'
<1> USE DEF PassPlaces, InPass, InSourceStop, InReconcile, Preparing
<1>1. CASE RecRead
  <2>1. PICK keep \in BOOLEAN : RecRead!5!(keep)
    BY <1>1 DEF RecRead
  <2> DEFINE target == IF WantSource THEN [camera |-> selected, audio |-> TargetAudio(keep)]
                                     ELSE NoSource
  <2>2. rec' = [ai |-> WantAI, source |-> WantSource, target |-> target, ok |-> TRUE]
    BY <2>1
  <2>3. (rec'.source <=> WantSource) /\ rec'.target = target
    BY <2>2 DEF WantSource
  <2>4. WantSource => account
    BY DEF WantSource, SelectionValid
  <2>5. /\ pc' \in {"srcDetach", "recSet", "recDemand", "recAttach"}
        /\ pc' = "recSet" => active = NoSource
        /\ pc' \in {"recDemand", "recAttach"} => active = target
    BY <2>1
  <2>6. /\ stopRet' = "switch" /\ aiCancel' = FALSE
        /\ UNCHANGED <<active, sidecar, account, stopping>>
        /\ aiCancel => ~mediaActive'
        /\ ~aiCancel => UNCHANGED aiVars
        /\ mediaActive' => mediaActive
    BY <1>1 DEF RecRead, StopAI
  <2> HIDE DEF target
  <2> QED
    BY <2>3, <2>4, <2>5, <2>6 DEF TypeInv, TypeOK
<1>2. CASE SrcDetach
  BY <1>2 DEF SrcDetach, StopAI
<1>3. CASE SrcRelease
  <2>1. PICK ok \in {TRUE} : SrcRelease!2!(ok)
    BY <1>3 DEF SrcRelease, Answers
  <2>2. /\ sidecar' = NoSource /\ active' = NoSource
        /\ UNCHANGED <<stopRet, account, stopping, aiCancel, aiVars, cur>>
    BY <1>3, <2>1 DEF SrcRelease
  <2>3. AfterRelease(TRUE)
    BY <2>1
  <2>4. /\ pc' \in {"recSet", "recAttach", "rtspRoute", "clearReset", "exited"}
        /\ pc' \in {"recSet", "recAttach"} => stopRet = "switch" /\ rec' = rec /\ out' = out
        /\ pc' = "recAttach" => ~rec.source
    BY <2>3 DEF AfterRelease, TypeInv, TypeOK
  <2>5. pc' = "recAttach" => rec'.target = NoSource
    BY <1>3, <2>4 DEF SrcRelease, SourceInv, SourceGuarded
  <2> QED
    BY <1>3, <2>2, <2>4, <2>5 DEF SrcRelease
<1>4. CASE RecSet
  <2>1. /\ active' = rec.target /\ sidecar' = rec.target /\ pc' = "recDemand"
        /\ UNCHANGED <<stopRet, rec, account, stopping, aiCancel, aiVars>>
    BY <1>4 DEF RecSet, Answers
  <2> QED
    BY <1>4, <2>1 DEF RecSet
<1>5. CASE RecDemand
  <2>1. (rec'.ai <=> rec.ai) /\ (rec'.source <=> rec.source) /\ rec'.target = rec.target
    BY <1>5 DEF RecDemand, TypeInv, TypeOK, Locals
  <2> QED
    BY <1>5, <2>1 DEF RecDemand
<1>6. CASE RecAttach
  <2>1. CASE pc' = "recStart"
    BY <1>6, <2>1 DEF RecAttach, ReturnWith, TypeInv, TypeOK
  <2>2. CASE pc' # "recStart"
    <3>1. pc' \in {"idle", "call", "rtspReply"}
      BY <1>6, <2>2 DEF RecAttach, ReturnWith, TypeInv, TypeOK
    <3>2. UNCHANGED <<stopRet, active, sidecar, stopping, aiCancel>> /\ (mediaActive' => UNCHANGED aiVars)
      BY <1>6 DEF RecAttach, ReturnWith, StopAI
    <3> QED
      BY <3>1, <3>2
  <2> QED
    BY <2>1, <2>2
<1>7. CASE RecStart
  <2>1. /\ (rec'.ai <=> rec.ai) /\ (rec'.source <=> rec.source) /\ rec'.target = rec.target
        /\ rec'.ok => mediaActive'
        /\ ~stopping /\ mediaActive' /\ ~aiCancel => aiRun' /\ ~ownerStop'
        /\ mediaActive \/ active # NoSource
    <3>1. \A r \in Locals : LET q == [r EXCEPT !.ok = FALSE]
                            IN  q.ai = r.ai /\ q.source = r.source /\ q.target = r.target /\ ~q.ok
      BY DEF Locals
    <3>2. \/ rec' = rec /\ mediaActive' = TRUE /\ aiRun' = TRUE /\ ownerStop' = FALSE
          \/ /\ rec' = [rec EXCEPT !.ok = FALSE] /\ ownerStop' \in {ownerStop, FALSE}
             /\ UNCHANGED <<mediaActive, aiRun>>
      BY <1>7 DEF RecStart
    <3>3. rec \in Locals
      BY DEF TypeInv, TypeOK
    <3>4. active # NoSource
      BY <1>7 DEF RecStart, SourceInv, SourceGuarded
    <3>5. (rec'.ai <=> rec.ai) /\ (rec'.source <=> rec.source) /\ rec'.target = rec.target
      BY <3>1, <3>2, <3>3
    <3>6. rec'.ok => mediaActive'
      BY <3>1, <3>2, <3>3
    <3>7. ~stopping /\ mediaActive' /\ ~aiCancel => aiRun' /\ ~ownerStop'
      BY <3>2
    <3> QED
      BY <3>4, <3>5, <3>6, <3>7
  <2>2. /\ pc = "recStart" /\ pc' = "recRecheck"
        /\ UNCHANGED <<stopRet, out, active, sidecar, account, stopping, aiCancel>>
    BY <1>7 DEF RecStart
  <2>3. active # NoSource
    BY <2>2 DEF SourceInv, SourceGuarded
  <2> QED
    BY <2>1, <2>2, <2>3
<1>8. CASE RecRecheck
  <2>1. pc' \in {"idle", "call", "rtspReply"}
    BY <1>8 DEF RecRecheck, ReturnWith, TypeInv, TypeOK
  <2>2. UNCHANGED <<stopRet, active, sidecar, stopping, aiCancel>> /\ (mediaActive' => UNCHANGED aiVars)
    BY <1>8 DEF RecRecheck, StopAI
  <2> QED
    BY <2>1, <2>2
<1> QED
  BY <1>1, <1>2, <1>3, <1>4, <1>5, <1>6, <1>7, <1>8 DEF ReconcileStep

\* The worker's other steps enter xc_source_stop with the outcome it returns to,
\* and prepare the input only for what was selected.
LEMMA BodyStops ==
    ASSUME TypeInv, BodyStep, Preparing => cur.kind \in {"select", "region"}
    PROVE  /\ UNCHANGED <<aiCancel, stopping>>
           /\ stopRet' \in {stopRet, "exit", "clear", "replace"}
           /\ pc' = "srcDetach" /\ stopRet' = "replace" => out'.replaced
           /\ Preparing' => cur'.kind \in {"select", "region"}
<1> USE DEF Preparing
<1>1. CASE TakeStep
  BY <1>1 DEF TakeStep, Take, Promote, Exit, StartCall, NoBody, StopBody, ClearBegin, Succeed, Fail, Done
<1>2. CASE RtspStep
  <2>1. CASE RtspBegin
    <3>1. UNCHANGED <<aiCancel, stopping, cur>> /\ pc' \in {"rtspReply", "srcDetach", "rtspRoute"}
      BY <2>1 DEF RtspBegin
    <3>2. (pc' = "srcDetach" /\ stopRet' = "replace" /\ out'.replaced) \/ (pc' # "srcDetach" /\ stopRet' = stopRet)
      BY <2>1 DEF RtspBegin
    <3> QED
      BY <3>1, <3>2
  <2>2. CASE RtspRoute \/ RtspReply
    BY <2>2 DEF RtspRoute, RtspReply, EnterReconcile
  <2> QED
    BY <1>2, <2>1, <2>2 DEF RtspStep
<1>3. CASE CallStep
  BY <1>3 DEF CallStep, CallReconcile, RefreshApply, ListApply, ClearApply, CallFails, Superseded,
              Succeed, Fail, Done, EnterReconcile
<1>4. CASE PrepStep
  BY <1>4 DEF PrepStep, PrepRead, PrepGuard, PrepPatch, PrepFail, Succeed, Fail, Done
<1>5. CASE FinishStep
  BY <1>5 DEF FinishStep, FinishStale, FinishCatalog, FinishRefresh, FinishCamera, FinishClear,
              EnterReconcile
<1>6. CASE SelectCommit
  BY <1>6 DEF SelectCommit, Succeed, Fail, Done
<1>7. CASE RegionCommit
  BY <1>7 DEF RegionCommit, CallEnd, CallFails, Superseded, Fail, Done
<1>8. CASE ClearReset
  BY <1>8 DEF ClearReset, Fail, Done
<1> QED
  BY <1>1, <1>2, <1>3, <1>4, <1>5, <1>6, <1>7, <1>8 DEF BodyStep

\* Every step keeps the places of the worker's pass, if the sidecar answers.
LEMMA PlacesStep ==
    ASSUME "source" \notin Faults, TypeInv, SourceInv, PassPlaces, Next
    PROVE  PassPlaces'
<1>1. CASE ReconcileStep
  BY <1>1, PlacesPass
<1> USE DEF PassPlaces, InPass, InSourceStop, InReconcile
<1>2. CASE BodyStep
  <2>1. /\ pc' \in {"work", "call", "prepRead", "prepGuard", "prepPatch", "prepFail", "finish",
                    "srcDetach", "rtspRoute", "rtspReply", "recRead", "idle"}
        /\ pc' = "srcDetach" => stopRet' \in {"exit", "clear", "replace"}
        /\ UNCHANGED <<aiVars, active>>
    BY <1>2, BodyPlace
  <2>2. ~stopping => sidecar' = active
    BY <1>2, BodyPlace
  <2> QED
    BY <1>2, <2>1, <2>2, BodyStops
<1>3. CASE EventApply
  <2>1. UNCHANGED <<pc, ret, stopRet, rec, mediaActive, aiRun, srcVars, stopping, cur, out, account>>
    BY <1>3 DEF EventApply
  <2>2. ownerStop' /\ ~ownerStop => aiCancel'
    BY <1>3 DEF EventApply, TypeInv, TypeOK
  <2>3. aiCancel => aiCancel'
    BY <1>3 DEF EventApply, TypeInv, TypeOK
  <2> QED
    BY <2>1, <2>2, <2>3 DEF Preparing
<1>4. CASE AiThreadExit
  BY <1>4 DEF AiThreadExit, Preparing
<1>5. CASE OtherThread /\ ~EventApply /\ ~AiThreadExit
  <2>1. UNCHANGED <<pc, ret, stopRet, rec, mediaActive, srcVars, stopping, cur>>
    BY <1>5, OtherPlace
  <2>2. UNCHANGED <<aiRun, ownerStop, aiCancel, out, account>>
    BY <1>5 DEF OtherThread, CloudDone, RouteStep, QueueSelect, QueueStop, QueueRegion, QueueClear,
       QueueRtsp, ClientReturn, HostChange, EventStep, EventRead
  <2> QED
    BY <2>1, <2>2 DEF Preparing
<1>6. CASE MainStep
  <2>1. UNCHANGED <<pc, ret, stopRet, rec, mediaActive, active, out, cur, account>>
    BY <1>6 DEF MainStep, CloseServe, StopService, Shutdown, Destroy
  <2>2. stopping' \/ UNCHANGED <<stopping, aiVars, sidecar, aiCancel>>
    BY <1>6 DEF MainStep, CloseServe, StopService, Shutdown, Destroy, TypeInv, WorkerHolds
  <2> QED
    BY <2>1, <2>2 DEF Preparing
<1>7. CASE Terminated
  BY <1>7 DEF Terminated, Preparing
<1> QED
  BY NextCases, <1>1, <1>2, <1>3, <1>4, <1>5, <1>6, <1>7
-----------------------------------------------------------------------------
\* Every step keeps an outdated operation making way for a newer region.
LEMMA MakesWayStep ==
    ASSUME TypeInv, OneOperation, OutdatedMakesWay, Next
    PROVE  OutdatedMakesWay'
<1> USE DEF OutdatedMakesWay, MadeWay, CatalogWork
<1>1. CASE UNCHANGED itemVars /\ (~stopping' => ~stopping)
  BY <1>1 DEF itemVars
<1>2. CASE Take
  BY <1>2 DEF Take, Move
<1>3. CASE Promote
  BY <1>3 DEF Promote, RecoveryCurrent, Move
<1>4. CASE RefreshApply
  <2>1. cur # NoWork /\ cur.kind = "refresh" /\ slot = NoWork
    BY <1>4 DEF RefreshApply, CallEnd, TypeInv, WorkerHolds, OneOperation
  <2> QED
    BY <1>4, <2>1 DEF RefreshApply
<1>5. CASE ListApply \/ RegionCommit \/ SelectCommit
  <2>1. UNCHANGED <<slotVars, account, queued, stopping>>
    BY <1>5 DEF ListApply, RegionCommit, SelectCommit
  <2> QED
    BY <2>1
<1>6. CASE ClearApply
  <2>1. cur # NoWork /\ cur.kind = "clear" /\ slot = NoWork
    BY <1>6 DEF ClearApply, CallEnd, TypeInv, WorkerHolds, OneOperation
  <2>2. UNCHANGED <<slot, cur>>
    BY <1>6 DEF ClearApply
  <2> QED
    BY <2>1, <2>2
<1>7. CASE FinishStep \/ RtspReply
  <2>1. cur' = NoWork
    BY <1>7 DEF RtspReply, Retire, FinishStep, FinishStale, FinishCatalog, FinishRefresh,
       FinishCamera, FinishClear
  <2> QED
    BY <1>7, <2>1, CompletionSlot
<1>8. ASSUME NEW c \in Cameras, QueueSelect(c) PROVE OutdatedMakesWay'
  <2>1. slot'.kind = "select" /\ cur' = NoWork
    BY <1>8 DEF QueueSelect, Busy, Plain
  <2> QED
    BY <2>1
<1>9. ASSUME NEW r \in Regions, QueueRegion(r) PROVE OutdatedMakesWay'
  <2>1. account /\ UNCHANGED <<cur, account, stopping>> /\ r # NoRegion
    BY <1>9, Distinct DEF QueueRegion
  <2>2. CASE ~Busy /\ PostCatalog(CatalogRequest(r))
    BY <2>1, <2>2 DEF Busy, PostCatalog
  <2>3. CASE (CatalogWork(slot) \/ CatalogWork(cur)) /\ slot' = slot /\ queued' = r
    BY <2>1, <2>3 DEF OneOperation
  <2> QED
    BY <1>9, <2>2, <2>3 DEF QueueRegion
<1>10. ASSUME NEW j \in Job, QueueRtsp(j) PROVE OutdatedMakesWay'
  <2>1. slot'.kind = "rtsp" /\ cur' = NoWork
    BY <1>10 DEF QueueRtsp, Busy, Plain
  <2> QED
    BY <2>1
<1>11. CASE QueueStop
  <2>1. slot'.kind = "stop" /\ cur' = NoWork
    BY <1>11 DEF QueueStop, Busy, Plain
  <2> QED
    BY <2>1
<1>12. CASE QueueClear
  <2>1. slot'.kind = "clear" /\ cur' = NoWork
    BY <1>12 DEF QueueClear, Busy, Plain
  <2> QED
    BY <2>1
<1>13. CASE EventApply
  <2>1. slot' = slot \/ slot'.kind = "reconcile"
    BY <1>13 DEF EventApply, Plain
  <2> QED
    BY <1>13, <2>1 DEF EventApply
<1>14. CASE StopService
  BY <1>14 DEF StopService
<1>15. CASE OtherThread \/ MainStep \/ Terminated \/ ReconcileStep \/ RtspBegin \/ RtspRoute
            \/ CallReconcile \/ PrepStep \/ ClearReset \/ Exit \/ StartCall \/ NoBody \/ StopBody
            \/ ClearBegin
  <2>1. stopping' = stopping \/ StopService
    BY <1>15, OtherPlace, PlainPlace DEF MainStep, CloseServe, Shutdown, Destroy, Terminated,
       PrepStep, PrepRead, PrepGuard, PrepPatch, PrepFail, RtspStep, CallStep, TakeStep
  <2> QED
    BY <1>15, <2>1, ItemsKept, <1>1, <1>8, <1>9, <1>10, <1>11, <1>12, <1>13, <1>14
    DEF OtherThread, RouteStep, RtspJobs, EventStep, MainStep
<1> QED
  BY NextCases, <1>2, <1>3, <1>4, <1>5, <1>6, <1>7, <1>15
  DEF BodyStep, TakeStep, RtspStep, CallStep
-----------------------------------------------------------------------------
\* An account that stays refused, or is refused again, was refused before.
LEMMA RefusedBefore ==
    ASSUME auth' = AuthWithoutRetry, account' = account, AccountRefused'
    PROVE  AccountRefused
BY DEF AuthWithoutRetry, AccountRefused

\* With an empty mailbox and no active operation nothing is owed.
LEMMA NothingOwed ==
    ASSUME ~Busy
    PROVE  ~Owed /\ ~CatalogBusy
BY DEF Busy, Owed, Served, CatalogBusy, CatalogWork

\* A refused account has no wish to attach anything.
LEMMA RefusedWish ==
    ASSUME auth # "authenticated"
    PROVE  ~WantAI /\ ~WantSource
BY DEF WantAI, WantSource, SelectionValid

\* The steps of the worker's pass keep the source of a refused account out of
\* reach of a catalog operation, if the sidecar answers.
LEMMA RefusedPass ==
    ASSUME "source" \notin Faults, TypeInv, SourceInv, PassPlaces, RefusedDetached, ReconcileStep
    PROVE  RefusedDetached'
<1> SUFFICES ASSUME ~stopping', AccountRefused', CatalogBusy'
             PROVE  /\ InPass' => ~rec'.source
                    /\ ~InReconcile' => failed' \/ active' = NoSource
  BY DEF RefusedDetached
<1>1. /\ ~stopping /\ AccountRefused /\ CatalogBusy
      /\ UNCHANGED <<stopping, auth, account, slot, cur>>
  <2>1. UNCHANGED <<stopping, auth, account, slot, cur>>
    BY ItemsKept, PlainPlace DEF itemVars
  <2> QED
    BY <2>1 DEF AccountRefused, CatalogBusy, CatalogWork
<1>2. /\ InPass => ~rec.source
      /\ ~InReconcile => failed \/ active = NoSource
  BY <1>1 DEF RefusedDetached
<1> USE DEF InPass, InReconcile
<1>3. CASE RecRead
  <2>1. auth # "authenticated"
    BY <1>1 DEF AccountRefused
  <2>2. PICK keep \in BOOLEAN : RecRead!5!(keep)
    BY <1>3 DEF RecRead
  <2>3. rec'.source <=> WantSource
    BY <2>2 DEF WantSource
  <2>4. stopRet' = "switch" /\ pc' \in {"srcDetach", "recSet", "recDemand", "recAttach"}
    BY <1>3 DEF RecRead
  <2> QED
    BY <2>1, <2>3, <2>4, RefusedWish
<1>4. CASE SrcDetach
  BY <1>2, <1>4 DEF SrcDetach
<1>5. CASE SrcRelease
  <2>1. active' = NoSource /\ AfterRelease(TRUE) /\ pc = "srcRelease" /\ stopRet' = stopRet
    BY <1>5 DEF SrcRelease, Answers
  <2>2. pc' \in {"recSet", "recAttach"} => stopRet = "switch" /\ rec' = rec
    BY <2>1 DEF AfterRelease, TypeInv, TypeOK, PassPlaces
  <2>3. pc' \notin {"srcDetach", "srcRelease", "recDemand", "recStart", "recRecheck"}
    BY <2>1 DEF AfterRelease, PassPlaces
  <2> QED
    BY <1>2, <2>1, <2>2, <2>3
<1>6. CASE RecSet
  <2>1. UNCHANGED rec /\ pc = "recSet" /\ pc' = "recDemand"
    BY <1>6 DEF RecSet, Answers
  <2> QED
    BY <1>2, <2>1
<1>7. CASE RecDemand
  <2>1. rec'.source <=> rec.source
    BY <1>7 DEF RecDemand, TypeInv, TypeOK, Locals
  <2> QED
    BY <1>2, <1>7, <2>1 DEF RecDemand
<1>8. CASE RecAttach
  <2>1. active = NoSource
    BY <1>2, <1>8 DEF RecAttach, PassPlaces, SourceInv, SourceGuarded
  <2>2. CASE pc' = "recStart"
    BY <1>2, <1>8, <2>2 DEF RecAttach, ReturnWith, TypeInv, TypeOK
  <2>3. CASE pc' # "recStart"
    <3>1. pc' \in {"idle", "call", "rtspReply"} /\ active' = active
      BY <1>8, <2>3 DEF RecAttach, ReturnWith, TypeInv, TypeOK
    <3> QED
      BY <2>1, <3>1
  <2> QED
    BY <2>2, <2>3
<1>9. CASE RecStart
  <2>1. rec'.source <=> rec.source
    <3>1. \A r \in Locals : [r EXCEPT !.ok = FALSE].source = r.source
      BY DEF Locals
    <3>2. rec' \in {rec, [rec EXCEPT !.ok = FALSE]} /\ rec \in Locals
      BY <1>9 DEF RecStart, TypeInv, TypeOK
    <3> QED
      BY <3>1, <3>2
  <2> QED
    BY <1>2, <1>9, <2>1 DEF RecStart
<1>10. CASE RecRecheck
  <2>1. active = NoSource
    BY <1>2, <1>10 DEF RecRecheck, PassPlaces, SourceInv, SourceGuarded
  <2>2. pc' \in {"idle", "call", "rtspReply"} /\ active' = active
    BY <1>10 DEF RecRecheck, ReturnWith, TypeInv, TypeOK
  <2> QED
    BY <2>1, <2>2
<1> QED
  BY <1>3, <1>4, <1>5, <1>6, <1>7, <1>8, <1>9, <1>10 DEF ReconcileStep

\* Every step keeps the source of a refused account out of reach of a catalog
\* operation, if the sidecar answers.
LEMMA RefusedStep ==
    ASSUME "source" \notin Faults, TypeInv, OneOperation, SourceInv, PassPlaces, PassOwed,
           RefusedDetached, Next
    PROVE  RefusedDetached'
<1>1. CASE ReconcileStep
  BY <1>1, RefusedPass
<1>2. ASSUME ~stopping', AccountRefused', CatalogBusy', ~ReconcileStep
      PROVE  /\ InPass' => ~rec'.source
             /\ ~InReconcile' => failed' \/ active' = NoSource
  <2>1. ~stopping
    BY <1>2, NextCases, OtherPlace, BodyStops DEF PassPlaces, MainStep, CloseServe, StopService,
       Shutdown, Destroy, Terminated
  \* Where nothing is owed, the last pass has released the source.
  <2>2. ASSUME ~Owed, AccountRefused, ~Replacing
        PROVE  /\ InPass => ~rec.source
               /\ ~InReconcile => failed \/ active = NoSource
    <3>1. ~WantSource
      BY <2>2, RefusedWish DEF AccountRefused
    <3> QED
      BY <2>1, <2>2, <3>1 DEF PassOwed, RecCurrent, Clean
  <2>3. CASE UNCHANGED <<pc, stopRet, rec, failed, active>> /\ CatalogBusy /\ AccountRefused
    BY <2>1, <2>3 DEF RefusedDetached, InPass, InReconcile
  <2>4. CASE BodyStep
    <3> USE DEF CatalogBusy, CatalogWork, AccountRefused
    <3>1. ~InPass' /\ active' = active
      BY <2>4, BodyPlace DEF InPass, InReconcile
    <3>2. CASE pc' = "recRead"
      BY <3>1, <3>2 DEF InReconcile
    <3>3. CASE Take
      BY <1>2, <2>1, <3>1, <3>3 DEF RefusedDetached, Take, InReconcile
    <3>4. CASE Promote
      <4>1. ~Busy /\ pc = "idle" /\ AccountRefused
        BY <1>2, <3>4 DEF Promote, Busy, TypeInv, WorkerHolds
      <4>2. failed \/ active = NoSource
        BY <2>2, <4>1, NothingOwed DEF Replacing, InSourceStop, InReconcile
      <4> QED
        BY <3>1, <3>4, <4>2 DEF Promote
    <3>5. CASE Exit \/ StartCall \/ NoBody \/ StopBody \/ ClearBegin
      BY <1>2, <2>1, <3>1, <3>5 DEF RefusedDetached, Exit, StartCall, NoBody, StopBody, ClearBegin,
         InReconcile
    <3>6. CASE RtspStep
      <4>1. cur # NoWork /\ cur.kind = "rtsp" /\ slot = NoWork
        BY <3>6 DEF RtspStep, RtspBegin, RtspRoute, RtspReply, TypeInv, WorkerHolds, OneOperation
      <4>2. CASE RtspReply
        BY <1>2, <4>1, <4>2 DEF RtspReply, Retire, PostOther, Plain
      <4>3. CASE RtspBegin \/ RtspRoute
        BY <1>2, <4>1, <4>3 DEF RtspBegin, RtspRoute
      <4> QED
        BY <3>6, <4>2, <4>3 DEF RtspStep
    <3>7. CASE RefreshApply \/ ClearApply
      <4>1. cur # NoWork /\ cur.kind \in {"refresh", "clear"} /\ slot = NoWork
        BY <3>7 DEF RefreshApply, ClearApply, CallEnd, TypeInv, WorkerHolds, OneOperation
      <4>2. UNCHANGED <<slot, cur>>
        BY <3>7 DEF RefreshApply, ClearApply
      <4> QED
        BY <1>2, <4>1, <4>2
    <3>8. CASE CallReconcile
      BY <3>2, <3>8 DEF CallReconcile, EnterReconcile
    <3>9. CASE ListApply \/ RegionCommit \/ PrepStep \/ SelectCommit
      <4>1. UNCHANGED <<slot, cur, auth, account, failed, active>>
        BY <3>9 DEF ListApply, RegionCommit, SelectCommit, PrepStep, PrepRead, PrepGuard, PrepPatch,
                    PrepFail
      <4>2. ~InReconcile
        BY <3>9 DEF ListApply, RegionCommit, CallEnd, SelectCommit, PrepStep, PrepRead, PrepGuard,
                    PrepPatch, PrepFail, InReconcile
      <4> QED
        BY <1>2, <2>1, <3>1, <4>1, <4>2 DEF RefusedDetached
    <3>10. CASE FinishStale
      <4>1. LatestDue(auth)
        BY <1>2, <3>10 DEF FinishStale, Retire
      <4> QED
        BY <1>2, <3>10, <4>1 DEF LatestDue, FinishStale
    <3>11. CASE FinishStep /\ ~FinishStale
      BY <3>2, <3>11 DEF FinishStep, FinishCatalog, FinishRefresh, FinishCamera, FinishClear,
                         EnterReconcile
    <3>12. CASE ClearReset
      <4>1. cur # NoWork /\ cur.kind = "clear" /\ slot = NoWork /\ UNCHANGED <<slot, cur>>
        BY <3>12 DEF ClearReset, TypeInv, WorkerHolds, OneOperation
      <4> QED
        BY <1>2, <4>1
    <3> QED
      BY <2>4, <3>3, <3>4, <3>5, <3>6, <3>7, <3>8, <3>9, <3>10, <3>11, <3>12
      DEF BodyStep, TakeStep, CallStep
  <2>5. CASE RouteStep
    <3>1. UNCHANGED <<pc, stopRet, rec, failed, active>>
      BY <2>5 DEF RouteStep, QueueSelect, QueueStop, QueueRegion, QueueClear, QueueRtsp
    <3>2. ASSUME NEW r \in Regions, QueueRegion(r)
          PROVE  /\ InPass' => ~rec'.source
                 /\ ~InReconcile' => failed' \/ active' = NoSource
      <4>1. AccountRefused
        BY <1>2, <3>2, RefusedBefore DEF QueueRegion, Advance
      <4>2. CASE CatalogWork(slot) \/ CatalogWork(cur)
        BY <2>3, <3>1, <4>1, <4>2 DEF CatalogBusy
      <4>3. CASE ~Busy
        <5>1. ~Owed /\ ~Replacing
          BY <4>3, NothingOwed DEF Replacing, InSourceStop, InReconcile, TypeInv, WorkerHolds, Busy
        <5> QED
          BY <2>2, <3>1, <4>1, <5>1 DEF InPass, InReconcile
      <4> QED
        BY <3>2, <4>2, <4>3 DEF QueueRegion
    <3>3. ASSUME NEW c \in Cameras, QueueSelect(c) PROVE ~CatalogBusy'
      BY <3>3 DEF QueueSelect, Busy, Plain, CatalogBusy, CatalogWork
    <3>4. ASSUME NEW j \in Job, QueueRtsp(j) PROVE ~CatalogBusy'
      BY <3>4 DEF QueueRtsp, Busy, Plain, CatalogBusy, CatalogWork
    <3>5. QueueStop => ~CatalogBusy'
      BY DEF QueueStop, Busy, Plain, CatalogBusy, CatalogWork
    <3>6. QueueClear => ~CatalogBusy'
      BY DEF QueueClear, Busy, Plain, CatalogBusy, CatalogWork
    <3> QED
      BY <1>2, <2>5, <3>2, <3>3, <3>4, <3>5, <3>6 DEF RouteStep, RtspJobs
  <2>6. CASE EventApply
    <3>1. UNCHANGED <<pc, stopRet, rec, failed, active, cur, auth, account>>
      BY <2>6 DEF EventApply
    <3>2. slot' = slot \/ slot'.kind = "reconcile"
      BY <2>6 DEF EventApply, Plain
    <3> QED
      BY <1>2, <2>3, <3>1, <3>2 DEF CatalogBusy, CatalogWork, AccountRefused
  <2>7. CASE OtherThread /\ ~RouteStep /\ ~EventApply
    <3>1. UNCHANGED <<pc, stopRet, rec, failed, active, slot, cur, auth, account>>
      BY <2>7 DEF OtherThread, CloudDone, ClientReturn, HostChange, EventStep, EventRead, AiThreadExit
    <3> QED
      BY <1>2, <2>3, <3>1 DEF CatalogBusy, CatalogWork, AccountRefused
  <2>8. CASE MainStep \/ Terminated
    <3>1. UNCHANGED <<pc, stopRet, rec, failed, active, slot, cur, auth, account>>
      BY <1>2, <2>8 DEF MainStep, CloseServe, StopService, Shutdown, Destroy, Terminated
    <3> QED
      BY <1>2, <2>3, <3>1 DEF CatalogBusy, CatalogWork, AccountRefused
  <2> QED
    BY <1>2, NextCases, <2>4, <2>5, <2>6, <2>7, <2>8
<1> QED
  BY <1>1, <1>2 DEF RefusedDetached
-----------------------------------------------------------------------------
\* Until the stop, a pass that ends without an error leaves source and AI as the
\* intent it has read asks for.
LEMMA PassEnds ==
    ASSUME TypeInv, SourceInv, PassPlaces, RecCurrent, ~stopping, rec.ok,
           pc' \notin {"recStart"}, RecAttach \/ RecRecheck
    PROVE  Clean'
<1> USE DEF TypeInv, PassPlaces, SourceInv, SourceGuarded, InPass, InReconcile
<1>1. pc \in {"recAttach", "recRecheck"} /\ active = rec.target /\ sidecar = active
  BY DEF RecAttach, RecRecheck
<1>2. UNCHANGED wantVars /\ UNCHANGED srcVars
  BY DEF RecAttach, RecRecheck, wantVars
<1>3. rec.ai => InputCurrent("reconcile")
  BY DEF RecCurrent, WantAI, InputCurrent
<1>4. CASE rec.ai
  <2>1. mediaActive /\ UNCHANGED aiVars
    <3>1. CASE RecAttach
      BY <1>3, <1>4, <3>1 DEF RecAttach
    <3>2. CASE RecRecheck
      BY <1>3, <1>4, <3>2 DEF RecRecheck
    <3> QED
      BY <3>1, <3>2
  <2>2. aiRun /\ ~ownerStop
    BY <1>4, <2>1 DEF RecCurrent
  <2>3. Clean
    BY <1>1, <1>4, <2>1, <2>2 DEF RecCurrent, Clean
  <2> QED
    BY <1>2, <2>1, <2>3, CleanKept
<1>5. CASE ~rec.ai
  <2>1. ~mediaActive'
    <3>1. CASE RecAttach
      BY <1>5, <3>1 DEF RecAttach, ReturnWith, StopAI
    <3>2. CASE RecRecheck
      BY <1>5, <3>2 DEF RecRecheck
    <3> QED
      BY <3>1, <3>2
  <2>2. ~WantAI /\ (active # NoSource <=> WantSource) /\ (WantSource => active.camera = selected)
        /\ (demand => WantSource)
    BY <1>1, <1>5 DEF RecCurrent
  <2>3. ~WantAI' /\ (WantSource' <=> WantSource) /\ selected' = selected
    BY <1>2, <2>2, WantsKept
  <2> QED
    BY <1>1, <1>2, <2>1, <2>2, <2>3 DEF Clean
<1> QED
  BY <1>4, <1>5

\* The steps of the worker's pass keep what is owed, if the sidecar answers.
LEMMA OwedPass ==
    ASSUME "source" \notin Faults, TypeInv, SourceInv, PassPlaces, PassOwed, ReconcileStep
    PROVE  PassOwed'
<1> SUFFICES ASSUME ~stopping'
             PROVE  /\ InPass' => Owed' \/ RecCurrent'
                    /\ ~InReconcile' /\ ~Replacing' => failed' \/ Owed' \/ Clean'
  BY DEF PassOwed
<1>1. ~stopping /\ UNCHANGED wantVars /\ UNCHANGED owedVars /\ reconcileReq' = reconcileReq
  <2>1. UNCHANGED <<selVars, catVars, rtspOn, reconcileReq>>
    BY DEF ReconcileStep, RecRead, SrcDetach, SrcRelease, RecSet, RecDemand, RecAttach, RecStart,
           RecRecheck
  <2> QED
    BY <2>1, ItemsKept, PlainPlace DEF itemVars, wantVars, owedVars
<1>2. /\ InPass => Owed \/ RecCurrent
      /\ ~InReconcile /\ ~Replacing => failed \/ Owed \/ Clean
  BY <1>1 DEF PassOwed
<1> USE DEF InPass, InReconcile
<1>3. CASE RecRead
  <2>1. PICK keep \in BOOLEAN : RecRead!5!(keep)
    BY <1>3 DEF RecRead
  <2> DEFINE target == IF WantSource THEN [camera |-> selected, audio |-> TargetAudio(keep)]
                                     ELSE NoSource
  <2>2. rec' = [ai |-> WantAI, source |-> WantSource, target |-> target, ok |-> TRUE]
    BY <2>1
  <2>3. /\ (rec'.ai <=> WantAI) /\ (rec'.source <=> WantSource)
        /\ WantSource => rec'.target.camera = selected
    BY <2>2 DEF WantAI, WantSource
  <2>4. aiCancel' = FALSE /\ "reconcile" \in inFresh'
    BY <1>3 DEF RecRead
  <2>5. RecCurrent'
    BY <1>1, <2>3, <2>4, WantsKept DEF RecCurrent
  <2>6. InReconcile'
    BY <1>3 DEF RecRead
  <2> QED
    BY <2>5, <2>6
<1>4. CASE SrcDetach
  <2>1. /\ UNCHANGED <<rec, aiCancel, inFresh, stopRet, cur, active>>
        /\ pc = "srcDetach" /\ pc' = "srcRelease"
    BY <1>4 DEF SrcDetach
  <2>2. (Owed => Owed') /\ (RecCurrent => RecCurrent')
    BY <1>1, <2>1, OwedKept, CurrentKept
  <2>3. stopRet \in {"switch", "replace", "clear"}
    BY <1>1, <2>1 DEF PassPlaces, TypeInv, TypeOK, WorkerHolds, InSourceStop
  <2>4. CASE stopRet = "clear"
    <3>1. cur # NoWork /\ cur.kind = "clear"
      BY <2>1, <2>4 DEF TypeInv, WorkerHolds, InSourceStop
    <3> QED
      BY <2>1, <2>4, <3>1 DEF Owed, Served, CatalogWork
  <2> QED
    BY <1>2, <2>1, <2>2, <2>3, <2>4 DEF Replacing, InSourceStop
<1>5. CASE SrcRelease
  <2>1. /\ active' = NoSource /\ AfterRelease(TRUE) /\ pc = "srcRelease"
        /\ UNCHANGED <<stopRet, cur, aiCancel>>
    BY <1>5 DEF SrcRelease, Answers
  <2>2. stopRet \in {"switch", "replace", "clear"}
    BY <1>1, <2>1 DEF PassPlaces, TypeInv, TypeOK, WorkerHolds, InSourceStop
  <2>3. CASE stopRet = "switch"
    <3>1. pc' \in {"recSet", "recAttach"} /\ UNCHANGED <<rec, inFresh>>
      BY <2>1, <2>3 DEF AfterRelease
    <3>2. RecCurrent => RecCurrent'
      BY <1>1, <2>1, <3>1, CurrentKept
    <3>3. CASE account
      BY <1>1, <1>2, <2>1, <2>3, <3>1, <3>2, <3>3, OwedKept
    <3>4. CASE ~account
      <4>1. ~rec.source /\ ~rec.ai
        BY <2>1, <2>3, <3>4 DEF PassPlaces, SourceInv, SourceGuarded
      <4>2. ~WantAI /\ ~WantSource
        BY <3>4 DEF WantAI, WantSource, SelectionValid
      <4>3. RecCurrent
        BY <4>1, <4>2 DEF RecCurrent
      <4> QED
        BY <3>1, <3>2, <4>3
    <3> QED
      BY <3>3, <3>4
  <2>4. CASE stopRet = "replace"
    <3>1. pc' = "rtspRoute" /\ out' = out
      BY <2>1, <2>4 DEF AfterRelease
    <3>2. out.replaced
      BY <2>1, <2>4 DEF PassPlaces, InSourceStop
    <3> QED
      BY <3>1, <3>2 DEF Replacing
  <2>5. CASE stopRet = "clear"
    <3>1. cur # NoWork /\ cur.kind = "clear"
      BY <2>1, <2>5 DEF TypeInv, WorkerHolds, InSourceStop
    <3>2. pc' = "clearReset"
      BY <2>1, <2>5 DEF AfterRelease
    <3> QED
      BY <2>1, <3>1, <3>2 DEF Owed, Served, CatalogWork
  <2> QED
    BY <2>2, <2>3, <2>4, <2>5
<1>6. CASE RecSet
  <2>1. /\ UNCHANGED <<rec, aiCancel, inFresh>> /\ active' = rec.target /\ pc = "recSet"
        /\ pc' = "recDemand" /\ rec.target # NoSource
    BY <1>6 DEF RecSet, Answers, SourceInv, SourceGuarded
  <2>2. (Owed => Owed') /\ (RecCurrent => RecCurrent')
    BY <1>1, <2>1, OwedKept, CurrentKept
  <2> QED
    BY <1>2, <2>1, <2>2
<1>7. CASE RecDemand
  <2>1. (rec'.ai <=> rec.ai) /\ (rec'.source <=> rec.source) /\ rec'.target = rec.target
    BY <1>7 DEF RecDemand, TypeInv, TypeOK, Locals
  <2>2. /\ UNCHANGED <<aiCancel, inFresh, active>> /\ pc = "recDemand" /\ pc' = "recAttach"
    BY <1>7 DEF RecDemand
  <2>3. (Owed => Owed') /\ (RecCurrent => RecCurrent')
    BY <1>1, <2>1, <2>2, OwedKept, CurrentKept
  <2> QED
    BY <1>2, <2>2, <2>3
<1>8. CASE RecStart
  <2>1. (rec'.ai <=> rec.ai) /\ (rec'.source <=> rec.source) /\ rec'.target = rec.target
    <3>1. \A r \in Locals : LET q == [r EXCEPT !.ok = FALSE]
                            IN  q.ai = r.ai /\ q.source = r.source /\ q.target = r.target
      BY DEF Locals
    <3>2. rec' \in {rec, [rec EXCEPT !.ok = FALSE]} /\ rec \in Locals
      BY <1>8 DEF RecStart, TypeInv, TypeOK
    <3> QED
      BY <3>1, <3>2
  <2>2. /\ UNCHANGED <<aiCancel, inFresh, active>> /\ pc = "recStart" /\ pc' = "recRecheck"
    BY <1>8 DEF RecStart
  <2>3. (Owed => Owed') /\ (RecCurrent => RecCurrent')
    BY <1>1, <2>1, <2>2, OwedKept, CurrentKept
  <2> QED
    BY <1>2, <2>2, <2>3
<1>9. CASE RecAttach /\ pc' = "recStart"
  <2>1. UNCHANGED <<rec, aiCancel, inFresh, active>> /\ pc = "recAttach"
    BY <1>9 DEF RecAttach, ReturnWith, TypeInv, TypeOK
  <2>2. (Owed => Owed') /\ (RecCurrent => RecCurrent')
    BY <1>1, <2>1, OwedKept, CurrentKept
  <2> QED
    BY <1>2, <1>9, <2>1, <2>2
<1>10. CASE (RecAttach /\ pc' # "recStart") \/ RecRecheck
  <2>1. /\ pc' \in {"idle", "call", "rtspReply"} /\ failed' = ~rec.ok /\ active' = active
        /\ pc \in {"recAttach", "recRecheck"}
    BY <1>10 DEF RecAttach, RecRecheck, ReturnWith, TypeInv, TypeOK
  <2>2. Owed => Owed'
    BY <1>1, <2>1, OwedKept
  <2>3. RecCurrent /\ rec.ok => Clean'
    BY <1>1, <1>10, <2>1, PassEnds
  <2> QED
    BY <1>2, <2>1, <2>2, <2>3
<1> QED
  BY <1>3, <1>4, <1>5, <1>6, <1>7, <1>8, <1>9, <1>10 DEF ReconcileStep

\* An item that is no RTSP request and no catalog operation ends in a pass.
LEMMA PlainOwed ==
    ASSUME cur # NoWork, cur.kind \notin {"rtsp", "list", "region"}, cur' = cur
    PROVE  Owed'
BY DEF Owed, Served, CatalogWork

\* A step between two passes keeps what is owed if it leaves everything it
\* depends on alone, or leaves nothing wanted before and after it.
LEMMA OwedQuiet ==
    ASSUME ~InReconcile, ~Replacing, ~stopping, PassOwed,
           Owed => Owed', failed => failed', UNCHANGED <<aiVars, srcVars>>,
           \/ UNCHANGED wantVars
           \/ auth # "authenticated" /\ auth' = auth
    PROVE  failed' \/ Owed' \/ Clean'
<1>1. failed \/ Owed \/ Clean
  BY DEF PassOwed
<1>2. Clean => Clean'
  <2>1. CASE UNCHANGED wantVars
    BY <2>1, CleanKept
  <2>2. CASE auth # "authenticated" /\ auth' = auth
    <3>1. ~WantAI /\ ~WantSource /\ ~WantAI' /\ ~WantSource'
      BY <2>2 DEF WantAI, WantSource, SelectionValid
    <3> QED
      BY <3>1 DEF Clean
  <2> QED
    BY <2>1, <2>2
<1> QED
  BY <1>1, <1>2

\* The worker's other steps keep what is owed.
LEMMA OwedBody ==
    ASSUME TypeInv, OneOperation, PassPlaces, OutdatedMakesWay, PassOwed, BodyStep
    PROVE  PassOwed'
<1> SUFFICES ASSUME ~stopping', ~InReconcile', ~Replacing'
             PROVE  failed' \/ Owed' \/ Clean'
  BY BodyPlace DEF PassOwed, InPass, InReconcile
<1>1. ~stopping /\ UNCHANGED <<aiVars, active, demand, aiCancel>>
  BY BodyPlace, BodyStops DEF PassPlaces
<1>2. CASE Take
  <2>1. ~InReconcile /\ ~Replacing
    BY <1>2 DEF Take, InReconcile, Replacing, InSourceStop
  <2>2. Owed => Owed'
    BY <1>2 DEF Take, Move, TypeInv, WorkerHolds, Owed, Served, CatalogWork, LatestDue
  <2>3. UNCHANGED wantVars /\ UNCHANGED <<failed, aiVars, srcVars>>
    BY <1>2 DEF Take, wantVars
  <2> QED
    BY <1>1, <2>1, <2>2, <2>3, OwedQuiet
<1>3. CASE Promote
  BY <1>3 DEF Promote, RecoveryCurrent, Move, Owed, Served, CatalogWork
<1>4. CASE Exit \/ StartCall \/ NoBody \/ StopBody \/ ClearBegin \/ RtspBegin
  <2>1. ~InReconcile /\ ~Replacing
    BY <1>4 DEF Exit, StartCall, NoBody, StopBody, ClearBegin, RtspBegin, InReconcile, Replacing,
                InSourceStop
  <2>2. UNCHANGED wantVars /\ UNCHANGED owedVars /\ UNCHANGED <<reconcileReq, failed, aiVars, srcVars>>
    BY <1>4 DEF Exit, StartCall, NoBody, StopBody, ClearBegin, RtspBegin, wantVars, owedVars
  <2> QED
    BY <1>1, <2>1, <2>2, OwedKept, OwedQuiet
<1>5. CASE RtspRoute
  <2>1. pc = "rtspRoute" /\ pc' \in {"recRead", "rtspReply"}
    BY <1>5 DEF RtspRoute, EnterReconcile
  <2>2. pc' = "rtspReply"
    BY <2>1 DEF InReconcile
  <2>3. failed' = (failed \/ out.replaced) /\ rtspOn' = rtspOn
    BY <1>5, <2>2 DEF RtspRoute, EnterReconcile
  <2>4. /\ UNCHANGED owedVars
        /\ UNCHANGED <<reconcileReq, aiVars, srcVars, selVars, catVars, input>>
    BY <1>5 DEF RtspRoute, owedVars
  <2>5. UNCHANGED wantVars
    BY <2>3, <2>4 DEF wantVars, owedVars
  <2>6. CASE ~out.replaced
    <3>1. ~InReconcile /\ ~Replacing
      BY <2>1, <2>6 DEF InReconcile, Replacing, InSourceStop
    <3>2. failed => failed'
      BY <2>3
    <3> QED
      BY <1>1, <2>4, <2>5, <3>1, <3>2, OwedKept, OwedQuiet
  <2> QED
    BY <2>3, <2>6
<1>6. CASE RtspReply
  <2>1. cur # NoWork /\ cur.kind = "rtsp" /\ slot = NoWork /\ pc = "rtspReply"
    BY <1>6 DEF RtspReply, TypeInv, WorkerHolds, OneOperation
  <2>2. ~InReconcile /\ ~Replacing
    BY <2>1 DEF InReconcile, Replacing, InSourceStop
  <2>3. UNCHANGED wantVars /\ UNCHANGED <<failed, aiVars, srcVars>>
    BY <1>6 DEF RtspReply, wantVars
  <2>4. Owed => Owed'
    <3>1. slot' = IF RecoverDue THEN Plain("reconcile") ELSE NoWork
      BY <1>6 DEF RtspReply, PostOther
    <3>2. Owed => RecoverDue
      BY <1>1, <2>1 DEF Owed, Served, RecoverDue
    <3>3. Plain("reconcile") # NoWork /\ Plain("reconcile").kind = "reconcile"
      BY PlainType, Distinct DEF Plain
    <3> QED
      BY <3>1, <3>2, <3>3 DEF Owed, Served, CatalogWork
  <2> QED
    BY <1>1, <2>2, <2>3, <2>4, OwedQuiet
<1>7. CASE RefreshApply \/ ClearApply
  BY <1>7, PlainOwed DEF RefreshApply, ClearApply, CallEnd, TypeInv, WorkerHolds
<1>8. CASE ListApply \/ RegionCommit
  <2>1. /\ CatalogWork(cur) /\ pc = "call"
        /\ UNCHANGED <<cur, recFresh, failed>>
    BY <1>8 DEF ListApply, RegionCommit, CallEnd, TypeInv, WorkerHolds, CatalogWork
  <2>2. CASE "cur" \in recFresh
    BY <2>1, <2>2 DEF Owed, Served, CatalogWork
  <2>3. CASE "cur" \notin recFresh
    <3>1. UNCHANGED <<region, catalogRegion, catalog, selVars, input>>
      BY <1>8, <2>3 DEF ListApply, RegionCommit, RecoveryCurrent
    <3>2. UNCHANGED owedVars /\ UNCHANGED <<reconcileReq, aiVars, srcVars, rtspOn>>
      BY <1>8 DEF ListApply, RegionCommit, owedVars
    <3>3. UNCHANGED wantVars
      BY <3>1, <3>2 DEF wantVars, owedVars
    <3>4. ~InReconcile /\ ~Replacing
      BY <2>1 DEF InReconcile, Replacing, InSourceStop
    <3> QED
      BY <1>1, <2>1, <3>2, <3>3, <3>4, OwedKept, OwedQuiet
  <2> QED
    BY <2>2, <2>3
<1>9. CASE CallReconcile \/ (FinishStep /\ ~FinishStale)
  BY <1>9 DEF CallReconcile, FinishStep, FinishCatalog, FinishRefresh, FinishCamera, FinishClear,
              EnterReconcile, InReconcile
<1>10. CASE PrepStep
  <2>1. /\ cur # NoWork /\ cur.kind \in {"select", "region"} /\ cur' = cur
        /\ ~InReconcile /\ ~Replacing
    BY <1>10 DEF PrepStep, PrepRead, PrepGuard, PrepPatch, PrepFail, TypeInv, WorkerHolds, PassPlaces,
                 Preparing, InReconcile, Replacing, InSourceStop
  <2>2. /\ UNCHANGED owedVars
        /\ UNCHANGED <<reconcileReq, failed, aiVars, srcVars>>
    BY <1>10 DEF PrepStep, PrepRead, PrepGuard, PrepPatch, PrepFail, owedVars
  <2>3. CASE auth # "authenticated" /\ cur.kind = "region"
    BY <1>1, <2>1, <2>2, <2>3, OwedKept, OwedQuiet DEF owedVars
  <2>4. CASE auth = "authenticated" /\ cur.kind = "region"
    <3>1. "cur" \in recFresh \/ LatestDue(auth)
      BY <1>1, <2>1, <2>4 DEF OutdatedMakesWay, MadeWay, CatalogWork, LatestDue
    <3> QED
      BY <2>1, <2>2, <2>4, <3>1 DEF owedVars, Owed, Served, CatalogWork, LatestDue
  <2>5. CASE cur.kind = "select"
    BY <2>1, <2>5, PlainOwed
  <2> QED
    BY <2>1, <2>3, <2>4, <2>5
<1>11. CASE SelectCommit
  BY <1>11, PlainOwed DEF SelectCommit, TypeInv, WorkerHolds
<1>12. CASE ClearReset
  BY <1>12, PlainOwed DEF ClearReset, TypeInv, WorkerHolds
<1>13. CASE FinishStale
  <2>1. /\ cur # NoWork /\ slot = NoWork /\ pc = "finish" /\ "cur" \notin recFresh
        /\ CatalogWork(cur) /\ queued # NoRegion
    BY <1>1, <1>13 DEF FinishStale, Stale, TypeInv, WorkerHolds, OneOperation, OutdatedMakesWay,
                       MadeWay, CatalogWork
  <2>2. CASE LatestDue(auth)
    <3>1. slot' = CatalogRequest(queued) /\ recFresh' = {"slot"}
      BY <1>13, <2>2 DEF FinishStale, PostCatalog
    <3>2. queued \in Regions
      BY <2>1 DEF TypeInv, TypeOK
    <3>3. slot' # NoWork /\ slot'.kind # "rtsp"
      BY <3>1, <3>2, RequestType, Distinct DEF CatalogRequest, Plain
    <3> QED
      BY <3>1, <3>3 DEF Owed, Served
  <2>3. CASE ~LatestDue(auth)
    <3>1. ~Owed
      BY <2>1, <2>3 DEF Owed, Served, CatalogWork
    <3>2. UNCHANGED wantVars /\ UNCHANGED <<failed, aiVars, srcVars>>
      BY <1>13 DEF FinishStale, wantVars
    <3>3. ~InReconcile /\ ~Replacing
      BY <2>1 DEF InReconcile, Replacing, InSourceStop
    <3> QED
      BY <1>1, <3>1, <3>2, <3>3, OwedQuiet
  <2> QED
    BY <2>2, <2>3
<1> QED
  BY <1>2, <1>3, <1>4, <1>5, <1>6, <1>7, <1>8, <1>9, <1>10, <1>11, <1>12, <1>13
  DEF BodyStep, TakeStep, RtspStep, CallStep

\* A request that is accepted by an idle service and is no RTSP request ends in
\* a pass.
LEMMA AcceptedOwed ==
    ASSUME slot' # NoWork, slot'.kind # "rtsp", CatalogWork(slot)' => "slot" \in recFresh'
    PROVE  Owed'
BY DEF Owed, Served

\* The routes keep what is owed.
LEMMA OwedRoute ==
    ASSUME TypeInv, OneOperation, SourceInv, PassPlaces, RefusedDetached, PassOwed, RouteStep
    PROVE  PassOwed'
<1>1. UNCHANGED <<pc, stopRet, rec, failed, out, cur, stopping, region, catalogRegion, catalog,
                  account, selVars, input, reconcileReq, aiCancel, aiVars, srcVars, rtspOn>>
  BY DEF RouteStep, QueueSelect, QueueStop, QueueRegion, QueueClear, QueueRtsp
<1>2. "reconcile" \in inFresh => "reconcile" \in inFresh'
  BY DEF RouteStep, QueueSelect, QueueStop, QueueRegion, QueueClear, QueueRtsp, PostCatalog
<1>3. CASE Owed'
  BY <1>3 DEF PassOwed
<1>4. ASSUME NEW c \in Cameras, QueueSelect(c) PROVE Owed'
  <2>1. slot'.kind = "select" /\ slot' \in Work
    BY <1>4, WorkParts DEF QueueSelect, Plain, Work, Item, Kinds, TypeInv, TypeOK
  <2> QED
    BY <2>1, Distinct, AcceptedOwed DEF CatalogWork
<1>5. CASE QueueStop
  <2>1. slot'.kind = "stop" /\ slot' \in Work
    BY <1>5 DEF QueueStop, Plain, Work, Item, Kinds, TypeInv, TypeOK
  <2> QED
    BY <1>3, <2>1, Distinct, AcceptedOwed DEF CatalogWork
<1>6. CASE QueueClear
  <2>1. slot'.kind = "clear" /\ slot' \in Work
    BY <1>6 DEF QueueClear, Plain, Work, Item, Kinds, TypeInv, TypeOK
  <2> QED
    BY <1>3, <2>1, Distinct, AcceptedOwed DEF CatalogWork
<1>7. ASSUME NEW j \in Job, QueueRtsp(j) PROVE PassOwed'
  <2>1. ~Owed
    BY <1>7, NothingOwed DEF QueueRtsp
  <2>2. UNCHANGED wantVars /\ UNCHANGED inFresh
    BY <1>7 DEF QueueRtsp, wantVars
  <2>3. (RecCurrent => RecCurrent') /\ (Clean => Clean')
    BY <1>1, <2>2, CurrentKept, CleanKept
  <2> QED
    BY <1>1, <2>1, <2>3 DEF PassOwed, InPass, InReconcile, Replacing, InSourceStop
<1>8. ASSUME NEW r \in Regions, QueueRegion(r) PROVE PassOwed'
  <2>1. CASE ~Busy /\ PostCatalog(CatalogRequest(r))
    <3>1. slot' = CatalogRequest(r) /\ recFresh' = {"slot"}
      BY <2>1 DEF PostCatalog
    <3>2. slot' # NoWork /\ slot'.kind # "rtsp"
      BY <3>1, RequestType, Distinct DEF CatalogRequest, Plain, TypeInv, TypeOK
    <3> QED
      BY <1>3, <3>1, <3>2, AcceptedOwed
  <2>2. CASE CatalogBusy /\ queued' = r /\ slot' = slot /\ auth' = AuthWithoutRetry
    <3>1. CASE auth' = "authenticated" /\ ~stopping
      <4>1. LatestDue(auth)'
        BY <1>1, <1>8, <2>2, <3>1, Distinct DEF LatestDue, QueueRegion
      <4> QED
        BY <1>1, <1>3, <2>2, <4>1 DEF Owed, Served, CatalogBusy, CatalogWork
    <3>2. CASE auth' # "authenticated" /\ ~stopping
      <4>1. AccountRefused /\ auth' = auth
        BY <1>8, <2>2, <3>2 DEF QueueRegion, AuthWithoutRetry, AccountRefused
      <4>2. /\ InPass => ~rec.source
            /\ ~InReconcile => failed \/ active = NoSource
        BY <2>2, <3>2, <4>1 DEF RefusedDetached
      <4>3. ~WantAI' /\ ~WantSource'
        BY <3>2 DEF WantAI, WantSource, SelectionValid
      <4>4. InPass' => RecCurrent'
        BY <1>1, <4>2, <4>3 DEF RecCurrent, InPass, InReconcile, SourceInv, SourceGuarded
      <4>5. ~InReconcile' => failed' \/ Clean'
        BY <1>1, <3>2, <4>2, <4>3 DEF Clean, InReconcile, SourceInv, SourceGuarded, PassPlaces
      <4> QED
        BY <4>4, <4>5 DEF PassOwed
    <3> QED
      BY <1>1, <3>1, <3>2 DEF PassOwed
  <2> QED
    BY <1>8, <2>1, <2>2 DEF QueueRegion, Advance, CatalogBusy
<1> QED
  BY <1>3, <1>4, <1>5, <1>6, <1>7, <1>8 DEF RouteStep, RtspJobs

\* An input event keeps what is owed: it asks for a pass, now or from whoever is
\* busy, where an attachment could be outdated by it.
LEMMA OwedEvent ==
    ASSUME TypeInv, SourceInv, OutdatedMakesWay, PassOwed, EventApply
    PROVE  PassOwed'
<1> SUFFICES ASSUME ~stopping, ~Owed'
             PROVE  /\ InPass' => RecCurrent'
                    /\ ~InReconcile' /\ ~Replacing' => failed' \/ Clean'
  BY DEF PassOwed, EventApply
<1>1. /\ UNCHANGED <<pc, stopRet, rec, failed, out, cur, recFresh, queued, stopping, mediaActive,
                     aiRun, srcVars, authVars, selVars, region, catalogRegion, catalog, rtspOn>>
      /\ (input' <=> seen = "bitstream")
  BY DEF EventApply
<1>2. /\ InPass => Owed \/ RecCurrent
      /\ ~InReconcile /\ ~Replacing => failed \/ Owed \/ Clean
  BY DEF PassOwed
<1>3. CASE input = (seen = "bitstream")
  <2>1. UNCHANGED <<input, inFresh, aiCancel, ownerStop, reconcileReq, slot>>
    BY <1>3 DEF EventApply, TypeInv, TypeOK
  <2>2. UNCHANGED wantVars /\ UNCHANGED owedVars /\ UNCHANGED aiVars
    BY <1>1, <2>1 DEF wantVars, owedVars
  <2>3. (Owed => Owed') /\ (RecCurrent => RecCurrent') /\ (Clean => Clean')
    BY <1>1, <2>1, <2>2, OwedKept, CurrentKept, CleanKept
  <2> QED
    BY <1>1, <1>2, <2>3 DEF InPass, InReconcile, Replacing, InSourceStop
<1>4. CASE input # (seen = "bitstream")
  <2>1. CASE ~Busy /\ (account \/ active # NoSource)
    <3>1. slot' = Plain("reconcile")
      BY <1>4, <2>1 DEF EventApply
    <3>2. slot' # NoWork /\ slot'.kind = "reconcile"
      BY <3>1, PlainType, Distinct DEF Plain
    <3> QED
      BY <3>2, AcceptedOwed DEF CatalogWork
  <2>2. CASE Busy \/ ~(account \/ active # NoSource)
    <3>1. slot' = slot /\ reconcileReq'
      BY <1>4, <2>2 DEF EventApply
    <3>2. Owed => Owed'
      BY <1>1, <3>1, OwedKept DEF owedVars
    \* Neither now nor later: nothing can be wanted, so the input does not matter.
    <3>3. ~SelectionValid
      <4>1. CASE ~(account \/ active # NoSource)
        BY <4>1 DEF SelectionValid
      <4>2. CASE Busy /\ (account \/ active # NoSource)
        <5>1. ASSUME NEW w, NEW h, w # NoWork, ~Served(w, h)', MadeWay(w, h), w' = w, h' = h
              PROVE  auth # "authenticated"
          <6>1. w.kind # "rtsp" /\ CatalogWork(w) /\ h \notin recFresh /\ ~LatestDue(auth)
            BY <1>1, <3>1, <4>2, <5>1 DEF Served, CatalogWork, LatestDue
          <6>2. queued # NoRegion /\ account
            BY <5>1, <6>1 DEF MadeWay
          <6> QED
            BY <6>1, <6>2 DEF LatestDue
        <5> QED
          BY <1>1, <3>1, <4>2, <5>1 DEF Busy, Owed, OutdatedMakesWay, SelectionValid
      <4> QED
        BY <2>2, <4>1, <4>2
    <3>4. ~WantAI /\ ~WantSource /\ ~WantAI' /\ ~WantSource'
      <4>1. ~SelectionValid'
        BY <1>1, <3>3 DEF SelectionValid
      <4> QED
        BY <3>3, <4>1 DEF WantAI, WantSource
    <3>5. (RecCurrent => RecCurrent') /\ (Clean => Clean')
      BY <1>1, <3>4 DEF RecCurrent, Clean
    <3> QED
      BY <1>1, <1>2, <3>2, <3>5 DEF InPass, InReconcile, Replacing, InSourceStop
  <2> QED
    BY <2>1, <2>2
<1> QED
  BY <1>3, <1>4

\* Every step keeps what is owed, if the sidecar answers.
LEMMA OwedStep ==
    ASSUME "source" \notin Faults, TypeInv, OneOperation, SourceInv, PassPlaces, OutdatedMakesWay,
           RefusedDetached, PassOwed, Next
    PROVE  PassOwed'
<1>1. CASE ReconcileStep
  BY <1>1, OwedPass
<1>2. CASE BodyStep
  BY <1>2, OwedBody
<1>3. CASE RouteStep
  BY <1>3, OwedRoute
<1>4. CASE EventApply
  BY <1>4, OwedEvent
<1>5. CASE AiThreadExit
  <2>1. /\ UNCHANGED wantVars /\ UNCHANGED owedVars
        /\ UNCHANGED <<pc, stopRet, rec, failed, out, reconcileReq, inFresh, aiCancel, srcVars,
                       mediaActive, ownerStop>>
    BY <1>5 DEF AiThreadExit, wantVars, owedVars
  <2>2. ~Clean
    BY <1>5 DEF AiThreadExit, Clean, SourceInv, SourceGuarded
  <2>3. (Owed => Owed') /\ (RecCurrent => RecCurrent')
    BY <2>1, OwedKept, CurrentKept
  <2> QED
    BY <2>1, <2>2, <2>3 DEF PassOwed, InPass, InReconcile, Replacing, InSourceStop, wantVars
<1>6. CASE (OtherThread /\ ~RouteStep /\ ~EventApply /\ ~AiThreadExit) \/ CloseServe \/ Terminated
  <2>1. /\ UNCHANGED wantVars /\ UNCHANGED owedVars
        /\ UNCHANGED <<pc, stopRet, rec, failed, out, reconcileReq, inFresh, aiCancel, srcVars, aiVars>>
    BY <1>6 DEF OtherThread, CloudDone, ClientReturn, HostChange, EventStep, EventRead, CloseServe,
       Terminated, wantVars, owedVars
  <2>2. (Owed => Owed') /\ (RecCurrent => RecCurrent') /\ (Clean => Clean')
    BY <2>1, OwedKept, CurrentKept, CleanKept
  <2> QED
    BY <2>1, <2>2 DEF PassOwed, InPass, InReconcile, Replacing, InSourceStop, wantVars
<1>7. CASE StopService \/ Shutdown \/ Destroy
  <2>1. stopping'
    BY <1>7 DEF StopService, Shutdown, Destroy, TypeInv, WorkerHolds
  <2> QED
    BY <2>1 DEF PassOwed
<1> QED
  BY NextCases, <1>1, <1>2, <1>3, <1>4, <1>5, <1>6, <1>7 DEF MainStep

LifecycleInv == PassPlaces /\ OutdatedMakesWay /\ RefusedDetached /\ PassOwed

\* The four parts together are an invariant.
LEMMA LifecycleInvariant ==
    ASSUME "source" \notin Faults
    PROVE  Spec => [](TypeInv /\ LifecycleInv)
<1> USE DEF LifecycleInv
<1>1. Init => LifecycleInv
  <2> SUFFICES ASSUME Init PROVE LifecycleInv
    OBVIOUS
  <2>1. /\ slot = Plain("refresh") /\ cur = NoWork /\ recFresh = {"slot"}
        /\ pc = "idle" /\ stopRet = "switch" /\ ~account /\ ~mediaActive
        /\ active = NoSource /\ sidecar = NoSource
    BY DEF Init
  <2>2. slot # NoWork /\ slot.kind = "refresh"
    BY <2>1, PlainType, Distinct DEF Plain
  <2>3. PassPlaces
    BY <2>1 DEF PassPlaces, InSourceStop, InPass, InReconcile, Preparing
  <2>4. OutdatedMakesWay /\ RefusedDetached
    BY <2>1 DEF OutdatedMakesWay, MadeWay, RefusedDetached, AccountRefused
  <2>5. PassOwed
    BY <2>1, <2>2 DEF PassOwed, InPass, InReconcile, Owed, Served, CatalogWork
  <2> QED
    BY <2>3, <2>4, <2>5
<1>2. TypeInv /\ OneOperation /\ SourceInv /\ LifecycleInv /\ [Next]_vars => LifecycleInv'
  <2> SUFFICES ASSUME TypeInv, OneOperation, SourceInv, LifecycleInv, [Next]_vars PROVE LifecycleInv'
    OBVIOUS
  <2>1. CASE UNCHANGED vars
    <3>1. PassPlaces' /\ OutdatedMakesWay'
      BY <2>1 DEF PassPlaces, InSourceStop, InPass, InReconcile, Preparing, OutdatedMakesWay, MadeWay,
                  CatalogWork
    <3>2. RefusedDetached'
      BY <2>1 DEF RefusedDetached, AccountRefused, CatalogBusy, CatalogWork, InPass, InReconcile
    <3>3. UNCHANGED wantVars /\ UNCHANGED owedVars
      BY <2>1 DEF wantVars, owedVars
    <3>4. (Owed => Owed') /\ (RecCurrent => RecCurrent') /\ (Clean => Clean')
      BY <2>1, <3>3, OwedKept, CurrentKept, CleanKept
    <3> QED
      BY <2>1, <3>1, <3>2, <3>4 DEF PassOwed, InPass, InReconcile, Replacing, InSourceStop
  <2> QED
    BY <2>1, PlacesStep, MakesWayStep, RefusedStep, OwedStep
<1> QED
  BY <1>1, <1>2, MailboxInvariant, SourceInvariant, PTL DEF Spec

\* Whatever requests, events, retries and cloud answers interleave, and whichever
\* calls but the sidecar's source requests fail: when the worker waits and its
\* last pass reported no error, source, AI and demand are what is asked for.
THEOREM LifecycleConverges ==
    ASSUME "source" \notin Faults
    PROVE  Spec => []Converged
<1>1. TypeInv /\ LifecycleInv => Converged
  <2> SUFFICES ASSUME TypeInv, LifecycleInv, Waiting, ~stopping, ~failed PROVE Clean
    BY DEF Converged, Clean, TypeInv, TypeOK, WantAI, WantSource
  <2>1. ~Busy /\ ~InReconcile /\ ~Replacing
    BY DEF Waiting, Busy, TypeInv, WorkerHolds, InReconcile, Replacing, InSourceStop
  <2> QED
    BY <2>1, NothingOwed DEF LifecycleInv, PassOwed
<1> QED
  BY <1>1, LifecycleInvariant, PTL
-----------------------------------------------------------------------------
\* What the service does to the AI thread is what module MediaLease grants: the
\* thread and the stop flag of its owner.
Lease == INSTANCE MediaLease WITH run <- aiRun, stop <- ownerStop

\* xc_media_owner_stop as its caller sees it: the request and the end it waited for.
LeaseJoin == aiRun /\ ~aiRun' /\ ownerStop'

\* The AI thread is started only for a service that holds none.
StartsOne == pc = "recStart" => ~mediaActive

\* The call that starts the AI thread follows the check that none is attached.
LEMMA StartsOneStep ==
    ASSUME TypeInv, SourceInv, StartsOne, Next
    PROVE  StartsOne'
<1> USE DEF StartsOne, TypeInv
<1>1. CASE ReconcileStep
  <2>1. CASE RecRead
    BY <2>1 DEF RecRead
  <2>2. CASE SrcDetach
    BY <2>2 DEF SrcDetach
  <2>3. CASE SrcRelease
    BY <2>3 DEF SrcRelease, AfterRelease, ReturnWith, TypeOK
  <2>4. CASE RecSet
    BY <2>4 DEF RecSet
  <2>5. CASE RecDemand
    BY <2>5 DEF RecDemand
  <2>6. CASE RecAttach
    BY <2>6 DEF RecAttach, ReturnWith, TypeOK
  <2>7. CASE RecStart
    BY <2>7 DEF RecStart
  <2>8. CASE RecRecheck
    BY <2>8 DEF RecRecheck, ReturnWith, TypeOK
  <2> QED
    BY <1>1, <2>1, <2>2, <2>3, <2>4, <2>5, <2>6, <2>7, <2>8 DEF ReconcileStep
<1>2. CASE BodyStep
  BY <1>2, BodyPlace
<1>3. CASE OtherThread
  BY <1>3, OtherPlace
<1>4. CASE MainStep
  BY <1>4 DEF MainStep, CloseServe, StopService, Shutdown, Destroy
<1>5. CASE Terminated
  BY <1>5 DEF Terminated
<1> QED
  BY NextCases, <1>1, <1>2, <1>3, <1>4, <1>5

\* Every step takes one of the steps of the lease, or none of them.
LEMMA GrantStep ==
    ASSUME TypeInv, SourceInv, StartsOne, Next
    PROVE  Lease!LeaseNext \/ LeaseJoin \/ UNCHANGED <<aiRun, ownerStop>>
<1> USE DEF Lease!LeaseNext, Lease!LeaseStart, Lease!LeaseStop, Lease!LeaseEnd, LeaseJoin,
            StartsOne, TypeInv
<1>1. StopAI => LeaseJoin \/ Lease!LeaseStop \/ UNCHANGED <<aiRun, ownerStop>>
  BY DEF StopAI, TypeOK
<1>2. CASE ReconcileStep
  <2>1. CASE RecRead
    BY <1>1, <2>1 DEF RecRead
  <2>2. CASE SrcDetach
    BY <1>1, <2>2 DEF SrcDetach
  <2>3. CASE SrcRelease
    BY <2>3 DEF SrcRelease
  <2>4. CASE RecSet
    BY <2>4 DEF RecSet
  <2>5. CASE RecDemand
    BY <2>5 DEF RecDemand
  <2>6. CASE RecAttach
    BY <1>1, <2>6 DEF RecAttach
  <2>7. CASE RecStart
    <3>1. ~aiRun /\ aiRun' \in BOOLEAN
      BY <2>7 DEF RecStart, SourceInv, SourceGuarded, TypeOK
    <3>2. ownerStop' = FALSE \/ (UNCHANGED <<aiRun, ownerStop>>)
      BY <2>7 DEF RecStart
    <3> QED
      BY <3>1, <3>2
  <2>8. CASE RecRecheck
    BY <1>1, <2>8 DEF RecRecheck
  <2> QED
    BY <1>2, <2>1, <2>2, <2>3, <2>4, <2>5, <2>6, <2>7, <2>8 DEF ReconcileStep
<1>3. CASE BodyStep
  BY <1>3, BodyPlace
<1>4. CASE OtherThread
  <2>1. CASE RouteStep
    BY <2>1 DEF RouteStep, QueueSelect, QueueStop, QueueRegion, QueueClear, QueueRtsp
  <2>2. CASE EventStep
    <3>1. CASE EventRead
      BY <3>1 DEF EventRead
    <3>2. CASE EventApply
      <4>1. UNCHANGED aiRun
        BY <3>2 DEF EventApply
      <4>2. ownerStop' = ownerStop \/ ownerStop' = TRUE
        BY <3>2 DEF EventApply, TypeOK
      <4> QED
        BY <4>1, <4>2
    <3> QED
      BY <2>2, <3>1, <3>2 DEF EventStep
  <2>3. CASE AiThreadExit
    BY <2>3 DEF AiThreadExit, TypeOK
  <2>4. CASE CloudDone \/ (\E c \in Clients : ClientReturn(c)) \/ HostChange
    BY <2>4 DEF CloudDone, ClientReturn, HostChange
  <2> QED
    BY <1>4, <2>1, <2>2, <2>3, <2>4 DEF OtherThread
<1>5. CASE MainStep
  <2>1. CASE Shutdown
    <3>1. aiRun' = FALSE /\ ownerStop' = (ownerStop \/ aiRun)
      BY <2>1 DEF Shutdown
    <3> QED
      BY <3>1 DEF TypeOK
  <2>2. CASE StopService
    BY <2>2 DEF StopService
  <2>3. CASE CloseServe \/ Destroy
    BY <2>3 DEF CloseServe, Destroy
  <2> QED
    BY <1>5, <2>1, <2>2, <2>3 DEF MainStep
<1>6. CASE Terminated
  BY <1>6 DEF Terminated
<1> QED
  BY NextCases, <1>2, <1>3, <1>4, <1>5, <1>6

\* The service uses the AI thread as the media owner grants it: never a second
\* thread, never a stop taken back from a running one, and no thread that ends
\* without having been asked, whichever calls fail and in whatever order events,
\* requests and the shutdown reach it.
THEOREM ServiceWithinLease ==
    Spec => Lease!LeaseInit /\ [][Lease!LeaseNext \/ LeaseJoin]_(Lease!lease)
<1>1. Init => StartsOne /\ Lease!LeaseInit
  BY DEF Init, StartsOne, Lease!LeaseInit
<1>2. TypeInv /\ SourceInv /\ StartsOne /\ [Next]_vars => StartsOne'
  BY StartsOneStep DEF StartsOne
<1>3. TypeInv /\ SourceInv /\ StartsOne /\ [Next]_vars
        => [Lease!LeaseNext \/ LeaseJoin]_(Lease!lease)
  BY GrantStep DEF Lease!lease
<1> QED
  BY <1>1, <1>2, <1>3, SourceInvariant, PTL DEF Spec
-----------------------------------------------------------------------------
\* What the reasons for another pass and the way back depend on.
backVars == <<ret, reconcileReq, callStopped, stopping>>

\* The steps left are counted.
LEMMA LeftCounted ==
    ASSUME TypeInv
    PROVE  PassLeft \in 0..8 /\ PlaceLeft(BodyPoint) \in 0..27 /\ ItemLeft \in 0..35
<1>1. PassLeft \in 0..8
  BY DEF PassLeft
<1>2. PlaceLeft(BodyPoint) \in 0..27
  BY DEF PlaceLeft
<1> QED
  BY <1>1, <1>2 DEF ItemLeft

\* The same of the steps left after a step.
LEMMA LeftCountedNext ==
    ASSUME TypeInv'
    PROVE  PassLeft' \in 0..8 /\ PlaceLeft(BodyPoint)' \in 0..27 /\ ItemLeft' \in 0..35
<1>1. PassLeft' \in 0..8
  BY DEF PassLeft
<1>2. PlaceLeft(BodyPoint)' \in 0..27
  BY DEF PlaceLeft
<1> QED
  BY <1>1, <1>2 DEF ItemLeft

\* Every step of xc_reconcile and xc_source_stop brings their return nearer, and
\* they return to the body or to its end.
LEMMA PassAdvances ==
    ASSUME TypeInv, ReconcileStep
    PROVE  ItemLeft' < ItemLeft /\ UNCHANGED slot
<1> USE DEF ItemLeft, PassLeft, PlaceLeft, BodyPoint, CallDue, InReconcile, InSourceStop, backVars
<1>0. ret \in {"idle", "call", "rtspReply"} /\ stopRet \in {"switch", "undo", "replace", "clear", "exit"}
  BY DEF TypeInv, TypeOK
<1>1. CASE RecRead
  <2>1. /\ pc = "recRead" /\ pc' \in {"srcDetach", "recSet", "recDemand", "recAttach"}
        /\ stopRet' = "switch" /\ UNCHANGED <<backVars, slot>>
    BY <1>1 DEF RecRead
  <2> QED
    BY <1>0, <2>1
<1>2. CASE SrcDetach
  <2>1. pc = "srcDetach" /\ pc' = "srcRelease" /\ UNCHANGED <<stopRet, backVars, slot>>
    BY <1>2 DEF SrcDetach
  <2> QED
    BY <1>0, <2>1
<1>3. CASE SrcRelease
  <2>1. pc = "srcRelease" /\ UNCHANGED <<stopRet, backVars, slot>>
    BY <1>3 DEF SrcRelease
  <2>2. \/ stopRet = "switch" /\ pc' \in {"recSet", "recAttach", ret}
        \/ stopRet = "undo" /\ pc' = ret
        \/ stopRet = "replace" /\ pc' \in {"rtspRoute", "rtspReply"}
        \/ stopRet = "clear" /\ pc' = "clearReset"
        \/ stopRet = "exit" /\ pc' = "exited"
    BY <1>0, <1>3 DEF SrcRelease, AfterRelease, ReturnWith
  <2>3. CASE stopRet = "switch" /\ pc' \in {"recSet", "recAttach"}
    BY <1>0, <2>1, <2>3
  <2>4. CASE stopRet \in {"switch", "undo"} /\ pc' = ret
    BY <1>0, <2>1, <2>4
  <2>5. CASE stopRet \notin {"switch", "undo"}
    BY <1>0, <2>1, <2>2, <2>5
  <2> QED
    BY <2>2, <2>3, <2>4, <2>5
<1>4. CASE RecSet
  <2>1. /\ pc = "recSet" /\ UNCHANGED <<backVars, slot>>
        /\ pc' = "recDemand" \/ (pc' = "srcDetach" /\ stopRet' = "undo")
    BY <1>4 DEF RecSet
  <2> QED
    BY <1>0, <2>1
<1>5. CASE RecDemand
  <2>1. pc = "recDemand" /\ pc' = "recAttach" /\ UNCHANGED <<backVars, slot>>
    BY <1>5 DEF RecDemand
  <2> QED
    BY <1>0, <2>1
<1>6. CASE RecAttach
  <2>1. pc = "recAttach" /\ pc' \in {"recStart", ret} /\ UNCHANGED <<backVars, slot>>
    BY <1>6 DEF RecAttach, ReturnWith
  <2> QED
    BY <1>0, <2>1
<1>7. CASE RecStart
  <2>1. pc = "recStart" /\ pc' = "recRecheck" /\ UNCHANGED <<backVars, slot>>
    BY <1>7 DEF RecStart
  <2> QED
    BY <1>0, <2>1
<1>8. CASE RecRecheck
  <2>1. pc = "recRecheck" /\ pc' = ret /\ UNCHANGED <<backVars, slot>>
    BY <1>8 DEF RecRecheck, ReturnWith
  <2> QED
    BY <1>0, <2>1
<1> QED
  BY <1>1, <1>2, <1>3, <1>4, <1>5, <1>6, <1>7, <1>8 DEF ReconcileStep

\* The steps that begin work or the end of the thread.
BeginStep == Take \/ Promote \/ Exit

\* Every other step of a body goes on to a later place of it.
LEMMA BodyAdvances ==
    ASSUME TypeInv, BodyStep, ~BeginStep
    PROVE  ItemLeft' < ItemLeft /\ pc # "idle"
<1> USE DEF ItemLeft, PassLeft, PlaceLeft, BodyPoint, CallDue, InReconcile, InSourceStop
<1>1. CASE TakeStep
  <2>1. \/ pc = "work" /\ pc' \in {"call", "finish"}
        \/ pc = "work" /\ pc' = "srcDetach" /\ stopRet' = "clear"
    BY <1>1 DEF TakeStep, BeginStep, StartCall, NoBody, StopBody, ClearBegin, Succeed, Fail, Done
  <2> QED
    BY <2>1
<1>2. CASE RtspStep
  <2>1. CASE RtspBegin
    <3>1. pc = "work" /\ (pc' \in {"rtspReply", "rtspRoute"} \/ (pc' = "srcDetach" /\ stopRet' = "replace"))
      BY <2>1 DEF RtspBegin
    <3> QED
      BY <3>1
  <2>2. CASE RtspRoute
    <3>1. pc = "rtspRoute" /\ (pc' = "rtspReply" \/ (pc' = "recRead" /\ ret' = "rtspReply"))
      BY <2>2 DEF RtspRoute, EnterReconcile
    <3> QED
      BY <3>1
  <2>3. CASE RtspReply
    <3>1. pc = "rtspReply" /\ pc' = "idle"
      BY <2>3 DEF RtspReply
    <3> QED
      BY <3>1
  <2> QED
    BY <1>2, <2>1, <2>2, <2>3 DEF RtspStep
<1>3. CASE CallStep
  <2>1. CASE CallReconcile
    <3>1. /\ pc = "call" /\ CallDue /\ pc' = "recRead" /\ ret' = "call"
          /\ ~reconcileReq' /\ callStopped' = stopping /\ UNCHANGED stopping
      BY <2>1 DEF CallReconcile, EnterReconcile
    <3>2. ~CallDue'
      BY <3>1
    <3> HIDE DEF CallDue
    <3> QED
      BY <3>1, <3>2
  <2>2. CASE RefreshApply \/ ListApply \/ ClearApply
    <3>1. pc = "call" /\ pc' = "finish"
      BY <2>2 DEF RefreshApply, ListApply, ClearApply, CallEnd, CallFails, Superseded, Succeed,
                  Fail, Done
    <3> QED
      BY <3>1
  <2> QED
    BY <1>3, <2>1, <2>2 DEF CallStep
<1>4. CASE PrepStep
  <2>1. \/ pc = "prepRead" /\ pc' \in {"finish", "prepGuard", "prepFail"}
        \/ pc = "prepGuard" /\ pc' \in {"prepPatch", "prepFail"}
        \/ pc = "prepPatch" /\ pc' \in {"finish", "prepFail"}
        \/ pc = "prepFail" /\ pc' = "finish"
    BY <1>4 DEF PrepStep, PrepRead, PrepGuard, PrepPatch, PrepFail, Succeed, Fail, Done
  <2> QED
    BY <2>1
<1>5. CASE FinishStep
  <2>1. pc = "finish" /\ (pc' = "idle" \/ (pc' = "recRead" /\ ret' = "idle"))
    BY <1>5 DEF FinishStep, FinishStale, FinishCatalog, FinishRefresh, FinishCamera, FinishClear,
                EnterReconcile
  <2> QED
    BY <2>1
<1>6. CASE SelectCommit
  <2>1. pc = "work" /\ pc' \in {"finish", "prepRead"}
    BY <1>6 DEF SelectCommit, Succeed, Fail, Done
  <2> QED
    BY <2>1
<1>7. CASE RegionCommit
  <2>1. pc = "call" /\ pc' \in {"finish", "prepRead"}
    BY <1>7 DEF RegionCommit, CallEnd, CallFails, Superseded, Fail, Done
  <2> QED
    BY <2>1
<1>8. CASE ClearReset
  <2>1. pc = "clearReset" /\ pc' \in {"call", "finish"}
    BY <1>8 DEF ClearReset, Fail, Done
  <2> QED
    BY <2>1
<1> QED
  BY <1>1, <1>2, <1>3, <1>4, <1>5, <1>6, <1>7, <1>8 DEF BodyStep

\* The worker's steps move it to another place.
LEMMA WorkerMoves ==
    ASSUME TypeInv, WorkerStep
    PROVE  pc' # pc
<1>1. CASE ReconcileStep
  BY <1>1 DEF TypeInv, TypeOK, ReconcileStep, RecRead, SrcDetach, SrcRelease, AfterRelease,
              RecSet, RecDemand, RecAttach, RecStart, RecRecheck, ReturnWith
<1>2. CASE BeginStep
  BY <1>2 DEF BeginStep, Take, Promote, Exit
<1>3. CASE BodyStep /\ ~BeginStep
  BY <1>3 DEF BodyStep, TakeStep, BeginStep, StartCall, NoBody, StopBody, ClearBegin, RtspStep,
              RtspBegin, RtspRoute, RtspReply, CallStep, CallReconcile, RefreshApply, ListApply,
              ClearApply, CallEnd, CallFails, Superseded, PrepStep, PrepRead, PrepGuard, PrepPatch,
              PrepFail, FinishStep, FinishStale, FinishCatalog, FinishRefresh, FinishCamera,
              FinishClear, SelectCommit, RegionCommit, ClearReset, Succeed, Fail, Done,
              EnterReconcile
<1> QED
  BY <1>1, <1>2, <1>3 DEF WorkerStep, BodyStep, TakeStep, RtspStep, CallStep, PrepStep, FinishStep

\* Once the service stops, no thread but the worker gives the worker more to do.
LEMMA OthersAdd ==
    ASSUME TypeInv, EndGuarded, OtherThread \/ MainStep \/ Terminated
    PROVE  /\ UNCHANGED pc
           /\ stopping => UNCHANGED <<ItemLeft, slot, stopRet>>
<1>1. CASE OtherThread
  <2>1. UNCHANGED <<pc, ret, stopRet, stopping>>
    BY <1>1, OtherPlace
  <2>2. CASE stopping
    <3>1. main \notin {"serve", "closing"} /\ seen = "none"
      BY <2>2 DEF TypeInv, WorkerHolds, EndGuarded
    <3>2. UNCHANGED <<slot, reconcileReq, callStopped>>
      BY <1>1, <3>1 DEF OtherThread, CloudDone, RouteStep, QueueSelect, QueueStop, QueueRegion,
         QueueClear, QueueRtsp, Serving, ClientReturn, HostChange, EventStep, EventRead,
         EventApply, AiThreadExit
    <3> QED
      BY <2>1, <3>2 DEF ItemLeft, PassLeft, PlaceLeft, BodyPoint, CallDue, InReconcile, InSourceStop
  <2> QED
    BY <2>1, <2>2
<1>2. CASE MainStep \/ Terminated
  <2>1. UNCHANGED <<pc, ret, stopRet, slot, reconcileReq, callStopped>>
    BY <1>2 DEF MainStep, CloseServe, StopService, Shutdown, Destroy, Terminated
  <2>2. stopping => UNCHANGED stopping
    BY <1>2 DEF MainStep, CloseServe, StopService, Shutdown, Destroy, Terminated, TypeInv, TypeOK
  <2> QED
    BY <2>1, <2>2 DEF ItemLeft, PassLeft, PlaceLeft, BodyPoint, CallDue, InReconcile, InSourceStop
<1> QED
  BY <1>1, <1>2

\* Once the service stops, no completion refills the mailbox.
LEMMA MailboxDrains ==
    ASSUME TypeInv, BodyStep, stopping
    PROVE  slot' \in {slot, NoWork}
<1>1. CASE FinishStep
  <2>1. ~RecoverDue /\ PostOther(FALSE, {}) => slot' = NoWork
    BY DEF PostOther
  <2>2. ~RecoverDue /\ ~LatestDue(auth)
    BY DEF RecoverDue, LatestDue
  <2>3. cur # NoWork /\ (cur.kind \in {"refresh", "list", "region"} => Stale)
    BY <1>1 DEF FinishStep, FinishStale, FinishCatalog, FinishRefresh, FinishCamera, FinishClear,
                Stale, TypeInv, WorkerHolds
  <2>4. ~FinishCatalog /\ ~FinishRefresh
    BY <2>3 DEF FinishCatalog, FinishRefresh, CatalogWork
  <2>5. CASE FinishStale
    BY <2>2, <2>5 DEF FinishStale
  <2>6. CASE FinishCamera \/ FinishClear
    BY <2>1, <2>2, <2>6 DEF FinishCamera, FinishClear
  <2> QED
    BY <1>1, <2>4, <2>5, <2>6 DEF FinishStep
<1>2. CASE RtspStep
  <2>1. CASE RtspReply
    BY <2>1 DEF RtspReply, PostOther, RecoverDue
  <2> QED
    BY <1>2, <2>1 DEF RtspStep, RtspBegin, RtspRoute
<1>3. CASE BodyStep /\ ~FinishStep /\ ~RtspStep
  BY <1>3 DEF BodyStep, TakeStep, Take, Promote, Exit, StartCall, NoBody, StopBody, ClearBegin,
     CallStep, CallReconcile, RefreshApply, ListApply, ClearApply, PrepStep, PrepRead, PrepGuard,
     PrepPatch, PrepFail, SelectCommit, RegionCommit, ClearReset
<1> QED
  BY <1>1, <1>2, <1>3

\* The worker is in the last call of its thread, or done.
Leaving == pc = "exited" \/ InSourceStop("exit")

\* The last call is no part of an item, and the worker does not come back from it.
LEMMA LeavingLeft ==
    /\ Leaving => ItemLeft = PassLeft
    /\ Leaving' => ItemLeft' = PassLeft'
    /\ pc = "exited" => ItemLeft = 0
    /\ pc = "idle" => ItemLeft = 0 /\ ~Leaving
    /\ pc' = "work" => ItemLeft' = 27 /\ ~Leaving'
    /\ pc' = "srcDetach" /\ stopRet' = "exit" => ItemLeft' = 2 /\ Leaving'
BY DEF Leaving, ItemLeft, PassLeft, PlaceLeft, BodyPoint, InReconcile, InSourceStop

\* The end of the worker's item, and of its thread, comes nearer.
LEMMA AdvanceStep ==
    ASSUME TypeInv, TypeInv', EndGuarded, Next
    PROVE  /\ pc # "idle" /\ pc' # pc => ItemLeft' < ItemLeft
           /\ stopping => StopLeft' <= StopLeft /\ (pc' # pc => StopLeft' < StopLeft)
<1>0. ItemLeft \in Nat /\ ItemLeft' \in Nat
  BY LeftCounted, LeftCountedNext
<1> DEFINE Queued == IF slot # NoWork THEN 28 ELSE 0
<1>1. /\ Leaving => StopLeft = ItemLeft
      /\ ~Leaving => StopLeft = 3 + ItemLeft + Queued
      /\ Leaving' => StopLeft' = ItemLeft'
      /\ ~Leaving' => StopLeft' = 3 + ItemLeft' + Queued'
      /\ Queued \in {0, 28} /\ Queued' \in {0, 28}
  BY LeavingLeft DEF StopLeft, Leaving
<1>2. CASE ReconcileStep \/ (BodyStep /\ ~BeginStep)
  <2>1. ItemLeft' < ItemLeft
    BY <1>2, PassAdvances, BodyAdvances
  <2>2. stopping => slot' \in {slot, NoWork}
    BY <1>2, PassAdvances, MailboxDrains
  <2>3. stopping => Queued' <= Queued
    BY <2>2
  <2>4. Leaving => Leaving'
    <3>1. CASE ReconcileStep
      BY <3>1 DEF Leaving, InSourceStop, ReconcileStep, RecRead, SrcDetach, SrcRelease, AfterRelease,
                  RecSet, RecDemand, RecAttach, RecStart, RecRecheck
    <3>2. CASE BodyStep /\ ~BeginStep
      <4>1. pc \notin {"exited", "srcDetach", "srcRelease"}
        BY <3>2 DEF BodyStep, TakeStep, BeginStep, StartCall, NoBody, StopBody, ClearBegin, RtspStep,
              RtspBegin, RtspRoute, RtspReply, CallStep, CallReconcile, RefreshApply, ListApply,
              ClearApply, CallEnd, PrepStep, PrepRead, PrepGuard, PrepPatch,
              PrepFail, FinishStep, FinishStale, FinishCatalog, FinishRefresh, FinishCamera,
              FinishClear, SelectCommit, RegionCommit, ClearReset
      <4> QED
        BY <4>1 DEF Leaving, InSourceStop
    <3> QED
      BY <1>2, <3>1, <3>2
  <2> HIDE DEF Queued
  <2>5. (Leaving' /\ ~Leaving) \/ (Leaving <=> Leaving')
    BY <2>4
  <2> QED
    BY <1>0, <1>1, <2>1, <2>3, <2>5
<1>3. CASE BeginStep
  <2>1. pc = "idle" /\ (stopping => ~Promote)
    BY <1>3 DEF BeginStep, Take, Promote, Exit
  <2>2. CASE Take
    <3>1. slot # NoWork /\ slot' = NoWork /\ pc' = "work"
      BY <2>2 DEF Take
    <3> QED
      BY <1>0, <1>1, <2>1, <3>1, LeavingLeft
  <2>3. CASE Exit
    <3>1. pc' = "srcDetach" /\ stopRet' = "exit"
      BY <2>3 DEF Exit
    <3> QED
      BY <1>0, <1>1, <2>1, <3>1, LeavingLeft
  <2> QED
    BY <1>3, <2>1, <2>2, <2>3 DEF BeginStep
<1>4. CASE OtherThread \/ MainStep \/ Terminated
  <2>1. UNCHANGED pc /\ (stopping => UNCHANGED <<ItemLeft, slot, stopRet>>)
    BY <1>4, OthersAdd
  <2>2. stopping => (Leaving' <=> Leaving)
    BY <2>1 DEF Leaving, InSourceStop
  <2>3. stopping => Queued' = Queued
    BY <2>1
  <2> HIDE DEF Queued
  <2> QED
    BY <1>0, <1>1, <2>1, <2>2, <2>3
<1>5. BodyStep \/ ~BeginStep
  BY DEF BodyStep, TakeStep, BeginStep
<1> QED
  BY NextCases, <1>2, <1>3, <1>4, <1>5

\* The worker never goes round in circles: for every set of requests and of
\* failing calls each of its steps brings its item nearer to the end and, once
\* the service stops, its thread too, which has at most 66 of them left.
THEOREM WorkerEnds ==
    Spec => /\ WorkerAdvances
            /\ [](ItemLeft \in 0..35 /\ StopLeft \in 0..66)
            /\ [][WorkerStep => pc' # pc]_vars
<1>1. TypeInv /\ TypeInv' /\ EndGuarded /\ [Next]_vars
        => [/\ pc # "idle" /\ pc' # pc => ItemLeft' < ItemLeft
            /\ stopping => StopLeft' <= StopLeft /\ (pc' # pc => StopLeft' < StopLeft)]_vars
  BY AdvanceStep
<1>2. TypeInv => ItemLeft \in 0..35 /\ StopLeft \in 0..66
  <2> SUFFICES ASSUME TypeInv PROVE ItemLeft \in 0..35 /\ StopLeft \in 0..66
    OBVIOUS
  <2>1. PassLeft \in 0..8 /\ ItemLeft \in 0..35
    BY LeftCounted
  <2> QED
    BY <2>1 DEF StopLeft
<1>3. TypeInv /\ [Next]_vars => [WorkerStep => pc' # pc]_vars
  BY WorkerMoves
<1> QED
  BY <1>1, <1>2, <1>3, EndInvariant, PTL DEF Spec, WorkerAdvances
=============================================================================
