---------------------------- MODULE ServiceTypes -----------------------------
(***************************************************************************)
(* Type correctness of module Service, proved for every value of its        *)
(* constants.  TypeOK is not inductive alone: a step that reads the work    *)
(* item cur keeps its type only where there is an item, of the right kind.  *)
(* WorkerHolds says where that is, also across the calls of xc_reconcile    *)
(* and xc_source_stop, and is proved together with it.                      *)
(***************************************************************************)
EXTENDS ServiceProperties, TLAPS

USE DEF slotVars, ctlVars, authVars, catVars, selVars, hostVars, inVars, aiVars, srcVars,
        rtspVars, endVars, vars

\* The locals of xc_reconcile (service.c:1316-1322) start as a record of their type.
LEMMA NoLocalsType == NoLocals \in Locals
BY DEF NoLocals, Locals

\* Recording a call's result keeps the locals of xc_reconcile well typed.
LEMMA LocalsResult ==
    ASSUME NEW r \in Locals, NEW b \in BOOLEAN
    PROVE  [r EXCEPT !.ok = b] \in Locals
BY DEF Locals

\* The parts of the locals of xc_reconcile, for steps that read only one of them.
LEMMA LocalsParts ==
    ASSUME NEW r \in Locals
    PROVE  r.ai \in BOOLEAN /\ r.source \in BOOLEAN /\ r.ok \in BOOLEAN /\ r.target \in Source \cup {NoSource}
BY DEF Locals

\* What an external call answers is a Boolean, whichever faults are allowed.
LEMMA AnswersType ==
    ASSUME NEW f, NEW ok \in Answers(f)
    PROVE  ok \in BOOLEAN
BY DEF Answers

\* The steps of xc_reconcile and xc_source_stop (service.c:1266-1403) keep the
\* state well typed.
LEMMA ReconcileType ==
    ASSUME TypeOK, ReconcileStep
    PROVE  TypeOK'
<1>1. CASE RecRead
  <2>1. mediaActive' \in BOOLEAN /\ aiRun' \in BOOLEAN /\ ownerStop' \in BOOLEAN /\ aiCancel' \in BOOLEAN
    BY <1>1 DEF RecRead, TypeOK, StopAI
  <2>2. WantAI \in BOOLEAN /\ WantSource \in BOOLEAN /\ (WantSource => selected \in Cameras)
    BY DEF TypeOK, WantAI, WantSource, SelectionValid
  <2>3. \A keep \in BOOLEAN : (keep => active # NoSource) => TargetAudio(keep) \in BOOLEAN
    BY DEF TypeOK, TargetAudio, Source
  <2>4. rec' \in Locals
    BY <1>1, <2>2, <2>3 DEF RecRead, Locals, Source
  <2>5. inFresh' \subseteq Holders /\ pc' \in {"srcDetach", "recSet", "recDemand", "recAttach"}
    BY <1>1 DEF RecRead, TypeOK, Holders
  <2> QED
    BY <1>1, <2>1, <2>4, <2>5 DEF RecRead, TypeOK
<1>2. CASE SrcDetach
  <2>1. demand' \in BOOLEAN /\ mediaActive' \in BOOLEAN /\ aiRun' \in BOOLEAN /\ ownerStop' \in BOOLEAN
    BY <1>2 DEF SrcDetach, TypeOK, StopAI
  <2> QED
    BY <1>2, <2>1 DEF SrcDetach, TypeOK
<1>3. CASE SrcRelease
  <2>1. PICK ok \in Answers("source") : SrcRelease!2!(ok)
    BY <1>3 DEF SrcRelease
  <2>2. ok \in BOOLEAN 
    BY AnswersType
  <2>3. rec' \in Locals /\ failed' \in BOOLEAN /\ out' = out /\ inFresh' \subseteq Holders
    BY <2>1, <2>2, NoLocalsType DEF TypeOK, AfterRelease, ReturnWith
  <2>4. pc' \in {ret, "recSet", "recAttach", "rtspRoute", "rtspReply", "clearReset", "exited"}
    BY <2>1, <2>2, NoLocalsType DEF TypeOK, AfterRelease, ReturnWith
  <2> QED BY <1>3, <2>1, <2>3, <2>4 DEF SrcRelease, TypeOK
<1>4. CASE RecSet
  BY <1>4, LocalsParts DEF RecSet, TypeOK
<1>5. CASE RecDemand
  BY <1>5, LocalsResult, AnswersType DEF RecDemand, TypeOK
<1>6. CASE RecAttach
  <2>1. rec' \in Locals /\ failed' \in BOOLEAN /\ pc' \in {ret, "recStart"} /\ inFresh' \subseteq Holders
    BY <1>6, NoLocalsType DEF RecAttach, TypeOK, ReturnWith
  <2>2. mediaActive' \in BOOLEAN /\ aiRun' \in BOOLEAN /\ ownerStop' \in BOOLEAN
    BY <1>6 DEF RecAttach, TypeOK, StopAI
  <2> QED BY <1>6, <2>1, <2>2 DEF RecAttach, TypeOK
<1>7. CASE RecStart
  <2>1. rec' \in Locals
    BY <1>7, LocalsResult DEF RecStart, TypeOK
  <2>2. mediaActive' \in BOOLEAN /\ aiRun' \in BOOLEAN /\ ownerStop' \in BOOLEAN
    BY <1>7 DEF RecStart, TypeOK
  <2> QED BY <1>7, <2>1, <2>2 DEF RecStart, TypeOK
<1>8. CASE RecRecheck
  <2>1. rec' \in Locals /\ failed' \in BOOLEAN /\ pc' = ret /\ inFresh' \subseteq Holders
    BY <1>8, NoLocalsType DEF RecRecheck, TypeOK, ReturnWith
  <2>2. mediaActive' \in BOOLEAN /\ aiRun' \in BOOLEAN /\ ownerStop' \in BOOLEAN
    BY <1>8 DEF RecRecheck, TypeOK, StopAI
  <2> QED BY <1>8, <2>1, <2>2 DEF RecRecheck, TypeOK
<1> QED
  BY <1>1, <1>2, <1>3, <1>4, <1>5, <1>6, <1>7, <1>8 DEF ReconcileStep

\* A zeroed work item of a kind that needs no field is a work item.
LEMMA PlainType ==
    ASSUME NEW k \in {"stop", "reconcile", "refresh", "clear"}
    PROVE  Plain(k) \in Work
BY DEF Plain, Work, Item, Kinds

\* The parts of a work item, with the fields its kind is sure to have.
LEMMA WorkParts ==
    ASSUME NEW w \in Work
    PROVE  /\ w.kind \in Kinds /\ w.background \in BOOLEAN
           /\ w.kind = "rtsp" => /\ w.job.client \in Clients
                                /\ w.job.field \in {"enabled", "audio", "credentials"}
                                /\ w.job.value \in BOOLEAN
           /\ w.kind = "select" => w.camera \in Cameras
           /\ w.kind \in {"list", "region", "select"} => w.region \in Regions
BY DEF Work, Item, Job

\* The catalog operation a region request becomes is a work item.
LEMMA RequestType ==
    ASSUME NEW r \in Regions
    PROVE  CatalogRequest(r) \in Work
BY DEF CatalogRequest, Plain, Work, Item, Kinds

\* The updates the worker makes to its outcome stay within its type.
LEMMA OutcomeType ==
    /\ NoOutcome \in Outcomes
    /\ \A o \in Outcomes :
         /\ o.ok \in BOOLEAN /\ o.loaded \in BOOLEAN /\ o.committed \in BOOLEAN
         /\ [o EXCEPT !.ok = TRUE] \in Outcomes
         /\ \A e \in {"network", "incomplete", "reauth", "other"} : [o EXCEPT !.error = e] \in Outcomes
BY DEF Outcomes, NoOutcome

\* Taking work and the bodies that do not go to the cloud (service.c:1601-1709)
\* keep the state well typed.
LEMMA BodyType ==
    ASSUME TypeOK, WorkerHolds,
           \/ Take \/ Promote \/ Exit \/ StartCall \/ NoBody \/ SelectCommit \/ StopBody
           \/ ClearBegin \/ ClearReset \/ RtspBegin \/ RtspRoute
    PROVE  TypeOK'
<1>1. ASSUME Take PROVE TypeOK'
  BY <1>1 DEF Take, TypeOK, Move, Holders, NoOutcome, Outcomes
<1>2. ASSUME Promote PROVE TypeOK'
  <2>1. cur' \in Work /\ pendingRegion' \in Regions \cup {NoRegion}
    BY <1>2, WorkParts DEF Promote, TypeOK
  <2>2. recFresh' \subseteq Holders /\ inFresh' \subseteq Holders
    BY <1>2 DEF Promote, TypeOK, Move, Holders
  <2> QED
    BY <1>2, <2>1, <2>2, OutcomeType DEF Promote, TypeOK
<1>3. ASSUME Exit PROVE TypeOK'
  BY <1>3 DEF Exit, TypeOK
<1>4. ASSUME StartCall PROVE TypeOK'
  <2>1. callStopped' \in BOOLEAN
    BY <1>4 DEF StartCall
  <2> QED BY <1>4, <2>1 DEF StartCall, TypeOK
<1>5. ASSUME NoBody PROVE TypeOK'
  <2>1. out' \in Outcomes
    BY <1>5 DEF NoBody, TypeOK, Succeed, Done, Outcomes
  <2> QED BY <1>5, <2>1 DEF NoBody, TypeOK, Succeed, Done
<1>6. ASSUME SelectCommit PROVE TypeOK'
  <2>1. out' \in Outcomes
    BY <1>6 DEF SelectCommit, TypeOK, Succeed, Fail, Done, Outcomes
  <2>2. pc' \in {"finish", "prepRead"} /\ inFresh' \subseteq Holders
    BY <1>6 DEF SelectCommit, TypeOK, Succeed, Fail, Done, Holders
  <2>3. input' \in BOOLEAN /\ enabled' \in BOOLEAN
    BY <1>6 DEF SelectCommit, TypeOK
  <2>4. selected' \in Cameras \cup {NoCamera} /\ region' \in Regions
    BY <1>6, WorkParts DEF SelectCommit, TypeOK, WorkerHolds
  <2> QED BY <1>6, <2>1, <2>2, <2>3, <2>4 DEF SelectCommit, TypeOK
<1>7. ASSUME StopBody PROVE TypeOK'
  <2>1. out' \in Outcomes
    BY <1>7 DEF StopBody, TypeOK, Succeed, Fail, Done, Outcomes
  <2> QED BY <1>7, <2>1 DEF StopBody, TypeOK, Succeed, Fail, Done
<1>8. ASSUME ClearBegin PROVE TypeOK'
  BY <1>8 DEF ClearBegin, TypeOK
<1>9. ASSUME ClearReset PROVE TypeOK'
  <2>1. out' \in Outcomes
    BY <1>9 DEF ClearReset, TypeOK, Fail, Done, Outcomes
  <2>2. callStopped' \in BOOLEAN
    BY <1>9 DEF ClearReset, TypeOK
  <2> QED BY <1>9, <2>1, <2>2 DEF ClearReset, TypeOK, Fail, Done
<1>10. ASSUME RtspBegin PROVE TypeOK'
  <2>1. out' \in Outcomes
    BY <1>10 DEF RtspBegin, TypeOK, Outcomes
  <2>2. pc' \in {"rtspReply", "srcDetach", "rtspRoute"} /\ stopRet' \in {stopRet, "replace"}
    BY <1>10 DEF RtspBegin
  <2> QED BY <1>10, <2>1, <2>2 DEF RtspBegin, TypeOK
<1>11. ASSUME RtspRoute PROVE TypeOK'
  <2>1. rtspOn' \in BOOLEAN /\ audioOn' \in BOOLEAN /\ failed' \in BOOLEAN
    BY <1>11, WorkParts DEF RtspRoute, TypeOK, EnterReconcile, WorkerHolds
  <2>2. pc' \in {"recRead", "rtspReply"} /\ ret' \in {ret, "rtspReply"}
    BY <1>11 DEF RtspRoute, EnterReconcile
  <2> QED BY <1>11, <2>1, <2>2 DEF RtspRoute, TypeOK
<1> QED
  BY <1>1, <1>2, <1>3, <1>4, <1>5, <1>6, <1>7, <1>8, <1>9, <1>10, <1>11

\* A body that ends leaves a well-typed outcome and goes to the completion.
LEMMA DoneType ==
    /\ \A e \in {"network", "incomplete", "reauth", "other"} :
         TypeOK /\ Fail(e) => out' \in Outcomes /\ pc' = "finish"
    /\ TypeOK /\ Succeed => out' \in Outcomes /\ pc' = "finish"
    /\ \A errors \in SUBSET {"network", "incomplete", "reauth", "other"} :
         TypeOK /\ CallFails(errors) => out' \in Outcomes /\ pc' = "finish"
<1>1. ASSUME TypeOK, NEW e \in {"network", "incomplete", "reauth", "other"}, Fail(e)
      PROVE  out' \in Outcomes /\ pc' = "finish"
  BY <1>1, OutcomeType DEF Fail, Done, TypeOK
<1>2. ASSUME TypeOK, Succeed PROVE out' \in Outcomes /\ pc' = "finish"
  BY <1>2, OutcomeType DEF Succeed, Done, TypeOK
<1> QED
  BY <1>1, <1>2 DEF CallFails

\* Waiting for the cloud and applying its answer (service.c:1025-1082,
\* 1710-1924) keep the state well typed.
LEMMA CallType ==
    ASSUME TypeOK, WorkerHolds, CallReconcile \/ RefreshApply \/ ListApply \/ RegionCommit \/ ClearApply
    PROVE  TypeOK'
<1>1. ASSUME CallReconcile PROVE TypeOK'
  <2>1. reconcileReq' \in BOOLEAN /\ callStopped' \in BOOLEAN
    BY <1>1 DEF CallReconcile, TypeOK
  <2> QED
    BY <1>1, <2>1 DEF CallReconcile, EnterReconcile, TypeOK
<1>2. ASSUME RefreshApply PROVE TypeOK'
  <2>1. out' \in Outcomes /\ pc' = "finish"
    BY <1>2, DoneType DEF RefreshApply
  <2>2. account' \in BOOLEAN /\ callStopped' \in BOOLEAN
    BY <1>2 DEF RefreshApply, CallEnd, AccountsApply, TypeOK
  <2>3. auth' \in {auth, "authenticated", "idle"}
    BY <1>2 DEF RefreshApply, AccountsApply
  <2> QED
    BY <1>2, <2>1, <2>2, <2>3 DEF RefreshApply, CallEnd, TypeOK
<1>3. ASSUME ListApply PROVE TypeOK'
  <2>1. out' \in Outcomes /\ pc' = "finish"
    <3>1. [out EXCEPT !.ok = TRUE, !.loaded = TRUE] \in Outcomes
      BY DEF TypeOK, Outcomes
    <3> QED
      BY <1>3, <3>1, DoneType DEF ListApply, Superseded, Done
  <2>2. callStopped' \in BOOLEAN
    BY <1>3 DEF ListApply, CallEnd
  <2>3. catalog' \subseteq Cameras /\ catalogRegion' \in Regions
    BY <1>3, WorkParts DEF ListApply, CallEnd, TypeOK, WorkerHolds
  <2> QED
    BY <1>3, <2>1, <2>2, <2>3 DEF ListApply, CallEnd, TypeOK
<1>4. ASSUME RegionCommit PROVE TypeOK'
  <2>1. out' \in Outcomes /\ pc' \in {"finish", "prepRead"}
    BY <1>4, DoneType DEF RegionCommit, Superseded, TypeOK, Outcomes
  <2>2. callStopped' \in BOOLEAN /\ input' \in BOOLEAN /\ inFresh' \subseteq Holders
    BY <1>4 DEF RegionCommit, CallEnd, TypeOK, Holders
  <2>3. catalog' \subseteq Cameras /\ catalogRegion' \in Regions /\ region' \in Regions
    BY <1>4, WorkParts DEF RegionCommit, CallEnd, TypeOK, WorkerHolds
  <2>4. selected' \in Cameras \cup {NoCamera}
    BY <1>4 DEF RegionCommit, TypeOK
  <2>5. enabled' \in BOOLEAN
    BY <1>4 DEF RegionCommit, TypeOK
  <2>6. /\ cloud' = "none"
        /\ UNCHANGED <<slotVars, ret, stopRet, rec, failed, authVars, catalogState,
                       pendingRegion, queued, hostVars, reconcileReq, aiCancel, aiVars,
                       srcVars, rtspVars, endVars>>
    BY <1>4 DEF RegionCommit, CallEnd
  <2> QED
    BY <2>1, <2>2, <2>3, <2>4, <2>5, <2>6 DEF TypeOK
<1>5. ASSUME ClearApply PROVE TypeOK'
  <2>1. out' \in Outcomes /\ pc' = "finish"
    BY <1>5, DoneType DEF ClearApply
  <2>2. account' \in BOOLEAN /\ callStopped' \in BOOLEAN
    BY <1>5 DEF ClearApply, CallEnd, AccountsApply, TypeOK
  <2>3. auth' \in {auth, "authenticated", "idle"}
    BY <1>5 DEF ClearApply, AccountsApply
  <2>4. /\ recovery' \in Work \cup {NoWork} /\ recFresh' \subseteq Holders
        /\ catalogState' \in {catalogState, "error"}
        /\ pendingRegion' \in Regions \cup {NoRegion}
        /\ UNCHANGED <<slot, cur, region, catalogRegion, catalog, queued>>
    BY <1>5 DEF ClearApply, CatalogWithoutRetry, TypeOK
  <2> QED
    BY <1>5, <2>1, <2>2, <2>3, <2>4 DEF ClearApply, CallEnd, TypeOK
<1> QED
  BY <1>1, <1>2, <1>3, <1>4, <1>5

\* Preparing the host input (service.c:1158-1216) keeps the state well typed.
LEMMA PrepareType ==
    ASSUME TypeOK, PrepRead \/ PrepGuard \/ PrepPatch \/ PrepFail
    PROVE  TypeOK'
<1>1. ASSUME PrepRead PROVE TypeOK'
  <2>1. out' \in Outcomes /\ pc' \in {"finish", "prepGuard", "prepFail"}
    BY <1>1, DoneType DEF PrepRead, TypeOK
  <2> QED
    BY <1>1, <2>1 DEF PrepRead, TypeOK
<1>2. ASSUME PrepGuard PROVE TypeOK'
  BY <1>2 DEF PrepGuard, TypeOK
<1>3. ASSUME PrepPatch PROVE TypeOK'
  <2>1. out' \in Outcomes /\ pc' \in {"finish", "prepFail"} /\ inFresh' \subseteq Holders
    BY <1>3, DoneType DEF PrepPatch, TypeOK
  <2>2. host' \in BOOLEAN /\ posted' \in BOOLEAN
    BY <1>3 DEF PrepPatch, TypeOK
  <2> QED
    BY <1>3, <2>1, <2>2 DEF PrepPatch, TypeOK
<1>4. ASSUME PrepFail PROVE TypeOK'
  <2>1. out' \in Outcomes /\ pc' = "finish"
    BY <1>4, DoneType DEF PrepFail
  <2>2. input' \in BOOLEAN /\ inFresh' \subseteq Holders
    BY <1>4 DEF PrepFail, TypeOK
  <2> QED
    BY <1>4, <2>1, <2>2 DEF PrepFail, TypeOK
<1> QED
  BY <1>1, <1>2, <1>3, <1>4

\* What a completion puts into the mailbox or schedules is a work item.
LEMMA PostType ==
    /\ \A w \in Work : TypeOK /\ PostCatalog(w) =>
         /\ slot' \in Work /\ recovery' = NoWork
         /\ recFresh' \subseteq Holders /\ inFresh' \subseteq Holders
         /\ catalogState' = "queued" /\ pendingRegion' \in Regions \cup {NoRegion}
    /\ TypeOK /\ cur \in Work /\ Reschedule =>
         /\ slot' \in Work \cup {NoWork} /\ recovery' \in Work
         /\ recFresh' \subseteq Holders /\ inFresh' \subseteq Holders
         /\ reconcileReq' \in BOOLEAN
    /\ \A due \in BOOLEAN, cams \in SUBSET Cameras : TypeOK /\ cur \in Work /\ PostOther(due, cams) =>
         /\ slot' \in Work \cup {NoWork} /\ recovery' = recovery
         /\ recFresh' \subseteq Holders /\ inFresh' \subseteq Holders
         /\ reconcileReq' \in BOOLEAN
<1>1. ASSUME TypeOK, NEW w \in Work, PostCatalog(w)
      PROVE  /\ slot' \in Work /\ recovery' = NoWork
             /\ recFresh' \subseteq Holders /\ inFresh' \subseteq Holders
             /\ catalogState' = "queued" /\ pendingRegion' \in Regions \cup {NoRegion}
  BY <1>1, WorkParts DEF PostCatalog, TypeOK, Holders
<1>2. ASSUME TypeOK, cur \in Work, Reschedule
      PROVE  /\ slot' \in Work \cup {NoWork} /\ recovery' \in Work
             /\ recFresh' \subseteq Holders /\ inFresh' \subseteq Holders
             /\ reconcileReq' \in BOOLEAN
  <2>1. [cur EXCEPT !.background = TRUE] \in Work
    BY <1>2 DEF Work, Item
  <2>2. recFresh' \subseteq Holders /\ inFresh' \subseteq Holders
    BY <1>2 DEF Reschedule, Move, TypeOK, Holders
  <2> QED
    BY <1>2, <2>1, <2>2, PlainType DEF Reschedule, TypeOK
<1>3. ASSUME TypeOK, cur \in Work, NEW due \in BOOLEAN, NEW cams \in SUBSET Cameras,
             PostOther(due, cams)
      PROVE  /\ slot' \in Work \cup {NoWork} /\ recovery' = recovery
             /\ recFresh' \subseteq Holders /\ inFresh' \subseteq Holders
             /\ reconcileReq' \in BOOLEAN
  <2>1. \A c \in cams : [Plain("select") EXCEPT !.camera = c, !.region = region,
                                                   !.background = cur.background] \in Work
    BY <1>3, WorkParts DEF TypeOK, Plain, Work, Item, Kinds
  <2>2. slot' \in Work \cup {NoWork} /\ recovery' = recovery
    BY <1>3, <2>1, PlainType DEF PostOther
  <2>3. recFresh' \subseteq Holders /\ inFresh' \subseteq Holders
    BY <1>3 DEF PostOther, Move, TypeOK, Holders
  <2>4. reconcileReq' \in BOOLEAN
    BY <1>3 DEF PostOther, TypeOK
  <2> QED
    BY <2>2, <2>3, <2>4
<1> QED
  BY <1>1, <1>2, <1>3

\* Publishing a completion (service.c:1971-2097) keeps the state well typed.
LEMMA FinishType ==
    ASSUME TypeOK, WorkerHolds,
           FinishStale \/ FinishCatalog \/ FinishRefresh \/ FinishCamera \/ FinishClear \/ RtspReply
    PROVE  TypeOK'
<1> cur \in Work
  BY DEF WorkerHolds, TypeOK, FinishStale, FinishCatalog, FinishRefresh, FinishCamera,
         FinishClear, RtspReply
<1>1. ASSUME FinishStale PROVE TypeOK'
  <2>1. out' \in Outcomes /\ cur' = NoWork
    BY <1>1, OutcomeType DEF FinishStale, Retire
  <2>2. CASE LatestDue(auth)
    <3>1. CatalogRequest(queued) \in Work
      BY <2>2, RequestType DEF LatestDue, TypeOK
    <3> QED
      BY <1>1, <2>1, <2>2, <3>1, PostType DEF FinishStale, TypeOK
  <2>3. CASE ~LatestDue(auth)
    <3>1. recFresh' \subseteq Holders /\ inFresh' \subseteq Holders
      BY <1>1, <2>3 DEF FinishStale, TypeOK
    <3> QED
      BY <1>1, <2>1, <2>3, <3>1 DEF FinishStale, TypeOK
  <2> QED
    BY <2>2, <2>3
<1>2. ASSUME FinishCatalog PROVE TypeOK'
  <2>1. out' \in Outcomes /\ cur' = NoWork /\ queued' = NoRegion /\ auth' \in {auth, "reauth"}
        /\ pc' = "recRead" /\ ret' = "idle"
    BY <1>2, OutcomeType DEF FinishCatalog, Retire, EnterReconcile
  <2>2. PICK retry \in Retries : FinishCatalog!7!(retry)
    BY <1>2 DEF FinishCatalog
  <2>3. CASE LatestDue(auth')
    <3>1. CatalogRequest(queued) \in Work
      BY <2>3, RequestType DEF LatestDue, TypeOK
    <3>2. PostCatalog(CatalogRequest(queued)) /\ UNCHANGED reconcileReq
      BY <2>2, <2>3
    <3>3. /\ slot' \in Work /\ recovery' = NoWork
          /\ recFresh' \subseteq Holders /\ inFresh' \subseteq Holders
          /\ catalogState' = "queued" /\ pendingRegion' \in Regions \cup {NoRegion}
      BY <3>1, <3>2, PostType
    <3> QED
      BY <1>2, <2>1, <3>2, <3>3 DEF FinishCatalog, TypeOK
  <2>4. CASE ~LatestDue(auth')
    <3>1. catalogState' \in {"ready", "retrying", "error"}
      BY <2>2, <2>4
    <3>2. pendingRegion' \in Regions \cup {NoRegion}
      BY <1>2, <2>2, <2>4, WorkParts DEF FinishCatalog, CatalogWork
    <3>3. /\ slot' \in Work \cup {NoWork} /\ recovery' \in Work \cup {NoWork}
          /\ recFresh' \subseteq Holders /\ inFresh' \subseteq Holders
          /\ reconcileReq' \in BOOLEAN
      <4>1. CASE retry
        BY <2>2, <2>4, <4>1, PostType
      <4>2. CASE ~retry
        <5>1. PICK due \in BOOLEAN : PostOther(due, catalog)
          BY <2>2, <2>4, <4>2
        <5> QED
          BY <5>1, PostType DEF TypeOK
      <4> QED
        BY <4>1, <4>2
    <3> QED
      BY <1>2, <2>1, <3>1, <3>2, <3>3 DEF FinishCatalog, TypeOK
  <2> QED
    BY <2>3, <2>4
<1>3. ASSUME FinishRefresh PROVE TypeOK'
  <2>1. out' \in Outcomes /\ cur' = NoWork /\ auth' \in {auth, "retrying", "error"}
        /\ pc' = "recRead" /\ ret' = "idle"
    BY <1>3, OutcomeType DEF FinishRefresh, Retire, EnterReconcile
  <2>2. CatalogRequest(region) \in Work
    BY RequestType DEF TypeOK
  <2>3. /\ slot' \in Work \cup {NoWork} /\ recovery' \in Work \cup {NoWork}
        /\ recFresh' \subseteq Holders /\ inFresh' \subseteq Holders
        /\ reconcileReq' \in BOOLEAN
        /\ catalogState' \in {catalogState, "queued"}
        /\ pendingRegion' \in Regions \cup {NoRegion}
    <3>1. CASE PostCatalog(CatalogRequest(region)) /\ UNCHANGED reconcileReq
      BY <3>1, <2>2, PostType DEF TypeOK
    <3>2. CASE Reschedule /\ UNCHANGED <<catalogState, pendingRegion>>
      BY <3>2, PostType DEF TypeOK
    <3>3. CASE PostOther(FALSE, {}) /\ UNCHANGED <<catalogState, pendingRegion>>
      BY <3>3, PostType DEF TypeOK
    <3> QED
      BY <1>3, <3>1, <3>2, <3>3 DEF FinishRefresh
  <2> QED
    BY <1>3, <2>1, <2>3 DEF FinishRefresh, TypeOK
<1>4. ASSUME PostOther(FALSE, {})
      PROVE  /\ slot' \in Work \cup {NoWork} /\ recovery' = recovery
             /\ recFresh' \subseteq Holders /\ inFresh' \subseteq Holders
             /\ reconcileReq' \in BOOLEAN
  BY <1>4, PostType
<1>5. ASSUME FinishCamera PROVE TypeOK'
  <2>1. out' \in Outcomes /\ cur' = NoWork /\ pc' = "recRead" /\ ret' = "idle"
    BY <1>5, OutcomeType DEF FinishCamera, Retire, EnterReconcile
  <2>2. enabled' \in BOOLEAN
    BY <1>5 DEF FinishCamera, TypeOK
  <2>3. UNCHANGED <<stopRet, rec, failed, cloud, callStopped, authVars, catVars, selected,
                    hostVars, input, aiCancel, aiVars, srcVars, rtspVars, endVars>>
    BY <1>5 DEF FinishCamera
  <2>4. PostOther(FALSE, {})
    BY <1>5 DEF FinishCamera
  <2> QED
    BY <1>4, <2>1, <2>2, <2>3, <2>4 DEF TypeOK
<1>6. ASSUME FinishClear PROVE TypeOK'
  <2>1. out' \in Outcomes /\ cur' = NoWork /\ pc' = "recRead" /\ ret' = "idle"
    BY <1>6, OutcomeType DEF FinishClear, Retire, EnterReconcile
  <2>2. /\ region' \in Regions /\ catalogRegion' \in Regions /\ catalog' \subseteq Cameras
        /\ catalogState' \in {catalogState, "idle"}
        /\ pendingRegion' \in Regions \cup {NoRegion} /\ queued' \in Regions \cup {NoRegion}
        /\ selected' \in Cameras \cup {NoCamera} /\ auth' \in {auth, "error"}
    BY <1>6, ConstantsOK DEF FinishClear, TypeOK
  <2>3. enabled' \in BOOLEAN
    BY <1>6 DEF FinishClear, TypeOK
  <2> QED
    BY <1>4, <1>6, <2>1, <2>2, <2>3 DEF FinishClear, TypeOK
<1>7. ASSUME RtspReply PROVE TypeOK'
  <2>1. out' \in Outcomes /\ cur' = NoWork /\ pc' = "idle"
    BY <1>7, OutcomeType DEF RtspReply, Retire
  <2>2. waiter' \in [Clients -> {"idle", "waiting", "answered"}]
    BY <1>7 DEF RtspReply, TypeOK
  <2> QED
    BY <1>4, <1>7, <2>1, <2>2 DEF RtspReply, TypeOK
<1> QED
  BY <1>1, <1>2, <1>3, <1>5, <1>6, <1>7

\* The routes, the event thread, the cloud thread, the media thread and main()
\* keep the state well typed.
LEMMA OtherType ==
    ASSUME TypeOK,
           \/ CloudDone \/ RouteStep \/ (\E c \in Clients : ClientReturn(c)) \/ HostChange
           \/ EventStep \/ AiThreadExit \/ MainStep \/ Terminated
    PROVE  TypeOK'
<1>0. /\ AuthWithoutRetry \in {auth, "authenticated", "idle"}
      /\ CatalogWithoutRetry \in {catalogState, "error"}
  BY DEF AuthWithoutRetry, CatalogWithoutRetry
<1>1. ASSUME CloudDone PROVE TypeOK'
  BY <1>1 DEF CloudDone, TypeOK
<1>2. ASSUME NEW c \in Cameras, QueueSelect(c) PROVE TypeOK'
  <2>1. slot' \in Work
    BY <1>2 DEF QueueSelect, TypeOK, Plain, Work, Item, Kinds
  <2>2. inFresh' \subseteq Holders /\ recFresh' \subseteq Holders
    BY <1>2 DEF QueueSelect, Advance, TypeOK, Holders
  <2> QED
    BY <1>0, <1>2, <2>1, <2>2 DEF QueueSelect, Advance, TypeOK
<1>3. ASSUME QueueStop PROVE TypeOK'
  <2>1. slot' \in Work
    BY <1>3 DEF QueueStop, TypeOK, Plain, Work, Item, Kinds
  <2> QED
    BY <1>3, <2>1 DEF QueueStop, TypeOK
<1>4. ASSUME NEW r \in Regions, QueueRegion(r) PROVE TypeOK'
  <2>1. CatalogRequest(r) \in Work
    BY RequestType
  <2>2. CASE PostCatalog(CatalogRequest(r)) /\ auth' = AuthWithoutRetry /\ UNCHANGED queued
    BY <1>0, <1>4, <2>1, <2>2, PostType DEF QueueRegion, TypeOK
  <2>3. CASE Advance(AuthWithoutRetry) /\ queued' = r /\ pendingRegion' = r /\ UNCHANGED <<slot, inFresh>>
    BY <1>0, <1>4, <2>3 DEF QueueRegion, Advance, TypeOK
  <2> QED
    BY <1>4, <2>2, <2>3 DEF QueueRegion
<1>5. ASSUME QueueClear PROVE TypeOK'
  <2>1. slot' \in Work
    BY <1>5, PlainType DEF QueueClear
  <2> QED
    BY <1>0, <1>5, <2>1 DEF QueueClear, Advance, TypeOK
<1>6. ASSUME NEW job \in Job, QueueRtsp(job) PROVE TypeOK'
  <2>1. slot' \in Work
    BY <1>6 DEF QueueRtsp, Plain, Work, Item, Kinds
  <2>2. waiter' \in [Clients -> {"idle", "waiting", "answered"}]
    BY <1>6 DEF QueueRtsp, TypeOK
  <2> QED
    BY <1>6, <2>1, <2>2 DEF QueueRtsp, TypeOK
<1>7. ASSUME NEW c \in Clients, ClientReturn(c) PROVE TypeOK'
  <2>1. waiter' \in [Clients -> {"idle", "waiting", "answered"}]
    BY <1>7 DEF ClientReturn, TypeOK
  <2> QED
    BY <1>7, <2>1 DEF ClientReturn, TypeOK
<1>8. ASSUME HostChange PROVE TypeOK'
  <2>1. host' \in BOOLEAN /\ posted' \in BOOLEAN
    BY <1>8 DEF HostChange
  <2> QED
    BY <1>8, <2>1 DEF HostChange, TypeOK
<1>9. ASSUME EventRead PROVE TypeOK'
  <2>1. seen' \in {"none", "bitstream", "other"} /\ posted' \in BOOLEAN
    BY <1>9 DEF EventRead
  <2> QED
    BY <1>9, <2>1 DEF EventRead, TypeOK
<1>10. ASSUME EventApply PROVE TypeOK'
  <2>1. /\ input' \in BOOLEAN /\ aiCancel' \in BOOLEAN /\ ownerStop' \in BOOLEAN
        /\ reconcileReq' \in BOOLEAN
    BY <1>10 DEF EventApply, TypeOK
  <2>2. seen' = "none" /\ inFresh' \subseteq Holders /\ slot' \in Work \cup {NoWork}
    BY <1>10, PlainType DEF EventApply, TypeOK
  <2> QED
    BY <1>10, <2>1, <2>2 DEF EventApply, TypeOK
<1>11. ASSUME AiThreadExit PROVE TypeOK'
  <2>1. aiRun' \in BOOLEAN
    BY <1>11 DEF AiThreadExit
  <2> QED
    BY <1>11, <2>1 DEF AiThreadExit, TypeOK
<1>12. ASSUME CloseServe PROVE TypeOK'
  BY <1>12 DEF CloseServe, TypeOK
<1>13. ASSUME StopService PROVE TypeOK'
  <2>1. aiCancel' \in BOOLEAN /\ ownerStop' \in BOOLEAN /\ stopping' \in BOOLEAN
    BY <1>13 DEF StopService
  <2> QED
    BY <1>0, <1>13, <2>1 DEF StopService, Advance, TypeOK
<1>14. ASSUME Shutdown PROVE TypeOK'
  <2>1. demand' \in BOOLEAN /\ aiRun' \in BOOLEAN /\ ownerStop' \in BOOLEAN
    BY <1>14 DEF Shutdown, TypeOK
  <2> QED
    BY <1>14, <2>1 DEF Shutdown, TypeOK
<1>15. ASSUME Destroy PROVE TypeOK'
  BY <1>15 DEF Destroy, TypeOK
<1>16. ASSUME Terminated PROVE TypeOK'
  BY <1>16 DEF Terminated, TypeOK
<1> QED
  BY <1>1, <1>2, <1>3, <1>4, <1>5, <1>6, <1>7, <1>8, <1>9, <1>10, <1>11, <1>12, <1>13, <1>14,
     <1>15, <1>16 DEF RouteStep, RtspJobs, EventStep, MainStep

\* The worker's place and its work item agree after every step.
LEMMA HoldsStep ==
    ASSUME TypeOK, WorkerHolds, Next
    PROVE  WorkerHolds'
<1> USE Distinct DEF WorkerHolds, InReconcile, InSourceStop, Preparing, TypeOK
<1>1. ASSUME RecRead PROVE WorkerHolds'
  BY <1>1 DEF RecRead
<1>2. ASSUME SrcDetach PROVE WorkerHolds'
  BY <1>2 DEF SrcDetach
<1>3. ASSUME SrcRelease PROVE WorkerHolds'
  BY <1>3 DEF SrcRelease, AfterRelease, ReturnWith
<1>4. ASSUME RecSet PROVE WorkerHolds'
  BY <1>4 DEF RecSet
<1>5. ASSUME RecDemand PROVE WorkerHolds'
  BY <1>5 DEF RecDemand
<1>6. ASSUME RecAttach PROVE WorkerHolds'
  BY <1>6 DEF RecAttach, ReturnWith
<1>7. ASSUME RecStart PROVE WorkerHolds'
  BY <1>7 DEF RecStart
<1>8. ASSUME RecRecheck PROVE WorkerHolds'
  BY <1>8 DEF RecRecheck, ReturnWith
<1>9. ASSUME Take PROVE WorkerHolds'
  BY <1>9 DEF Take
<1>10. ASSUME Promote PROVE WorkerHolds'
  BY <1>10 DEF Promote
<1>11. ASSUME Exit PROVE WorkerHolds'
  BY <1>11 DEF Exit
<1>12. ASSUME StartCall PROVE WorkerHolds'
  BY <1>12 DEF StartCall
<1>13. ASSUME NoBody PROVE WorkerHolds'
  BY <1>13 DEF NoBody, Succeed, Done
<1>14. ASSUME SelectCommit PROVE WorkerHolds'
  BY <1>14 DEF SelectCommit, Succeed, Fail, Done
<1>15. ASSUME StopBody PROVE WorkerHolds'
  BY <1>15 DEF StopBody, Succeed, Fail, Done
<1>16. ASSUME ClearBegin PROVE WorkerHolds'
  BY <1>16 DEF ClearBegin
<1>17. ASSUME ClearReset PROVE WorkerHolds'
  BY <1>17 DEF ClearReset, Fail, Done
<1>18. ASSUME RtspBegin PROVE WorkerHolds'
  BY <1>18 DEF RtspBegin
<1>19. ASSUME RtspRoute PROVE WorkerHolds'
  BY <1>19 DEF RtspRoute, EnterReconcile
<1>20. ASSUME RtspReply PROVE WorkerHolds'
  BY <1>20 DEF RtspReply, Retire, PostOther
<1>21. ASSUME CallReconcile PROVE WorkerHolds'
  BY <1>21 DEF CallReconcile, EnterReconcile
<1>22. ASSUME RefreshApply PROVE WorkerHolds'
  BY <1>22 DEF RefreshApply, CallEnd, CallFails, Succeed, Fail, Done
<1>23. ASSUME ListApply PROVE WorkerHolds'
  BY <1>23 DEF ListApply, CallEnd, CallFails, Superseded, Fail, Done
<1>24. ASSUME RegionCommit PROVE WorkerHolds'
  BY <1>24 DEF RegionCommit, CallEnd, CallFails, Superseded, Fail, Done
<1>25. ASSUME ClearApply PROVE WorkerHolds'
  BY <1>25 DEF ClearApply, CallEnd, CallFails, Succeed, Fail, Done
<1>26. ASSUME PrepRead PROVE WorkerHolds'
  BY <1>26 DEF PrepRead, Succeed, Done
<1>27. ASSUME PrepGuard PROVE WorkerHolds'
  BY <1>27 DEF PrepGuard
<1>28. ASSUME PrepPatch PROVE WorkerHolds'
  BY <1>28 DEF PrepPatch, Succeed, Done
<1>29. ASSUME PrepFail PROVE WorkerHolds'
  BY <1>29 DEF PrepFail, Fail, Done
<1>30. ASSUME FinishStale PROVE WorkerHolds'
  BY <1>30 DEF FinishStale, Retire
<1>31. ASSUME FinishCatalog PROVE WorkerHolds'
  BY <1>31 DEF FinishCatalog, Retire, EnterReconcile
<1>32. ASSUME FinishRefresh PROVE WorkerHolds'
  BY <1>32 DEF FinishRefresh, Retire, EnterReconcile
<1>33. ASSUME FinishCamera PROVE WorkerHolds'
  BY <1>33 DEF FinishCamera, Retire, EnterReconcile
<1>34. ASSUME FinishClear PROVE WorkerHolds'
  BY <1>34 DEF FinishClear, Retire, EnterReconcile
<1>35. ASSUME CloudDone PROVE WorkerHolds'
  BY <1>35 DEF CloudDone
<1>36. ASSUME \E c \in Cameras : QueueSelect(c) PROVE WorkerHolds'
  BY <1>36 DEF QueueSelect, Serving, Busy
<1>37. ASSUME QueueStop PROVE WorkerHolds'
  BY <1>37 DEF QueueStop, Serving, Busy
<1>38. ASSUME \E r \in Regions : QueueRegion(r) PROVE WorkerHolds'
  BY <1>38 DEF QueueRegion, Serving, PostCatalog, Advance, Busy
<1>39. ASSUME QueueClear PROVE WorkerHolds'
  BY <1>39 DEF QueueClear, Serving, Busy
<1>40. ASSUME \E j \in RtspJobs : QueueRtsp(j) PROVE WorkerHolds'
  BY <1>40 DEF QueueRtsp, Serving, Busy
<1>41. ASSUME \E c \in Clients : ClientReturn(c) PROVE WorkerHolds'
  BY <1>41 DEF ClientReturn
<1>42. ASSUME HostChange PROVE WorkerHolds'
  BY <1>42 DEF HostChange
<1>43. ASSUME EventRead PROVE WorkerHolds'
  BY <1>43 DEF EventRead
<1>44. ASSUME EventApply PROVE WorkerHolds'
  BY <1>44 DEF EventApply
<1>45. ASSUME AiThreadExit PROVE WorkerHolds'
  BY <1>45 DEF AiThreadExit
<1>46. ASSUME CloseServe PROVE WorkerHolds'
  BY <1>46 DEF CloseServe
<1>47. ASSUME StopService PROVE WorkerHolds'
  BY <1>47 DEF StopService
<1>48. ASSUME Shutdown PROVE WorkerHolds'
  BY <1>48 DEF Shutdown
<1>49. ASSUME Destroy PROVE WorkerHolds'
  BY <1>49 DEF Destroy
<1>50. ASSUME Terminated PROVE WorkerHolds'
  BY <1>50 DEF Terminated
<1> QED
  BY <1>1, <1>2, <1>3, <1>4, <1>5, <1>6, <1>7, <1>8, <1>9, <1>10, <1>11, <1>12, <1>13,
     <1>14, <1>15, <1>16, <1>17, <1>18, <1>19, <1>20, <1>21, <1>22, <1>23, <1>24, <1>25,
     <1>26, <1>27, <1>28, <1>29, <1>30, <1>31, <1>32, <1>33, <1>34, <1>35, <1>36, <1>37,
     <1>38, <1>39, <1>40, <1>41, <1>42, <1>43, <1>44, <1>45, <1>46, <1>47, <1>48, <1>49,
     <1>50
  DEF Next, WorkerStep, ReconcileStep, RouteStep, EventStep, MainStep
-----------------------------------------------------------------------------
TypeInv == TypeOK /\ WorkerHolds

\* The type invariant and the worker's hold on its work item are true at the start.
LEMMA InitInv == Init => TypeInv
<1> SUFFICES ASSUME Init PROVE TypeInv
  OBVIOUS
<1>1. slot \in Work /\ out \in Outcomes /\ rec \in Locals /\ cur = NoWork /\ recovery = NoWork
  BY PlainType, OutcomeType, NoLocalsType DEF Init
<1>2. region \in Regions
  BY ConstantsOK DEF Init
<1>3. /\ rtspOn \in BOOLEAN /\ audioOn \in BOOLEAN /\ input \in BOOLEAN /\ host \in BOOLEAN
      /\ reconcileReq \in BOOLEAN
  BY DEF Init
<1>4. waiter \in [Clients -> {"idle", "waiting", "answered"}]
  BY DEF Init
<1>5. TypeOK
  BY <1>1, <1>2, <1>3, <1>4 DEF Init, TypeOK, Holders
<1>6. WorkerHolds
  BY <1>1 DEF Init, WorkerHolds, InReconcile, InSourceStop, Preparing
<1> QED
  BY <1>5, <1>6 DEF TypeInv

\* Every step keeps the type invariant together with the worker's hold on its
\* work item: the type of a step that reads the item needs that there is one.
LEMMA StepInv == TypeInv /\ [Next]_vars => TypeInv'
<1> SUFFICES ASSUME TypeInv, [Next]_vars PROVE TypeInv'
  OBVIOUS
<1>1. CASE UNCHANGED vars
  BY <1>1 DEF TypeInv, TypeOK, WorkerHolds, InReconcile, InSourceStop, Preparing
<1>2. CASE Next
  <2>1. TypeOK'
    BY <1>2, ReconcileType, BodyType, CallType, PrepareType, FinishType, OtherType
    DEF Next, WorkerStep, TypeInv
  <2>2. WorkerHolds'
    BY <1>2, HoldsStep DEF TypeInv
  <2> QED
    BY <2>1, <2>2 DEF TypeInv
<1> QED
  BY <1>1, <1>2

\* The type invariant with its strengthening, for every later proof to use.
LEMMA TypeInvariant == Spec => []TypeInv
  BY InitInv, StepInv, PTL DEF Spec

\* The state of struct xc_service and of its threads always has its type, for
\* every set of cameras, regions and clients and whichever calls may fail: no
\* step of the worker reads a work item that is not there or not of its kind.
THEOREM TypeCorrect == Spec => []TypeOK
<1>1. TypeInv => TypeOK
  BY DEF TypeInv
<1> QED
  BY <1>1, TypeInvariant, PTL
=============================================================================
