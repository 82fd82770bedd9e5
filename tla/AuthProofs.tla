----------------------------- MODULE AuthProofs -----------------------------
(***************************************************************************)
(* The phone login for every ring of operation ids, every number of         *)
(* requests and every fault: RingInv finds each remembered id in the ring,  *)
(* PassInv tells which operation a cancellation is about, TruthInv who may   *)
(* still change what the sidecar has and what the page shows of it, and     *)
(* PassLeft how far a pass is from its end.                                 *)
(***************************************************************************)
EXTENDS Auth, TLAPS

USE DEF passVars, ringVars, cancelVars, stateVars, sideVars, vars

\* The next place of the ring, without the division.
LEMMA NextPlace ==
    ASSUME NEW n \in 0..(Ring - 1)
    PROVE  (n + 1) % Ring = IF n + 1 = Ring THEN 0 ELSE n + 1
<1>1. Ring \in Nat /\ Ring > 0
  BY RingOK
<1>2. CASE n + 1 = Ring
  BY <1>1, <1>2, Z3
<1>3. CASE n + 1 # Ring
  <2>1. n + 1 \in Nat /\ n + 1 < Ring
    BY <1>1, <1>3
  <2> QED
    BY <1>1, <2>1
<1> QED
  BY <1>2, <1>3

\* Where an id that was recorded since[id] ids ago is.
Place(id) == IF next > since[id] THEN next - 1 - since[id] ELSE Ring + next - 1 - since[id]

\* Every id that is still remembered is where its age says.
RingInv ==
    /\ next \in 0..(Ring - 1)
    /\ cache \in [0..(Ring - 1) -> Ids \cup {NoId}]
    /\ since \in [Ids -> 0..Ring]
    /\ \A id \in Ids : since[id] < Ring => cache[Place(id)] = id

\* Recording an id moves every other one a place further, and drops the oldest.
LEMMA RecordInv ==
    ASSUME RingInv, NEW k \in Ids, Record(k)
    PROVE  RingInv'
<1>1. Ring \in Nat /\ Ring > 0
  BY RingOK
<1>2. next' = IF next + 1 = Ring THEN 0 ELSE next + 1
  BY NextPlace DEF Record, RingInv
<1>3. next' \in 0..(Ring - 1)
  BY <1>1, <1>2 DEF RingInv
<1>4. since' \in [Ids -> 0..Ring]
  BY <1>1 DEF Record, RingInv
<1>5. cache' \in [0..(Ring - 1) -> Ids \cup {NoId}]
  BY DEF Record, RingInv
<1>6. ASSUME NEW id \in Ids, since'[id] < Ring PROVE cache'[Place(id)'] = id
  <2>1. CASE id = k
    <3>1. since'[id] = 0
      BY <2>1, <1>1 DEF Record
    <3>2. Place(id)' = next
      BY <3>1, <1>1, <1>2 DEF RingInv, Place
    <3> QED
      BY <3>2, <2>1 DEF Record, RingInv
  <2>2. CASE id # k
    <3>1. since[id] < Ring /\ since'[id] = since[id] + 1 /\ since[id] \in Nat
      BY <1>6, <2>2, <1>1 DEF Record, RingInv
    <3>2. Place(id)' = Place(id)
      BY <3>1, <1>6, <1>1, <1>2 DEF RingInv, Place
    <3>3. Place(id) # next
      BY <3>1, <1>6, <1>1 DEF RingInv, Place
    <3> QED
      BY <3>1, <3>2, <3>3 DEF Record, RingInv
  <2> QED
    BY <2>1, <2>2
<1> QED
  BY <1>3, <1>4, <1>5, <1>6 DEF RingInv

\* Only a request records an id, and nothing else touches the ring.
LEMMA RingSteps ==
    ASSUME [Next]_vars
    PROVE  \/ UNCHANGED ringVars
           \/ \E id \in Ids : ~Cached(id) /\ Record(id)
<1>1. ASSUME NEW k \in AuthKinds, NEW id \in Ids, Request(k, id)
      PROVE  ~Cached(id) /\ Record(id)
  BY <1>1 DEF Request, CancelRunning, Accept
<1>2. CASE OtherRequest \/ NewerRegion \/ Stop \/ WindowEnds \/ SessionExpires
  BY <1>2 DEF OtherRequest, NewerRegion, RecordOther, Stop, WindowEnds, SessionExpires
<1>3. CASE SidecarStep
  BY <1>3 DEF SidecarStep, Serve, Lose
<1>4. CASE WorkerStep
  BY <1>4 DEF WorkerStep, Promote, Take, Tell, Told, Return, Apply, ClearReset, RevokeReset,
              CancelReset, Cancelled, CancelEnd, End, OtherEnd, Exit
<1>5. CASE Terminated \/ UNCHANGED vars
  BY <1>5 DEF Terminated
<1> QED
  BY <1>1, <1>2, <1>3, <1>4, <1>5 DEF Next

\* An id that was recorded less than Ring ids ago is in the ring.
LEMMA RingInvariant == Spec => []RingInv
<1>1. Init => RingInv
  BY RingOK DEF Init, RingInv
<1>2. RingInv /\ [Next]_vars => RingInv'
  <2> SUFFICES ASSUME RingInv, [Next]_vars PROVE RingInv'
    OBVIOUS
  <2>1. CASE UNCHANGED ringVars
    BY <2>1 DEF RingInv, Place
  <2>2. ASSUME NEW id \in Ids, Record(id) PROVE RingInv'
    BY <2>2, RecordInv
  <2> QED
    BY <2>1, <2>2, RingSteps
<1> QED
  BY <1>1, <1>2, PTL DEF Spec

\* xc_operation_record_locked and xc_operation_cached_locked (service.c:264-285):
\* an id is forgotten for Ring newer ones, and executed at most once until then.
THEOREM RepeatsRecognised == Spec => RepeatRecognised
<1>1. RingInv /\ [Next]_vars =>
        [\A id \in Ids :
           (since'[id] = 0 /\ <<cache, next>>' # <<cache, next>>) => since[id] = Ring]_vars
  <2> SUFFICES ASSUME RingInv, [Next]_vars, NEW id \in Ids,
                      since'[id] = 0, <<cache, next>>' # <<cache, next>>
               PROVE  since[id] = Ring
    OBVIOUS
  <2>1. PICK k \in Ids : ~Cached(k) /\ Record(k)
    BY RingSteps
  <2>2. Ring \in Nat /\ Ring > 0
    BY RingOK
  <2>3. k = id
    BY <2>1, <2>2 DEF Record, RingInv
  <2>4. ASSUME since[id] < Ring PROVE FALSE
    <3>1. cache[Place(id)] = id /\ Place(id) \in 0..(Ring - 1)
      BY <2>2, <2>4 DEF RingInv, Place
    <3> QED
      BY <3>1, <2>1, <2>3 DEF Cached
  <2> QED
    BY <2>2, <2>4 DEF RingInv
<1> QED
  BY <1>1, RingInvariant, PTL DEF Spec, RepeatRecognised

\* What the worker and the mailbox hold while a cancellation waits.
PassInv ==
    /\ slot \in AuthKinds \cup {"none", "other"} /\ cur \in AuthKinds \cup {"none", "other"}
    /\ slot = "none" \/ cur = "none"
    /\ cur = "none" <=> pc \in {"idle", "exited"}
    /\ cur = "other" <=> pc = "other"
    /\ CancelOwned

\* Every step keeps it.
LEMMA PassInvStep ==
    ASSUME PassInv, [Next]_vars
    PROVE  PassInv'
<1> USE DEF PassInv, CancelOwned, Login, AuthKinds
<1>1. ASSUME NEW k \in AuthKinds \ {"refresh"}, NEW id \in Ids, Request(k, id)
      PROVE  PassInv'
  BY <1>1 DEF Request, CancelRunning, Accept, Busy, BusyKind
<1>2. CASE OtherRequest \/ NewerRegion \/ WindowEnds \/ SessionExpires
  BY <1>2 DEF OtherRequest, NewerRegion, WindowEnds, SessionExpires, Busy
<1>3. CASE Stop
  BY <1>3 DEF Stop, BusyKind
<1>4. CASE SidecarStep
  BY <1>4 DEF SidecarStep, Serve, Lose
<1>5. CASE Promote \/ Take \/ Tell \/ Told \/ Return
  BY <1>5 DEF Promote, Take, Tell, Told, Return
<1>6. CASE Apply
  BY <1>6 DEF Apply, ApplyChallenge, ApplyRefused, ApplyError, ApplyPhone, ApplyAccounts,
              Accounts
<1>7. CASE ClearReset \/ RevokeReset \/ CancelReset \/ Cancelled
  BY <1>7 DEF ClearReset, RevokeReset, CancelReset, Cancelled, CancelDue
<1>8. CASE CancelEnd \/ End \/ OtherEnd \/ Exit
  <2>1. CASE CancelEnd
    BY <2>1 DEF CancelEnd, Finish
  <2>2. CASE End
    <3>1. ~cancelReq /\ cancelReq' = cancelReq
      BY <2>2 DEF End, CancelDue
    <3>2. slot' \in {slot, "none", "other"} /\ cur' = "none" /\ pc' = "idle"
      BY <2>2 DEF End, Succeeded, Failed, Finish
    <3> QED
      BY <3>1, <3>2
  <2>3. CASE OtherEnd \/ Exit
    BY <2>3 DEF OtherEnd, Exit, Finish
  <2> QED
    BY <1>8, <2>1, <2>2, <2>3
<1>9. CASE Terminated \/ UNCHANGED vars
  BY <1>9 DEF Terminated
<1> QED
  BY <1>1, <1>2, <1>3, <1>4, <1>5, <1>6, <1>7, <1>8, <1>9 DEF Next, WorkerStep

\* It always holds.
LEMMA PassInvariant == Spec => []PassInv
<1>1. Init => PassInv
  BY DEF Init, PassInv, CancelOwned, AuthKinds, Login
<1> QED
  BY <1>1, PassInvStep, PTL DEF Spec

\* xc_queue_auth, xc_service_stop and the end of a pass (service.c:1941-1970,
\* 2354-2369, 2854-2861): a cancellation never outlives its login.
THEOREM CancellationOwned == Spec => []CancelOwned
<1>1. PassInv => CancelOwned
  BY DEF PassInv
<1> QED
  BY <1>1, PassInvariant, PTL

-----------------------------------------------------------------------------
(* What the user sees of the login is true *)

Requests == Login \cup {"cancel", "tell", "accounts"}

TruthType ==
    /\ flight \subseteq [req : Requests, late : BOOLEAN]
    /\ session \in BOOLEAN /\ token \in BOOLEAN /\ up \in {"up", "down", "stuck"}

\* No login is left in the sidecar; when the worker waits for an answer, or
\* still has one to act on; the request it waits for.
NoLogin == \A m \in flight : m.req \notin Login
Asking == {"call", "tell"}
Calling == Asking \cup {"apply", "revoke", "revokeReset", "clearReset"}
Ours(m) == ~m.late /\ m.req # "tell"

\* The pass: its request is in the sidecar until its call has an answer.
CallInv ==
    /\ \A m \in flight : Ours(m) =>
         /\ pc \in Asking /\ answer = "none"
         /\ m.req \in {cur, "accounts"}
    /\ \A m, n \in flight : Ours(m) /\ Ours(n) => m = n
    /\ answer # "none" => pc \in Asking \cup {"apply"}
    /\ answer \in {"challenge", "refused", "authenticated"} => cur \in Login
    /\ pc = "clearReset" => cur = "clear"
    /\ pc \in {"revoke", "revokeReset"} => cur \in Login
    /\ slot \in Login \/ auth = "sms_required" => ~account
    /\ cur \in Login /\ pc # "end" => ~account
    /\ slot \in AuthKinds \ {"refresh"} => auth = "working" /\ ~retry
    /\ cur \in AuthKinds \ {"refresh"} => ~retry
    /\ cur \in AuthKinds \ {"refresh"} /\ pc \in Calling => auth = "working"

\* The sidecar: a challenge and an account exclude each other, and a refresh
\* is only tried again while no login was ever asked for.
SideInv ==
    /\ session => ~token
    /\ retry \/ slot = "refresh" \/ cur = "refresh" => ~session /\ NoLogin
    /\ answer = "listed" => token
    /\ pc = "cancelEnd" /\ out = "ok" => ~token /\ ~session /\ flight = {}

\* The page is told the truth while the plugin serves and its sidecar can be
\* stopped when needed.
Trusted == ~stopping /\ up # "stuck"

\* A login the sidecar still has is the pass's own, or will be revoked.
LateInv ==
    \A m \in flight : m.req \in Login =>
        /\ m.req = cur /\ auth = "working"
        /\ \/ pc \in Asking /\ answer = IF m.late THEN "broken" ELSE "none"
           \/ pc = "apply" /\ answer = "broken"
           \/ pc \in {"revoke", "revokeReset"}
           \/ pc \in {"end", "cancelReset"} /\ cancelReq

\* An answer the worker has not applied yet still describes the sidecar.
AnswerInv ==
    /\ answer \in {"challenge", "refused", "empty"} => ~token
    /\ cur \in {"refresh", "cancel", "clear"}
       /\ (Sent("accounts") \in flight \/ answer \in {"idle", "empty"}) => ~session

\* What the page shows, except while a cancelled login is being undone; until
\* the first list of accounts "idle" only means that nothing was asked for yet.
ShownInv ==
    pc \notin {"cancelReset", "cancelEnd"} =>
        /\ auth = "idle" =>
             /\ ~account
             /\ \/ slot = "refresh" \/ (cur = "refresh" /\ out # "ok")
                \/ ~token /\ ~session /\ NoLogin
        /\ auth = "sms_required" => challenge /\ ~token /\ NoLogin
        /\ auth = "authenticated" => account /\ token

\* The inductive invariant behind AuthTruth.
TruthInv ==
    /\ TruthType /\ CallInv /\ SideInv
    /\ Trusted => LateInv /\ AnswerInv /\ ShownInv

\* A new request has its type.
LEMMA SendType ==
    ASSUME TruthType, NEW r \in Requests, Send(r)
    PROVE  TruthType'
<1>1. Sent(r) \in [req : Requests, late : BOOLEAN]
  BY DEF Sent
<1> QED
  BY <1>1 DEF Send, TruthType

\* Steps that send nothing to the sidecar.
LEMMA TruthPassive ==
    ASSUME PassInv, TruthInv, OtherRequest \/ NewerRegion \/ Stop \/ WindowEnds \/ SessionExpires
           \/ Promote \/ Told \/ Return \/ Cancelled \/ CancelEnd \/ End \/ OtherEnd \/ Exit
    PROVE  TruthInv'
<1> USE DEF PassInv, CancelOwned, TruthInv, Trusted, TruthType, NoLogin, Asking, Calling,
            Ours, Login, AuthKinds, Requests, Sent
<1>1. CASE OtherRequest \/ NewerRegion
  BY <1>1 DEF CallInv, SideInv, LateInv, AnswerInv, ShownInv, OtherRequest, NewerRegion, Busy
<1>2. CASE Stop
  BY <1>2 DEF CallInv, SideInv, LateInv, AnswerInv, ShownInv, Stop, BusyKind
<1>3. CASE WindowEnds
  BY <1>3 DEF CallInv, SideInv, LateInv, AnswerInv, ShownInv, WindowEnds
<1>4. CASE SessionExpires
  <2>1. TruthType'
    BY <1>4 DEF SessionExpires
  <2>2. CallInv'
    BY <1>4 DEF CallInv, SessionExpires
  <2>3. SideInv'
    BY <1>4 DEF CallInv, SideInv, SessionExpires
  <2>4. Trusted' => LateInv'
    BY <1>4 DEF CallInv, SideInv, LateInv, SessionExpires
  <2>5. Trusted' => AnswerInv'
    BY <1>4 DEF CallInv, SideInv, LateInv, AnswerInv, SessionExpires
  <2>6. Trusted' => ShownInv'
    BY <1>4 DEF CallInv, SideInv, LateInv, AnswerInv, ShownInv, SessionExpires
  <2> QED
    BY <2>1, <2>2, <2>3, <2>4, <2>5, <2>6 DEF TruthInv
<1>5. CASE Promote
  BY <1>5 DEF CallInv, SideInv, LateInv, AnswerInv, ShownInv, Promote
<1>6. CASE Told
  BY <1>6 DEF CallInv, SideInv, LateInv, AnswerInv, ShownInv, Told
<1>7. CASE Return
  BY <1>7 DEF CallInv, SideInv, LateInv, AnswerInv, ShownInv, Return
<1>8. CASE Cancelled
  BY <1>8 DEF CallInv, SideInv, LateInv, AnswerInv, ShownInv, Cancelled, CancelDue
<1>9. CASE CancelEnd
  BY <1>9 DEF CallInv, SideInv, LateInv, AnswerInv, ShownInv, CancelEnd, Finish
<1>10. CASE End
  <2>1. TruthType'
    BY <1>10 DEF End, CancelDue, Succeeded, Failed, Finish
  <2>2. CallInv'
    BY <1>10 DEF CallInv, End, CancelDue, Succeeded, Failed, Finish
  <2>3. SideInv'
    BY <1>10 DEF CallInv, SideInv, End, CancelDue, Succeeded, Failed, Finish
  <2>4. Trusted' => LateInv'
    BY <1>10 DEF CallInv, SideInv, LateInv, End, CancelDue, Succeeded, Failed, Finish
  <2>5. Trusted' => AnswerInv'
    BY <1>10 DEF CallInv, SideInv, LateInv, AnswerInv, End, CancelDue, Succeeded, Failed,
                 Finish
  <2>6. Trusted' => ShownInv'
    <3>1. CASE Succeeded
      BY <1>10, <3>1 DEF CallInv, SideInv, ShownInv, End, Succeeded, Finish
    <3>2. CASE Failed
      BY <1>10, <3>2 DEF CallInv, SideInv, ShownInv, End, Failed, Finish
    <3> QED
      BY <1>10, <3>1, <3>2 DEF End
  <2> QED
    BY <2>1, <2>2, <2>3, <2>4, <2>5, <2>6 DEF TruthInv
<1>11. CASE OtherEnd
  BY <1>11 DEF CallInv, SideInv, LateInv, AnswerInv, ShownInv, OtherEnd, Finish
<1>12. CASE Exit
  BY <1>12 DEF CallInv, SideInv, LateInv, AnswerInv, ShownInv, Exit
<1> QED
  BY <1>1, <1>2, <1>3, <1>4, <1>5, <1>6, <1>7, <1>8, <1>9, <1>10, <1>11, <1>12

\* The worker sends a request or replaces the sidecar.
LEMMA TruthSends ==
    ASSUME PassInv, TruthInv, Take \/ Tell \/ ClearReset \/ RevokeReset \/ CancelReset
    PROVE  TruthInv'
<1> USE DEF PassInv, CancelOwned, TruthInv, Trusted, TruthType, NoLogin, Asking, Calling,
            Ours, Login, AuthKinds, Requests, Sent
<1>1. CASE Take
  BY <1>1, SendType DEF CallInv, SideInv, LateInv, AnswerInv, ShownInv, Take, Send,
                        RequestOf
<1>2. CASE Tell
  BY <1>2, SendType DEF CallInv, SideInv, LateInv, AnswerInv, ShownInv, Tell, Send
<1>3. CASE ClearReset
  <2>1. TruthType'
    <3>1. Sent("accounts") \in [req : Requests, late : BOOLEAN]
      OBVIOUS
    <3>2. flight' \in {flight, {}, {Sent("accounts")}}
      BY <1>3 DEF ClearReset, NotReplaced
    <3>3. /\ session' \in {session, FALSE} /\ token' \in {token, FALSE}
          /\ up' \in {"up", "down", "stuck"}
      BY <1>3 DEF ClearReset, NotReplaced
    <3> QED
      BY <3>1, <3>2, <3>3
  <2>2. CallInv'
    <3>1. \A m \in flight : ~Ours(m)
      BY <1>3 DEF CallInv, ClearReset
    <3>2. \A m \in flight' : Ours(m) => pc' = "call" /\ m = Sent("accounts")
      BY <1>3, <3>1 DEF ClearReset, NotReplaced
    <3>3. answer' = "none"
      BY <1>3 DEF CallInv, ClearReset, NotReplaced
    <3>4. \A m \in flight' : Ours(m) => m.req \in {cur', "accounts"}
      BY <1>3, <3>2 DEF ClearReset, NotReplaced
    <3>5. \A m, n \in flight' : Ours(m) /\ Ours(n) => m = n
      BY <3>2
    <3>6. pc' \in {"call", "end"}
      BY <1>3 DEF ClearReset, NotReplaced
    <3> QED
      BY <1>3, <3>2, <3>3, <3>4, <3>5, <3>6 DEF CallInv, ClearReset
  <2>3. SideInv'
    BY <1>3 DEF CallInv, SideInv, ClearReset, NotReplaced
  <2>4. Trusted' => LateInv'
    BY <1>3 DEF CallInv, SideInv, LateInv, ClearReset, NotReplaced
  <2>5. Trusted' => AnswerInv'
    BY <1>3 DEF CallInv, SideInv, LateInv, AnswerInv, ClearReset, NotReplaced
  <2>6. Trusted' => ShownInv'
    BY <1>3 DEF CallInv, SideInv, LateInv, AnswerInv, ShownInv, ClearReset, NotReplaced
  <2> QED
    BY <2>1, <2>2, <2>3, <2>4, <2>5, <2>6 DEF TruthInv
<1>4. CASE RevokeReset
  <2>1. TruthType'
    BY <1>4 DEF RevokeReset, Replaced, NotReplaced
  <2>2. CallInv'
    BY <1>4 DEF CallInv, RevokeReset, Replaced, NotReplaced
  <2>3. SideInv'
    BY <1>4 DEF CallInv, SideInv, RevokeReset, Replaced, NotReplaced
  <2>4. Trusted' => LateInv'
    BY <1>4 DEF CallInv, SideInv, LateInv, RevokeReset, Replaced, NotReplaced
  <2>5. Trusted' => AnswerInv'
    BY <1>4 DEF CallInv, SideInv, LateInv, AnswerInv, RevokeReset, Replaced, NotReplaced
  <2>6. Trusted' => ShownInv'
    BY <1>4 DEF CallInv, SideInv, LateInv, AnswerInv, ShownInv, RevokeReset, Replaced,
                NotReplaced
  <2> QED
    BY <2>1, <2>2, <2>3, <2>4, <2>5, <2>6 DEF TruthInv
<1>5. CASE CancelReset
  <2>1. TruthType'
    BY <1>5 DEF CancelReset, Replaced, NotReplaced
  <2>2. CallInv'
    BY <1>5 DEF CallInv, CancelReset, Replaced, NotReplaced
  <2>3. SideInv'
    BY <1>5 DEF CallInv, SideInv, CancelReset, Replaced, NotReplaced
  <2>4. Trusted' => LateInv'
    BY <1>5 DEF CallInv, SideInv, LateInv, CancelReset, Replaced, NotReplaced
  <2>5. Trusted' => AnswerInv'
    BY <1>5 DEF CallInv, SideInv, LateInv, AnswerInv, CancelReset, Replaced, NotReplaced
  <2>6. Trusted' => ShownInv'
    BY <1>5 DEF CallInv, SideInv, LateInv, AnswerInv, ShownInv, CancelReset, Replaced,
                NotReplaced
  <2> QED
    BY <2>1, <2>2, <2>3, <2>4, <2>5, <2>6 DEF TruthInv
<1> QED
  BY <1>1, <1>2, <1>3, <1>4, <1>5

\* An answer is applied.
LEMMA TruthApplies ==
    ASSUME PassInv, TruthInv, Apply
    PROVE  TruthInv'
<1> USE DEF PassInv, CancelOwned, TruthInv, Trusted, TruthType, NoLogin, Asking, Calling,
            Ours, Login, AuthKinds, Requests, Sent
<1>1. CASE Apply /\ ApplyChallenge
  BY <1>1 DEF CallInv, SideInv, LateInv, AnswerInv, ShownInv, Apply, ApplyChallenge
<1>2. CASE Apply /\ ApplyRefused
  BY <1>2 DEF CallInv, SideInv, LateInv, AnswerInv, ShownInv, Apply, ApplyRefused
<1>3. CASE Apply /\ ApplyError
  BY <1>3, SendType DEF CallInv, SideInv, LateInv, AnswerInv, ShownInv, Apply, ApplyError,
                        Send
<1>4. CASE Apply /\ ApplyPhone
  BY <1>4, SendType DEF CallInv, SideInv, LateInv, AnswerInv, ShownInv, Apply, ApplyPhone,
                        Send
<1>5. CASE Apply /\ ApplyAccounts
  BY <1>5, SendType DEF CallInv, SideInv, LateInv, AnswerInv, ShownInv, Apply,
                        ApplyAccounts, Accounts, Send
<1> QED
  BY <1>1, <1>2, <1>3, <1>4, <1>5 DEF Apply

\* An operation is accepted, or cancels the one that runs.
LEMMA TruthRequested ==
    ASSUME PassInv, TruthInv,
           NEW k \in AuthKinds \ {"refresh"}, NEW id \in Ids, Request(k, id)
    PROVE  TruthInv'
<1> USE DEF PassInv, CancelOwned, TruthInv, Trusted, TruthType, NoLogin, Asking, Calling,
            Ours, Login, AuthKinds, Requests, Sent, Request
<1>1. CASE CancelRunning(k, id)
  BY <1>1 DEF CallInv, SideInv, LateInv, AnswerInv, ShownInv, CancelRunning, Busy, BusyKind
<1>2. CASE Accept(k, id)
  BY <1>2 DEF CallInv, SideInv, LateInv, AnswerInv, ShownInv, Accept, Busy
<1> QED
  BY <1>1, <1>2

\* A call fails before its request is served.
LEMMA TruthLost ==
    ASSUME PassInv, TruthInv, NEW m \in flight, Lose(m)
    PROVE  TruthInv'
<1> USE DEF PassInv, CancelOwned, TruthInv, Trusted, TruthType, NoLogin, Asking, Calling,
            Ours, Login, AuthKinds, Requests, Sent
<1>1. CASE flight' = flight \ {m} /\ Hears(m, Received(Unsent))
  BY <1>1 DEF CallInv, SideInv, LateInv, AnswerInv, ShownInv, Lose, Hears, Received, Unsent
<1>2. CASE /\ flight' = (flight \ {m}) \cup {[m EXCEPT !.late = TRUE]}
           /\ Hears(m, {"broken"}) /\ up # "down"
  <2>1. TruthType'
    BY <1>2 DEF Lose, Hears, Received, Unsent
  <2>2. CallInv'
    BY <1>2 DEF CallInv, Lose, Hears, Received, Unsent
  <2>3. SideInv'
    BY <1>2 DEF CallInv, SideInv, Lose, Hears, Received, Unsent
  <2>4. Trusted' => LateInv'
    BY <1>2 DEF CallInv, SideInv, LateInv, Lose, Hears, Received, Unsent
  <2>5. Trusted' => AnswerInv'
    BY <1>2 DEF CallInv, SideInv, LateInv, AnswerInv, Lose, Hears, Received, Unsent
  <2>6. Trusted' => ShownInv'
    BY <1>2 DEF CallInv, SideInv, LateInv, AnswerInv, ShownInv, Lose, Hears, Received,
                Unsent
  <2> QED
    BY <2>1, <2>2, <2>3, <2>4, <2>5, <2>6 DEF TruthInv
<1> QED
  BY <1>1, <1>2 DEF Lose

\* The sidecar serves a request.
LEMMA TruthServed ==
    ASSUME PassInv, TruthInv, NEW m \in flight, Serve(m)
    PROVE  TruthInv'
<1> USE DEF PassInv, CancelOwned, TruthInv, Trusted, TruthType, NoLogin, Asking, Calling,
            Ours, Login, AuthKinds, Requests, Sent
<1>1. CASE Serve(m) /\ ServeStart(m)
  <2>1. TruthType'
    BY <1>1 DEF Serve, ServeStart, Left, Hears, Received
  <2>2. CallInv'
    BY <1>1 DEF CallInv, Serve, ServeStart, Left, Hears, Received
  <2>3. SideInv'
    BY <1>1 DEF CallInv, SideInv, Serve, ServeStart, Left, Hears, Received
  <2>4. Trusted' => LateInv'
    BY <1>1 DEF CallInv, SideInv, LateInv, Serve, ServeStart, Left, Hears, Received
  <2>5. Trusted' => AnswerInv'
    BY <1>1 DEF CallInv, SideInv, LateInv, AnswerInv, Serve, ServeStart, Left, Hears,
                Received
  <2>6. Trusted' => ShownInv'
    BY <1>1 DEF CallInv, SideInv, LateInv, AnswerInv, ShownInv, Serve, ServeStart, Left,
                Hears, Received
  <2> QED
    BY <2>1, <2>2, <2>3, <2>4, <2>5, <2>6 DEF TruthInv
<1>2. CASE Serve(m) /\ ServeCode(m)
  <2>1. TruthType'
    BY <1>2 DEF Serve, ServeCode, Left, Hears, Received
  <2>2. CallInv'
    BY <1>2 DEF CallInv, Serve, ServeCode, Left, Hears, Received
  <2>3. SideInv'
    BY <1>2 DEF CallInv, SideInv, Serve, ServeCode, Left, Hears, Received
  <2>4. Trusted' => LateInv'
    BY <1>2 DEF CallInv, SideInv, LateInv, Serve, ServeCode, Left, Hears, Received
  <2>5. Trusted' => AnswerInv'
    BY <1>2 DEF CallInv, SideInv, LateInv, AnswerInv, Serve, ServeCode, Left, Hears,
                Received
  <2>6. Trusted' => ShownInv'
    BY <1>2 DEF CallInv, SideInv, LateInv, AnswerInv, ShownInv, Serve, ServeCode, Left,
                Hears, Received
  <2> QED
    BY <2>1, <2>2, <2>3, <2>4, <2>5, <2>6 DEF TruthInv
<1>3. CASE Serve(m) /\ ServeCancel(m)
  <2>1. TruthType'
    BY <1>3 DEF Serve, ServeCancel, Left, Hears, Received
  <2>2. CallInv'
    BY <1>3 DEF CallInv, Serve, ServeCancel, Left, Hears, Received
  <2>3. SideInv'
    BY <1>3 DEF CallInv, SideInv, Serve, ServeCancel, Left, Hears, Received
  <2>4. Trusted' => LateInv'
    BY <1>3 DEF CallInv, SideInv, LateInv, Serve, ServeCancel, Left, Hears, Received
  <2>5. Trusted' => AnswerInv'
    BY <1>3 DEF CallInv, SideInv, LateInv, AnswerInv, Serve, ServeCancel, Left, Hears,
                Received
  <2>6. Trusted' => ShownInv'
    BY <1>3 DEF CallInv, SideInv, LateInv, AnswerInv, ShownInv, Serve, ServeCancel, Left,
                Hears, Received
  <2> QED
    BY <2>1, <2>2, <2>3, <2>4, <2>5, <2>6 DEF TruthInv
<1>4. CASE Serve(m) /\ ServeAccounts(m)
  <2>1. TruthType'
    BY <1>4 DEF Serve, ServeAccounts, Left, Hears, Received
  <2>2. CallInv'
    BY <1>4 DEF CallInv, Serve, ServeAccounts, Left, Hears, Received
  <2>3. SideInv'
    BY <1>4 DEF CallInv, SideInv, Serve, ServeAccounts, Left, Hears, Received
  <2>4. Trusted' => LateInv'
    BY <1>4 DEF CallInv, SideInv, LateInv, Serve, ServeAccounts, Left, Hears, Received
  <2>5. Trusted' => AnswerInv'
    <3>1. ~m.late => m = Sent("accounts")
      BY <1>4 DEF ServeAccounts
    <3>2. session' = session /\ token' = token /\ (answer' # answer => ~m.late)
      BY <1>4 DEF ServeAccounts, Left, Hears
    <3>3. answer' = "empty" => ~token \/ answer = "empty"
      BY <1>4 DEF ServeAccounts, Left, Hears, Received
    <3>4. flight' \subseteq flight /\ UNCHANGED <<cur, pc>>
          /\ (answer' # answer => answer' \in {"listed", "empty", "broken", "failed"})
      BY <1>4 DEF Serve, ServeAccounts, Left, Hears, Received
    <3>5. UNCHANGED <<stopping, up>>
      BY <1>4 DEF Serve
    <3>6. Trusted => AnswerInv
      OBVIOUS
    <3>7. ASSUME Trusted', cur' \in {"refresh", "cancel", "clear"},
                 Sent("accounts") \in flight' \/ answer' \in {"idle", "empty"}
          PROVE  ~session'
      BY <3>1, <3>2, <3>4, <3>5, <3>6, <3>7 DEF AnswerInv
    <3>8. ASSUME Trusted', answer' \in {"challenge", "refused", "empty"} PROVE ~token'
      BY <3>2, <3>3, <3>4, <3>5, <3>6, <3>8 DEF AnswerInv
    <3> QED
      BY <3>7, <3>8 DEF AnswerInv
  <2>6. Trusted' => ShownInv'
    BY <1>4 DEF CallInv, SideInv, LateInv, AnswerInv, ShownInv, Serve, ServeAccounts, Left,
                Hears, Received
  <2> QED
    BY <2>1, <2>2, <2>3, <2>4, <2>5, <2>6 DEF TruthInv
<1> QED
  BY <1>1, <1>2, <1>3, <1>4 DEF Serve

\* TruthInv always holds, one lemma per kind of step.
LEMMA TruthInvariant == Spec => []TruthInv
<1>1. Init => TruthInv
  BY DEF Init, TruthInv, TruthType, CallInv, SideInv, LateInv, AnswerInv, ShownInv,
         Trusted, NoLogin, Asking, Calling, Ours, Login, AuthKinds, Requests
<1>2. PassInv /\ TruthInv /\ [Next]_vars => TruthInv'
  <2> SUFFICES ASSUME PassInv, TruthInv, [Next]_vars PROVE TruthInv'
    OBVIOUS
  <2>1. ASSUME NEW k \in AuthKinds \ {"refresh"}, NEW id \in Ids, Request(k, id)
        PROVE  TruthInv'
    BY <2>1, TruthRequested
  <2>2. CASE SidecarStep
    BY <2>2, TruthServed, TruthLost DEF SidecarStep
  <2>3. CASE WorkerStep \/ OtherRequest \/ NewerRegion \/ Stop \/ WindowEnds \/ SessionExpires
    BY <2>3, TruthPassive, TruthSends, TruthApplies DEF WorkerStep
  <2>4. CASE Terminated \/ UNCHANGED vars
    <3>1. UNCHANGED vars
      BY <2>4 DEF Terminated
    <3> QED
      BY <3>1 DEF TruthInv, TruthType, CallInv, SideInv, LateInv, AnswerInv, ShownInv,
                  Trusted, NoLogin, Asking, Calling, Ours
  <2> QED
    BY <2>1, <2>2, <2>3, <2>4 DEF Next
<1> QED
  BY <1>1, <1>2, PassInvariant, PTL DEF Spec

\* service.c:660-715 and 1927-1970 with the sidecar's login session: what is shown
\* at rest is true of the sidecar, whichever calls, answers and resets fail.
THEOREM ShownTrue == Spec => []AuthTruth
<1>1. PassInv /\ TruthInv => AuthTruth
  BY DEF PassInv, TruthInv, CallInv, ShownInv, Trusted, NoLogin, AuthTruth, Rest, AuthKinds
<1> QED
  BY <1>1, PassInvariant, TruthInvariant, PTL
-----------------------------------------------------------------------------
(* Every operation ends *)

\* The operation a displayed "working" or a cancellation is about.
Owned == slot \in AuthKinds \/ cur \in AuthKinds

\* Only an operation of the user shows "working", and a pass that went well has
\* replaced it; a login that is revoked did not.
WorkInv ==
    /\ auth = "working" => slot \in AuthKinds \ {"refresh"} \/ cur \in AuthKinds \ {"refresh"}
    /\ pc = "end" /\ out = "ok" => auth # "working"
    /\ pc \in {"revoke", "revokeReset"} => out # "ok"
    /\ pc = "tell" => cancelSent

\* Every step keeps it.
LEMMA WorkStep ==
    ASSUME PassInv, WorkInv, [Next]_vars
    PROVE  WorkInv'
<1> USE DEF PassInv, WorkInv, Login, AuthKinds
<1>1. ASSUME NEW k \in AuthKinds \ {"refresh"}, NEW id \in Ids, Request(k, id)
      PROVE  WorkInv'
  BY <1>1 DEF Request, CancelRunning, Accept, Busy, BusyKind
<1>2. CASE OtherRequest \/ NewerRegion \/ WindowEnds \/ SessionExpires \/ Stop
  BY <1>2 DEF OtherRequest, NewerRegion, WindowEnds, SessionExpires, Stop, Busy
<1>3. CASE SidecarStep
  BY <1>3 DEF SidecarStep, Serve, Lose
<1>4. CASE Promote \/ Take \/ Tell \/ Told \/ Return
  BY <1>4 DEF Promote, Take, Tell, Told, Return
<1>5. CASE Apply
  BY <1>5 DEF Apply, ApplyChallenge, ApplyRefused, ApplyError, ApplyPhone, ApplyAccounts,
              Accounts
<1>6. CASE ClearReset \/ RevokeReset \/ CancelReset \/ Cancelled
  BY <1>6 DEF ClearReset, RevokeReset, CancelReset, Cancelled, CancelDue
<1>7. CASE CancelEnd \/ OtherEnd \/ Exit
  BY <1>7 DEF CancelEnd, OtherEnd, Exit, Finish
<1>8. CASE End
  <2>1. pc = "end" /\ pc' = "idle" /\ UNCHANGED cancelSent
    BY <1>8 DEF End, Finish
  <2>2. auth' # "working"
    <3>1. CASE Succeeded
      BY <2>1, <3>1 DEF Succeeded
    <3>2. CASE Failed
      BY <2>1, <3>2 DEF Failed
    <3> QED
      BY <1>8, <3>1, <3>2 DEF End
  <2> QED
    BY <2>1, <2>2
<1>9. CASE Terminated \/ UNCHANGED vars
  BY <1>9 DEF Terminated
<1> QED
  BY <1>1, <1>2, <1>3, <1>4, <1>5, <1>6, <1>7, <1>8, <1>9 DEF Next, WorkerStep

\* The call the worker waits in has a request in the sidecar, or its answer.
AnswerDue == pc \in Asking /\ answer = "none" => \E m \in flight : Ours(m)

\* What the worker sends is its own, unless it is the PHONE_CANCEL of a cancellation.
LEMMA SentOurs ==
    ASSUME NEW r, r # "tell", Sent(r) \in flight'
    PROVE  \E m \in flight' : Ours(m)
<1>1. Ours(Sent(r))
  BY DEF Ours, Sent
<1> QED
  BY <1>1

\* No step forgets it: a request leaves the sidecar with an answer.
LEMMA AnswerDueStep ==
    ASSUME TruthType, CallInv, AnswerDue, [Next]_vars
    PROVE  AnswerDue'
<1> USE DEF AnswerDue, Asking, Ours, Sent
<1>1. ASSUME NEW m \in flight, Serve(m)
      PROVE  AnswerDue'
  <2>1. flight' = flight \ {m} /\ UNCHANGED pc
    BY <1>1 DEF Serve
  <2>2. Hears(m, Received("challenge")) \/ \E a \in {"refused", "failed", "broken", "authenticated", "idle",
                                    "listed", "empty"} : Hears(m, Received(a))
    BY <1>1 DEF Serve, ServeStart, ServeCode, ServeCancel, ServeAccounts, Left
  <2>3. CASE Ours(m)
    BY <2>2, <2>3 DEF Hears, Received
  <2>4. CASE ~Ours(m)
    <3>1. UNCHANGED answer
      BY <2>2, <2>4 DEF Hears
    <3> QED
      BY <2>1, <2>4, <3>1
  <2> QED
    BY <2>3, <2>4
<1>2. ASSUME NEW m \in flight, Lose(m)
      PROVE  AnswerDue'
  <2>1. CASE Ours(m)
    <3>1. answer' # "none"
      BY <1>2, <2>1 DEF Lose, Hears, Received, Unsent
    <3> QED
      BY <3>1
  <2>2. CASE ~Ours(m)
    <3>1. UNCHANGED <<answer, pc>> /\ \A n \in flight : Ours(n) => n \in flight'
      BY <1>2, <2>2 DEF Lose, Hears
    <3> QED
      BY <3>1
  <2> QED
    BY <2>1, <2>2
<1>3. ASSUME NEW k \in AuthKinds \ {"refresh"}, NEW id \in Ids, Request(k, id)
      PROVE  AnswerDue'
  BY <1>3 DEF Request, CancelRunning, Accept
<1>4. CASE OtherRequest \/ NewerRegion \/ WindowEnds \/ SessionExpires \/ Stop \/ Promote
  BY <1>4 DEF OtherRequest, NewerRegion, WindowEnds, SessionExpires, Stop, Promote
<1>5. CASE Take
  <2>1. CASE pc' = "call"
    <3>1. slot \in {"refresh", "cancel"} \cup Login /\ flight' = flight \cup {Sent(RequestOf(slot))}
      BY <1>5, <2>1 DEF Take, Send
    <3>2. RequestOf(slot) # "tell"
      BY <3>1 DEF RequestOf, Login
    <3>3. Sent(RequestOf(slot)) \in flight'
      BY <3>1
    <3> QED
      BY <3>2, <3>3, SentOurs
  <2>2. CASE pc' # "call"
    BY <1>5, <2>2 DEF Take
  <2> QED
    BY <2>1, <2>2
<1>6. CASE Tell \/ Told \/ Return
  BY <1>6 DEF Tell, Told, Return, Send
<1>7. CASE Apply
  <2>1. pc' \in {"end", "revoke"} \/ Sent("accounts") \in flight'
    BY <1>7 DEF Apply, ApplyChallenge, ApplyRefused, ApplyError, ApplyPhone, ApplyAccounts, Send
  <2> QED
    BY <2>1, SentOurs
<1>8. CASE ClearReset \/ RevokeReset \/ CancelReset \/ Cancelled
  <2>1. pc' \in {"end", "cancelReset", "cancelEnd"} \/ Sent("accounts") \in flight'
    BY <1>8 DEF ClearReset, RevokeReset, CancelReset, Cancelled
  <2> QED
    BY <2>1, SentOurs
<1>9. CASE CancelEnd \/ End \/ OtherEnd \/ Exit
  BY <1>9 DEF CancelEnd, End, OtherEnd, Exit, Finish
<1>10. CASE Terminated \/ UNCHANGED vars
  BY <1>10 DEF Terminated
<1> QED
  BY <1>1, <1>2, <1>3, <1>4, <1>5, <1>6, <1>7, <1>8, <1>9, <1>10 DEF Next, WorkerStep, SidecarStep

\* The worker's call is the first of two: the login, or the end of its session.
First ==
    \/ \E m \in flight : Ours(m) /\ m.req # "accounts"
    \/ answer \in {"challenge", "refused", "authenticated", "idle"}

\* The steps left, at most, to the end of the pass.
PassLeft ==
    CASE pc = "call"        -> (IF First THEN 11 ELSE 7) + (IF cancelSent THEN 0 ELSE 2)
      [] pc = "tell"        -> IF First THEN 12 ELSE 8
      [] pc = "apply"       -> IF First THEN 10 ELSE 6
      [] pc = "clearReset"  -> 10
      [] pc = "revoke"      -> 5
      [] pc = "revokeReset" -> 4
      [] pc = "end"         -> 3
      [] pc = "cancelReset" -> 2
      [] pc = "cancelEnd"   -> 1
      [] pc = "other"       -> 1
      [] OTHER              -> 0

\* The pass comes nearer to its end, and nothing else puts the end off.
Advances == pc # "idle" => PassLeft' <= PassLeft /\ (pc' # pc => PassLeft' < PassLeft)

\* What the sidecar does to the worker's call.
LEMMA SidecarWaits ==
    ASSUME TruthType, CallInv, SidecarStep
    PROVE  UNCHANGED <<pc, cancelSent>> /\ (First' => First)
<1> USE DEF Ours, First
<1>1. ASSUME NEW m \in flight, Serve(m)
      PROVE  First' => First
  <2>1. flight' = flight \ {m}
    BY <1>1 DEF Serve
  <2>2. CASE Ours(m) /\ m.req = "accounts"
    <3>1. answer' \in {"listed", "empty", "failed", "broken"}
      BY <1>1, <2>2 DEF Serve, ServeStart, ServeCode, ServeCancel, ServeAccounts, Left, Hears, Received
    <3> QED
      BY <2>1, <3>1
  <2>3. CASE ~Ours(m)
    <3>1. UNCHANGED answer
      BY <1>1, <2>3 DEF Serve, ServeStart, ServeCode, ServeCancel, ServeAccounts, Left, Hears
    <3> QED
      BY <2>1, <3>1
  <2> QED
    BY <2>2, <2>3
<1>2. ASSUME NEW m \in flight, Lose(m)
      PROVE  First' => First
  <2>1. answer' \in {answer, "failed", "broken"}
    BY <1>2 DEF Lose, Hears, Received, Unsent
  <2>2. \A n \in flight' : Ours(n) => n \in flight
    <3>1. [m EXCEPT !.late = TRUE].late
      BY DEF TruthType
    <3> QED
      BY <1>2, <3>1 DEF Lose
  <2> QED
    BY <2>1, <2>2
<1> QED
  BY <1>1, <1>2 DEF SidecarStep, Serve, Lose

\* Every step of the pass brings its end nearer.
LEMMA PassAdvances ==
    ASSUME PassInv, TruthType, CallInv, WorkInv, [Next]_vars
    PROVE  Advances
<1> USE DEF Advances, PassLeft
<1>1. CASE SidecarStep
  <2>1. UNCHANGED <<pc, cancelSent>> /\ (First' => First)
    BY <1>1, SidecarWaits
  <2> HIDE DEF First
  <2> QED
    BY <2>1
<1>2. CASE Tell \/ Told
  <2>1. First' <=> First
    BY <1>2 DEF Tell, Told, Send, Sent, First, Ours
  <2>2. \/ pc = "call" /\ ~cancelSent /\ pc' = "tell"
        \/ pc = "tell" /\ cancelSent' /\ pc' = "call"
        \/ pc = "revoke" /\ pc' = "revokeReset"
    BY <1>2 DEF Tell, Told, WorkInv
  <2> QED
    BY <2>1, <2>2
<1>3. CASE Return
  <2>1. pc = "call" /\ (pc' = "end" \/ (pc' = "apply" /\ UNCHANGED <<answer, flight>>))
    BY <1>3 DEF Return
  <2>2. pc' = "apply" => (First' <=> First)
    BY <2>1 DEF First
  <2> QED
    BY <2>1, <2>2
<1>4. CASE Apply
  <2>1. pc = "apply" /\ answer' = "none" /\ ~cancelSent'
    BY <1>4 DEF Apply
  <2>2. CASE pc' \in {"end", "revoke"}
    BY <2>1, <2>2
  <2>3. CASE ApplyPhone
    <3>1. First /\ pc' = "call"
      BY <2>3 DEF ApplyPhone, First
    <3>2. ~First'
      BY <2>1, <2>3 DEF First, ApplyPhone, Send, Sent, Ours, CallInv, Asking
    <3> QED
      BY <2>1, <3>1, <3>2
  <2>4. pc' \in {"end", "revoke"} \/ ApplyPhone
    BY <1>4 DEF Apply, ApplyChallenge, ApplyRefused, ApplyError, ApplyAccounts
  <2> QED
    BY <2>2, <2>3, <2>4
<1>5. CASE ClearReset
  <2>1. CASE pc' = "call"
    <3>1. flight' = {Sent("accounts")} /\ UNCHANGED answer /\ pc = "clearReset"
      BY <1>5, <2>1 DEF ClearReset
    <3>2. answer = "none"
      BY <3>1 DEF CallInv, Asking
    <3>3. ~First'
      BY <3>1, <3>2 DEF First, Sent, Ours
    <3> QED
      BY <2>1, <3>1, <3>3
  <2>2. CASE pc' # "call"
    BY <1>5, <2>2 DEF ClearReset
  <2> QED
    BY <2>1, <2>2
<1>6. CASE RevokeReset \/ CancelReset \/ Cancelled
  BY <1>6 DEF RevokeReset, CancelReset, Cancelled, CancelDue
<1>7. CASE CancelEnd \/ End \/ OtherEnd \/ Exit \/ Take \/ Promote
  <2>1. CASE CancelEnd \/ End \/ OtherEnd
    <3>1. pc \in {"cancelEnd", "end", "other"} /\ pc' = "idle"
      BY <2>1 DEF CancelEnd, End, OtherEnd, Finish
    <3> QED
      BY <3>1
  <2>2. CASE Exit \/ Take \/ Promote
    BY <2>2 DEF Exit, Take, Promote
  <2> QED
    BY <1>7, <2>1, <2>2
<1>8. CASE (\E k \in AuthKinds \ {"refresh"}, id \in Ids : Request(k, id)) \/ OtherRequest \/ NewerRegion \/ Stop
           \/ WindowEnds \/ SessionExpires \/ Terminated \/ UNCHANGED vars
  <2>1. UNCHANGED <<pc, cancelSent, answer, flight>>
    BY <1>8 DEF Request, CancelRunning, Accept, OtherRequest, NewerRegion, Stop, WindowEnds, SessionExpires,
                Terminated
  <2>2. First' <=> First
    BY <2>1 DEF First
  <2> QED
    BY <2>1, <2>2
<1> QED
  BY <1>1, <1>2, <1>3, <1>4, <1>5, <1>6, <1>7, <1>8 DEF Next, WorkerStep

\* What AuthSettles rests on, the fairness it is checked with apart: what is shown
\* as being worked on is in the worker's hands, the worker waits for no answer
\* that nobody owes it, and every step of its pass, of at most thirteen, brings
\* it nearer to the end, whatever the user, the sidecar and the stop do.
THEOREM OperationsEnd ==
    Spec => /\ [](auth = "working" \/ cancelReq => Owned)
            /\ []AnswerDue
            /\ [](PassLeft \in 0..13)
            /\ [][Advances]_vars
<1>1. Init => WorkInv /\ AnswerDue
  BY DEF Init, WorkInv, AnswerDue, Asking
<1>2. PassInv /\ WorkInv /\ [Next]_vars => WorkInv'
  BY WorkStep
<1>3. TruthInv /\ AnswerDue /\ [Next]_vars => AnswerDue'
  BY AnswerDueStep DEF TruthInv
<1>4. PassInv /\ WorkInv => (auth = "working" \/ cancelReq => Owned)
  BY DEF PassInv, CancelOwned, WorkInv, Owned, AuthKinds
<1>5. PassLeft \in 0..13
  BY DEF PassLeft
<1>6. PassInv /\ TruthInv /\ WorkInv /\ [Next]_vars => [Advances]_vars
  BY PassAdvances DEF TruthInv
<1> QED
  BY <1>1, <1>2, <1>3, <1>4, <1>5, <1>6, PassInvariant, TruthInvariant, PTL DEF Spec
=============================================================================
