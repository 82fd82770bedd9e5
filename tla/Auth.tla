-------------------------------- MODULE Auth --------------------------------
(***************************************************************************)
(* The phone login and the account: the auth operations of service.c, the   *)
(* part of the worker that executes them, and the login session of the      *)
(* sidecar (go2rtc/patches/0003-xiaomi-phone-bootstrap.patch), whose        *)
(* requests are served one at a time and may outlive the call that sent     *)
(* them.  What the worker does with cameras is module Service's.            *)
(***************************************************************************)
EXTENDS Naturals, FiniteSets

CONSTANTS
    Ids, NoId,  \* operation ids, and a slot of the ring not yet used
    Ring,       \* XC_OPERATION_CACHE_MAX
    MaxLate,    \* bound: requests in the sidecar whose call has given up
    Faults      \* what may go wrong: network, memory, rate, reset, persist

ASSUME RingOK == Ring \in Nat \ {0} /\ NoId \notin Ids

VARIABLES
    slot, cur,      \* service->work if pending, and the work the worker executes
    pc,             \* where the worker is
    out,            \* the pass's success or error
    answer,         \* what its call has answered so far
    cancelSent      \* xc_call's cancel_sent

VARIABLES
    auth, account,  \* service->auth_state, service->has_account
    challenge,      \* service->sms_target is set
    window,         \* the SMS retry window is active
    retry,          \* a retry of the refresh is scheduled
    cancelReq,      \* service->auth_cancel_requested
    cancelClear,    \* service->auth_cancel_clear
    stopping,       \* service->stopping
    cache, next,    \* service->operation_cache and operation_cache_next
    since           \* history: ids recorded since an id was, at most Ring

VARIABLES
    session, token, \* the sidecar: p.session, and a configured account
    flight,         \* phone requests and account lists sent and not served
    up              \* the sidecar process

passVars == <<slot, cur, pc, out, answer, cancelSent>>
ringVars == <<cache, next, since>>
cancelVars == <<cancelReq, cancelClear>>
stateVars == <<auth, account, challenge>>
sideVars == <<session, token, flight, up>>
vars == <<passVars, stateVars, window, retry, cancelVars, stopping, ringVars, sideVars>>
-----------------------------------------------------------------------------
Login == {"start", "verify", "resend"}
AuthKinds == Login \cup {"refresh", "cancel", "clear"}

Busy == slot # "none" \/ cur # "none"
BusyKind == IF cur # "none" THEN cur ELSE slot

\* A request to the sidecar; the call that sent a late one has given it up.
\* "tell" is the PHONE_CANCEL whose answer nobody reads.
Sent(r) == [req |-> r, late |-> FALSE]

Init ==
    /\ slot = "refresh" /\ cur = "none" /\ pc = "idle"
    /\ out = "none" /\ answer = "none" /\ cancelSent = FALSE
    /\ auth = "idle" /\ account = FALSE /\ challenge = FALSE
    /\ window \in BOOLEAN /\ retry = FALSE
    /\ cancelReq = FALSE /\ cancelClear = FALSE /\ stopping = FALSE
    /\ cache = [i \in 0..(Ring - 1) |-> NoId] /\ next = 0
    /\ since = [id \in Ids |-> Ring]
    /\ session = FALSE /\ token \in BOOLEAN /\ flight = {} /\ up = "up"
-----------------------------------------------------------------------------
(* The routes *)

\* xc_operation_cached_locked.
Cached(id) == \E i \in 0..(Ring - 1) : cache[i] = id

\* Mutant: the first place is overwritten again and again.
RecordFirst(id) ==
    /\ cache' = [cache EXCEPT ![next] = id]
    /\ next' = 0
    /\ since' = [j \in Ids |-> IF j = id THEN 0
                               ELSE IF since[j] < Ring THEN since[j] + 1 ELSE Ring]

\* xc_operation_record_locked.
Record(id) ==
    /\ cache' = [cache EXCEPT ![next] = id]
    /\ next' = (next + 1) % Ring
    /\ since' = [j \in Ids |-> IF j = id THEN 0
                               ELSE IF since[j] < Ring THEN since[j] + 1 ELSE Ring]

\* A login that waits or runs is cancelled in place.
CancelRunning(k, id) ==
    /\ Busy /\ k \in {"cancel", "clear"} /\ ~account /\ BusyKind \in Login
    /\ cancelReq' = TRUE
    /\ cancelClear' = (cancelClear \/ k = "clear")
    /\ Record(id)
    /\ UNCHANGED <<passVars, stateVars, window, retry>>

\* The operation becomes the worker's next; it takes a scheduled retry's place.
Accept(k, id) ==
    /\ ~Busy
    /\ k = "start" => ~account
    /\ k \in {"verify", "resend"} => auth = "sms_required"
    /\ k \in {"start", "resend"} => ~window
    /\ slot' = k
    /\ retry' = FALSE
    /\ Record(id)
    /\ challenge' = (challenge /\ k \in {"verify", "resend"})
    /\ auth' = "working"
    /\ UNCHANGED <<cur, pc, out, answer, cancelSent, account, window, cancelVars>>

\* xc_queue_auth; a request it refuses or recognises changes nothing.
Request(k, id) ==
    /\ ~stopping /\ ~Cached(id)
    /\ CancelRunning(k, id) \/ Accept(k, id)
    /\ UNCHANGED <<stopping, sideVars>>

\* The routes of the cameras and the regions share the ring.
RecordOther == \E id \in Ids : ~Cached(id) /\ Record(id)

\* Any other operation.  A reconciliation and the RTSP routes record no id; a
\* selection or a region cancels no retry, which is only due without account.
OtherRequest ==
    /\ ~stopping /\ ~Busy
    /\ slot' = "other"
    /\ RecordOther \/ UNCHANGED ringVars
    /\ UNCHANGED <<cur, pc, out, answer, cancelSent, stateVars, window, retry,
                   cancelVars, stopping, sideVars>>

\* A region request is also accepted while the cameras are listed; it is
\* queued behind that (an OtherRequest without an id).
NewerRegion ==
    /\ ~stopping /\ account /\ "other" \in {slot, cur}
    /\ RecordOther
    /\ UNCHANGED <<passVars, stateVars, window, retry, cancelVars, stopping, sideVars>>

\* xc_service_stop, up to the join of the worker.
Stop ==
    /\ ~stopping
    /\ stopping' = TRUE
    /\ cancelReq' = (cancelReq \/ (~account /\ BusyKind \in Login))
    /\ retry' = FALSE
    /\ auth' = IF auth = "retrying" THEN (IF account THEN "authenticated" ELSE "idle") ELSE auth
    /\ UNCHANGED <<passVars, account, challenge, window, cancelClear, ringVars, sideVars>>

\* xc_rate_active_locked finds the deadline passed.
WindowEnds ==
    /\ window /\ window' = FALSE
    /\ UNCHANGED <<passVars, stateVars, retry, cancelVars, stopping, ringVars, sideVars>>
-----------------------------------------------------------------------------
(* The sidecar *)

\* What the caller makes of it: the reply may be lost, or not fit in memory.
Received(a) ==
    {a} \cup (IF "network" \in Faults THEN {"broken"} ELSE {})
        \cup (IF "memory" \in Faults THEN {"failed"} ELSE {})

\* Without a sidecar every call fails.
Unsent == IF up = "down" \/ "network" \in Faults THEN "broken" ELSE "failed"

Hears(m, as) == IF m.late \/ m.req = "tell" THEN UNCHANGED answer ELSE answer' \in as

\* What serving a request leaves behind and answers: "challenge" is an SMS that
\* was sent, "refused" an error that keeps the challenge, "broken" an error of
\* the network or the protocol and "failed" any other.
Left(m, s, t, a) == session' = s /\ token' = t /\ Hears(m, Received(a))

ServeStart(m) ==
    /\ m.req = "start"
    /\ \/ session /\ Left(m, TRUE, token, "refused")
       \/ ~session /\ token /\ Left(m, FALSE, token, "failed")
       \/ ~session /\ ~token /\ Left(m, TRUE, token, "challenge")
       \/ ~session /\ ~token /\ \E a \in {"failed", "broken"} : Left(m, FALSE, token, a)

ServeCode(m) ==
    /\ m.req \in {"verify", "resend"}
    /\ \/ ~session /\ Left(m, FALSE, token, "failed")
       \/ session /\ m.req = "verify" /\ Left(m, FALSE, TRUE, "authenticated")
       \/ session /\ m.req = "resend" /\ Left(m, TRUE, token, "challenge")
       \/ session /\ Left(m, TRUE, token, "refused")
       \/ session /\ \E a \in {"failed", "broken"} : Left(m, FALSE, token, a)

ServeCancel(m) == m.req \in {"cancel", "tell"} /\ Left(m, FALSE, token, "idle")

ServeAccounts(m) ==
    m.req = "accounts" /\ Left(m, session, token, IF token THEN "listed" ELSE "empty")

\* phoneBootstrap.serveHTTP and the list of accounts: the mutex of the phone
\* requests is held from the first to the last line, so each is one step.
Serve(m) ==
    /\ up # "down"
    /\ flight' = flight \ {m}
    /\ ServeStart(m) \/ ServeCode(m) \/ ServeCancel(m) \/ ServeAccounts(m)
    /\ UNCHANGED <<slot, cur, pc, out, cancelSent, stateVars, window, retry,
                   cancelVars, stopping, ringVars, up>>

\* The call fails first.  Its request was never sent, or is in the sidecar.
Lose(m) ==
    /\ ~m.late
    /\ up = "down" \/ Faults \cap {"network", "memory"} # {}
    /\ \/ flight' = flight \ {m} /\ Hears(m, Received(Unsent))
       \/ /\ up # "down" /\ "network" \in Faults
          /\ Cardinality({n \in flight : n.late}) < MaxLate
          /\ flight' = (flight \ {m}) \cup {[m EXCEPT !.late = TRUE]}
          /\ Hears(m, {"broken"})
    /\ UNCHANGED <<slot, cur, pc, out, cancelSent, stateVars, window, retry,
                   cancelVars, stopping, ringVars, session, token, up>>

\* armSessionTimerLocked: a challenge nobody answers is given up.
SessionExpires ==
    /\ session /\ session' = FALSE
    /\ UNCHANGED <<passVars, stateVars, window, retry, cancelVars, stopping, ringVars,
                   token, flight, up>>
-----------------------------------------------------------------------------
(* The worker *)

Send(r) == flight' = flight \cup {Sent(r)} /\ UNCHANGED <<session, token, up>>

RequestOf(k) == IF k = "refresh" THEN "accounts" ELSE k

\* The retry of the refresh is due.
Promote ==
    /\ pc = "idle" /\ slot = "none" /\ retry /\ ~stopping
    /\ slot' = "refresh" /\ retry' = FALSE /\ auth' = "retrying"
    /\ UNCHANGED <<cur, pc, out, answer, cancelSent, account, challenge, window,
                   cancelVars, stopping, ringVars, sideVars>>

Take ==
    /\ pc = "idle" /\ slot # "none"
    /\ cur' = slot /\ slot' = "none"
    /\ UNCHANGED <<answer, cancelSent>>
    /\ \/ slot = "other" /\ pc' = "other" /\ out' = "none" /\ UNCHANGED sideVars
       \/ cancelReq /\ slot \in Login /\ pc' = "end" /\ out' = "failed" /\ UNCHANGED sideVars
       \/ slot = "clear" /\ pc' = "clearReset" /\ out' = "none" /\ UNCHANGED sideVars
       \/ /\ slot \in {"refresh", "cancel"} \/ (slot \in Login /\ ~cancelReq)
          /\ pc' = "call" /\ out' = "none" /\ Send(RequestOf(slot))
    /\ UNCHANGED <<stateVars, window, retry, cancelVars, stopping, ringVars>>

\* xc_call passes a cancellation on, once, beside the request it waits for.
Tell ==
    /\ pc = "call" /\ cancelReq /\ ~cancelSent
    /\ pc' = "tell" /\ cancelSent' = TRUE
    /\ Send("tell")
    /\ UNCHANGED <<slot, cur, out, answer, stateVars, window, retry, cancelVars,
                   stopping, ringVars>>

Told ==
    /\ pc \in {"tell", "revoke"} /\ Sent("tell") \notin flight
    /\ pc' = IF pc = "tell" THEN "call" ELSE "revokeReset"
    /\ UNCHANGED <<slot, cur, out, answer, cancelSent, stateVars, window, retry,
                   cancelVars, stopping, ringVars, sideVars>>

\* The end of xc_call.
Return ==
    /\ pc = "call" /\ answer # "none" /\ (cancelReq => cancelSent)
    /\ IF stopping \/ cancelReq
       THEN pc' = "end" /\ out' = "failed" /\ answer' = "none" /\ cancelSent' = FALSE
       ELSE pc' = "apply" /\ UNCHANGED <<out, answer, cancelSent>>
    /\ UNCHANGED <<slot, cur, stateVars, window, retry,
                   cancelVars, stopping, ringVars, sideVars>>
-----------------------------------------------------------------------------
(* The answer is applied under the lock *)

\* An SMS was sent: its window holds from now on, saved or not.
ApplyChallenge ==
    /\ answer = "challenge"
    /\ window' = TRUE
    /\ \E saved \in (IF "rate" \in Faults THEN BOOLEAN ELSE {TRUE}) :
          out' = IF saved /\ ~cancelReq THEN "ok" ELSE "failed"
    /\ IF cancelReq THEN UNCHANGED stateVars
                    ELSE auth' = "sms_required" /\ challenge' = TRUE /\ UNCHANGED account
    /\ pc' = "end"
    /\ UNCHANGED sideVars

\* The number or the code was refused and the challenge is still good.
ApplyRefused ==
    /\ answer = "refused"
    /\ auth' = "sms_required" /\ challenge' = TRUE /\ UNCHANGED account
    /\ out' = "failed" /\ pc' = "end"
    /\ UNCHANGED <<window, sideVars>>

\* Mutant: the login is not revoked when its outcome is unknown.
ApplyErrorKept ==
    /\ answer \in {"failed", "broken"}
    /\ out' = answer
    /\ pc' = "end"
    /\ UNCHANGED <<stateVars, window, sideVars>>

\* A login whose outcome is unknown is revoked.
ApplyError ==
    /\ answer \in {"failed", "broken"}
    /\ out' = answer
    /\ IF answer = "broken" /\ cur \in Login THEN pc' = "revoke" /\ Send("tell")
                                             ELSE pc' = "end" /\ UNCHANGED sideVars
    /\ UNCHANGED <<stateVars, window>>

\* A confirmed code, or the end of a session: the accounts tell the truth.
ApplyPhone ==
    /\ answer \in {"authenticated", "idle"}
    /\ pc' = "call"
    /\ Send("accounts")
    /\ UNCHANGED <<stateVars, window, out>>

\* xc_accounts_apply_locked.
Accounts ==
    /\ account' = (answer = "listed") /\ challenge' = FALSE
    /\ auth' = IF answer = "listed" THEN "authenticated" ELSE "idle"

\* Mutant: a cancellation that came in meanwhile is not looked at.
ApplyAccountsLate ==
    /\ answer \in {"listed", "empty"}
    /\ out' = "ok" /\ Accounts
    /\ pc' = "end"
    /\ UNCHANGED <<window, sideVars>>

ApplyAccounts ==
    /\ answer \in {"listed", "empty"}
    /\ LET missing == cur \in Login /\ answer = "empty"
           stale == IF cur = "refresh" THEN stopping ELSE cur # "clear" /\ cancelReq
       IN  /\ IF missing \/ stale THEN UNCHANGED stateVars ELSE Accounts
           /\ out' = CASE missing -> "broken"
                       [] stale \/ (cur = "clear" /\ answer = "listed") -> "failed"
                       [] OTHER -> "ok"
           /\ IF missing THEN pc' = "revoke" /\ Send("tell")
                         ELSE pc' = "end" /\ UNCHANGED sideVars
    /\ UNCHANGED <<window>>

Apply ==
    /\ pc = "apply"
    /\ answer' = "none" /\ cancelSent' = FALSE
    /\ ApplyChallenge \/ ApplyRefused \/ ApplyError \/ ApplyPhone \/ ApplyAccounts
    /\ UNCHANGED <<slot, cur, retry, cancelVars, stopping, ringVars>>
-----------------------------------------------------------------------------
(* The sidecar is replaced *)

\* sidecar_reset(true).  A sidecar that could not be stopped goes on as it is.
Replaced ==
    /\ up' = "up" /\ session' = FALSE /\ token' = FALSE /\ flight' = {}

NotReplaced ==
    \/ up # "down" /\ up' = "stuck" /\ UNCHANGED <<session, token, flight>>
    \/ up' = "down" /\ session' = FALSE /\ flight' = {} /\ (UNCHANGED token \/ token' = FALSE)

\* CLEAR: the sidecar, the saved selection, and the proof that no account is left.
ClearReset ==
    /\ pc = "clearReset"
    /\ \/ /\ up' = "up" /\ session' = FALSE /\ token' = FALSE
          /\ \/ pc' = "call" /\ flight' = {Sent("accounts")} /\ UNCHANGED out
             \/ "persist" \in Faults /\ pc' = "end" /\ out' = "failed" /\ flight' = {}
       \/ "reset" \in Faults /\ NotReplaced /\ pc' = "end" /\ out' = "failed"
    /\ UNCHANGED <<slot, cur, answer, cancelSent, stateVars, window, retry,
                   cancelVars, stopping, ringVars>>

RevokeReset ==
    /\ pc = "revokeReset"
    /\ Replaced \/ ("reset" \in Faults /\ NotReplaced)
    /\ pc' = "end"
    /\ UNCHANGED <<slot, cur, out, answer, cancelSent, stateVars, window, retry,
                   cancelVars, stopping, ringVars>>

\* The reset of a cancelled login, which the lock is given up for.
CancelReset ==
    /\ pc = "cancelReset"
    /\ \/ Replaced /\ out' = "ok"
       \/ "reset" \in Faults /\ NotReplaced /\ out' = "failed"
    /\ pc' = "cancelEnd"
    /\ UNCHANGED <<slot, cur, answer, cancelSent, stateVars, window, retry,
                   cancelVars, stopping, ringVars>>
-----------------------------------------------------------------------------
(* The end of a pass *)

Finish == cur' = "none" /\ pc' = "idle" /\ out' = "none"
          /\ UNCHANGED <<answer, cancelSent>>

\* Mutant: the state on display is only corrected when the reset failed.
CancelEndShown ==
    /\ pc = "cancelEnd"
    /\ \E saved \in (IF cancelClear /\ "persist" \in Faults THEN BOOLEAN ELSE {TRUE}) :
          auth' = IF out = "ok" /\ saved THEN auth ELSE "error"
    /\ account' = FALSE /\ challenge' = FALSE
    /\ cancelReq' = FALSE /\ cancelClear' = FALSE
    /\ Finish
    /\ UNCHANGED <<slot, window, retry, stopping, ringVars, sideVars>>

\* Whatever came of it, the cancellation ends here.
CancelEnd ==
    /\ pc = "cancelEnd"
    /\ \E saved \in (IF cancelClear /\ "persist" \in Faults THEN BOOLEAN ELSE {TRUE}) :
          auth' = IF out = "ok" /\ saved THEN "idle" ELSE "error"
    /\ account' = FALSE /\ challenge' = FALSE
    /\ cancelReq' = FALSE /\ cancelClear' = FALSE
    /\ Finish
    /\ UNCHANGED <<slot, window, retry, stopping, ringVars, sideVars>>

CancelDue == pc = "end" /\ cancelReq /\ cur \in AuthKinds

Cancelled ==
    /\ CancelDue
    /\ pc' = "cancelReset"
    /\ UNCHANGED <<slot, cur, out, answer, cancelSent, stateVars, window, retry,
                   cancelVars, stopping, ringVars, sideVars>>

\* The account's cameras are listed, unless they are another account's.
Succeeded ==
    /\ out = "ok"
    /\ IF cur # "clear" /\ account
       THEN \/ slot' = (IF stopping THEN "none" ELSE "other") /\ UNCHANGED auth
            \/ auth' = "error" /\ UNCHANGED slot
       ELSE UNCHANGED <<slot, auth>>
    /\ UNCHANGED <<retry, challenge>>

\* A refresh that stop has overtaken says nothing; one the network failed is
\* tried again; a login's challenge survives its own errors.
Failed ==
    /\ out # "ok"
    /\ \/ cur = "refresh" /\ stopping /\ UNCHANGED <<auth, challenge, retry>>
       \/ /\ cur = "refresh" /\ ~stopping /\ out = "broken"
          /\ auth' = "retrying" /\ retry' = TRUE /\ UNCHANGED challenge
       \/ /\ ~(cur = "refresh" /\ stopping)
          /\ auth' = IF auth = "sms_required" THEN auth ELSE "error"
          /\ challenge' = (challenge /\ auth = "sms_required")
          /\ UNCHANGED retry
    /\ UNCHANGED slot

End ==
    /\ pc = "end" /\ ~CancelDue
    /\ Succeeded \/ Failed
    /\ Finish
    /\ UNCHANGED <<account, window, cancelVars, stopping, ringVars, sideVars>>

\* The account's password is no longer good, and the user is told to log in.
OtherEnd ==
    /\ pc = "other"
    /\ auth' \in {auth} \cup (IF account THEN {"reauth"} ELSE {})
    /\ Finish
    /\ UNCHANGED <<slot, account, challenge, window, retry, cancelVars, stopping, ringVars,
                   sideVars>>

Exit ==
    /\ pc = "idle" /\ stopping /\ slot = "none"
    /\ pc' = "exited"
    /\ UNCHANGED <<slot, cur, out, answer, cancelSent, stateVars, window, retry,
                   cancelVars, stopping, ringVars, sideVars>>

WorkerStep ==
    \/ Promote \/ Take \/ Tell \/ Told \/ Return \/ Apply
    \/ ClearReset \/ RevokeReset \/ CancelReset \/ Cancelled \/ CancelEnd
    \/ End \/ OtherEnd \/ Exit

SidecarStep == \E m \in flight : Serve(m) \/ Lose(m)

Terminated == pc = "exited" /\ UNCHANGED vars

Next ==
    \/ \E k \in AuthKinds \ {"refresh"}, id \in Ids : Request(k, id)
    \/ OtherRequest \/ NewerRegion \/ Stop \/ WindowEnds
    \/ SidecarStep \/ SessionExpires
    \/ WorkerStep
    \/ Terminated

\* The worker runs and every call is answered or times out.  Nothing is
\* promised of the user, of the clock or of the end of service.
Fairness == WF_vars(WorkerStep) /\ WF_vars(SidecarStep)

Spec == Init /\ [][Next]_vars /\ Fairness
-----------------------------------------------------------------------------
\* The worker has nothing to do and its sidecar could be stopped when needed.
Rest == pc = "idle" /\ slot = "none" /\ ~stopping /\ up # "stuck"

\* What the user sees of the login is true of the sidecar once nothing is
\* being done: "logged out" means that no token is configured and that no
\* login, not even one whose call was given up, can still configure one;
\* "logged in" means that there is one (service.c:660-715, 1927-1970).
AuthTruth ==
    Rest =>
        /\ auth = "idle" => /\ ~account /\ ~token /\ ~session
                            /\ \A m \in flight : m.req \notin Login
        /\ auth = "sms_required" => challenge /\ ~account /\ ~token
        /\ auth = "authenticated" => account /\ token

\* A cancellation waits for a login, never for another operation, and there is
\* no account that it would remove (service.c:1941-1970, 2354-2369, 2854-2861).
CancelOwned ==
    cancelReq => /\ ~account
                 /\ slot \in Login \/ cur \in Login

\* An operation id is forgotten only for Ring newer ones: a request that is
\* sent again earlier than that is not executed twice (service.c:264-285).
RepeatRecognised ==
    [][\A id \in Ids :
          (since'[id] = 0 /\ <<cache, next>>' # <<cache, next>>) => since[id] = Ring]_vars

\* An operation ends, a cancelled one too: the page does not show "working"
\* for ever, whatever fails (service.c:1025-1083, 1941-1970).
AuthSettles == (auth = "working" \/ cancelReq) ~> (auth # "working" /\ ~cancelReq)
=============================================================================
