----------------------------- MODULE MediaOwner -----------------------------
(***************************************************************************)
(* The AI thread and its owner: media_owner.c, the session of media.c as    *)
(* far as it touches the owner, and the calls of the service's worker, of   *)
(* main() and of the event thread.  A section under owner->lock does not    *)
(* block and is one action.  The worker makes its calls in any order: the   *)
(* order it does make them in is module Service's.                          *)
(***************************************************************************)
EXTENDS Naturals

CONSTANT MaxPid     \* bound: sidecar processes, the first one and its resets

ASSUME MaxPidOK == MaxPid \in Nat \ {0}

VARIABLES
    joinable, joining,  \* owner->joinable, owner->joining
    stop,               \* owner->stop
    published,          \* owner->active_fd is the session's descriptor
    peer,               \* owner->peer_pid
    thread,             \* where xc_media_thread is
    fd,                 \* the session's descriptor is open
    attempt,            \* xc_media_thread's failed sessions in a row
    caller, return,     \* where the worker and main() are, and go after a stop
    sidecar             \* the sidecar's process id, 0 when none runs

mediaVars == <<thread, fd, published, attempt>>
ownerVars == <<joinable, joining, stop, peer>>
callVars == <<caller, return, sidecar>>
vars == <<mediaVars, ownerVars, callVars>>

Callers == {"worker", "main"}
Places == {"idle", "serve", "stop", "join", "joined", "kill", "launch", "gone", "wait",
           "killed", "end"}
Attempts == 3   \* XC_RECONNECT_ATTEMPTS

Init ==
    /\ joinable = FALSE /\ joining = FALSE /\ stop = FALSE
    /\ published = FALSE /\ fd = FALSE
    /\ peer = 1 /\ sidecar = 1
    /\ thread = "none" /\ attempt = 0
    /\ caller = [c \in Callers |-> IF c = "worker" THEN "idle" ELSE "serve"]
    /\ return = caller
-----------------------------------------------------------------------------
(* The AI thread *)

Moves(from, to) == thread = from /\ thread' = to

\* Mutant: the state is reported to a service whose lock a joiner holds.
NotifyLocked ==
    /\ \A c \in Callers : caller[c] # "join"
    /\ \/ Moves("starting", "loop") \/ Moves("hello", "frames")
       \/ Moves("retry", "delay") \/ Moves("restart", "loop")
    /\ UNCHANGED <<fd, published, attempt, ownerVars, callVars>>

\* xc_service_media_state, which takes the service's lock: nobody joins with it.
Notify ==
    /\ \/ Moves("starting", "loop") \/ Moves("hello", "frames")
       \/ Moves("retry", "delay") \/ Moves("restart", "loop")
    /\ UNCHANGED <<fd, published, attempt, ownerVars, callVars>>

Loop ==
    /\ Moves("loop", IF stop THEN "dead" ELSE "connect")
    /\ UNCHANGED <<fd, published, attempt, ownerVars, callVars>>

\* A connection is kept only if its peer is the sidecar the owner is bound to.
Connect ==
    /\ \/ peer = sidecar /\ Moves("connect", "publish") /\ fd' = TRUE
       \/ Moves("connect", "done") /\ UNCHANGED fd
    /\ UNCHANGED <<published, attempt, ownerVars, callVars>>

\* xc_owner_set_fd: a request to stop from here on shuts the descriptor down.
SetFd ==
    /\ Moves("publish", "greet")
    /\ published' = TRUE
    /\ UNCHANGED <<fd, attempt, ownerVars, callVars>>

\* Every wait has a deadline and polls the flag, which is also looked at
\* between two frames; a descriptor that is shut down ends the session.
Receive ==
    /\ \/ Moves("greet", "hello") \/ Moves("greet", "done")
       \/ ~stop /\ Moves("frames", "frames")
       \/ Moves("frames", "done")
    /\ UNCHANGED <<fd, published, attempt, ownerVars, callVars>>

\* Mutant: the owner keeps the number of the descriptor.
SessionEndKeepsFd ==
    /\ Moves("done", IF stop THEN "stopped" ELSE "failed")
    /\ UNCHANGED <<fd, published, attempt, ownerVars, callVars>>

\* The session's result, and xc_owner_clear_fd before the number is given up.
SessionEnd ==
    /\ Moves("done", IF stop THEN "stopped" ELSE "failed")
    /\ published' = FALSE
    /\ UNCHANGED <<fd, attempt, ownerVars, callVars>>

\* Every third failure in a row is an error and a longer wait.
Failed ==
    /\ Moves("failed", "retry")
    /\ fd' = FALSE
    /\ attempt' = IF attempt + 1 >= Attempts THEN 0 ELSE attempt + 1
    /\ UNCHANGED <<published, ownerVars, callVars>>

Stopped ==
    /\ Moves("stopped", "dead")
    /\ fd' = FALSE
    /\ UNCHANGED <<published, attempt, ownerVars, callVars>>

\* The wait ends early with the flag.
Delay ==
    /\ Moves("delay", IF ~stop /\ attempt = 0 THEN "restart" ELSE "loop")
    /\ UNCHANGED <<fd, published, attempt, ownerVars, callVars>>

MediaStep ==
    \/ Notify \/ Loop \/ Connect \/ SetFd \/ Receive
    \/ SessionEnd \/ Failed \/ Stopped \/ Delay
-----------------------------------------------------------------------------
(* The owner's calls *)

Goes(c, from, to) == caller[c] = from /\ caller' = [caller EXCEPT ![c] = to]

\* xc_media_owner_stop is called and goes on at back when it returns.
Calls(c, from, back) ==
    /\ Goes(c, from, "stop")
    /\ return' = [return EXCEPT ![c] = back]

\* Mutant: a thread that was not joined keeps no second one away.
OwnerStartUnchecked ==
    /\ caller["worker"] = "idle"
    /\ stop' = FALSE
    /\ thread' = "starting" /\ attempt' = 0 /\ joinable' = TRUE
    /\ UNCHANGED <<fd, published, joining, peer, callVars>>

\* xc_media_owner_start: no thread when one is to be joined, and perhaps none
\* when the system refuses it; the flag is cleared first.
OwnerStart ==
    /\ caller["worker"] = "idle"
    /\ ~joinable /\ ~joining
    /\ stop' = FALSE
    /\ \/ thread' = "starting" /\ attempt' = 0 /\ joinable' = TRUE
       \/ UNCHANGED <<thread, attempt, joinable>>
    /\ UNCHANGED <<fd, published, joining, peer, callVars>>

\* xc_media_owner_request_stop.
RequestStop ==
    /\ stop' = TRUE
    /\ UNCHANGED <<mediaVars, joinable, joining, peer>>

\* Up to the join; another one is waited for.
StopBegin(c) ==
    /\ ~joining
    /\ Goes(c, "stop", IF joinable THEN "join" ELSE return[c])
    /\ joining' = joinable
    /\ stop' = (stop \/ joinable)
    /\ UNCHANGED <<mediaVars, joinable, peer, return, sidecar>>

StopJoin(c) ==
    /\ Goes(c, "join", "joined")
    /\ Moves("dead", "none")
    /\ UNCHANGED <<fd, published, attempt, ownerVars, return, sidecar>>

StopEnd(c) ==
    /\ Goes(c, "joined", return[c])
    /\ joinable' = FALSE /\ joining' = FALSE
    /\ UNCHANGED <<mediaVars, stop, peer, return, sidecar>>
-----------------------------------------------------------------------------
(* Its callers *)

\* xc_ai_stop.
AIStop ==
    /\ Calls("worker", "idle", "idle")
    /\ UNCHANGED <<mediaVars, ownerVars, sidecar>>

\* xc_sidecar_reset_adapter, which begins with the AI thread.
Reset ==
    /\ Calls("worker", "idle", "kill")
    /\ UNCHANGED <<mediaVars, ownerVars, sidecar>>

\* The old process ends, or the reset fails.
Kill ==
    /\ \/ Goes("worker", "kill", "launch") /\ sidecar' = 0
       \/ Goes("worker", "kill", "idle") /\ UNCHANGED sidecar
    /\ UNCHANGED <<mediaVars, ownerVars, return>>

\* xc_sidecar_start: a process the owner cannot be bound to is ended again.
Launch ==
    /\ Goes("worker", "launch", "idle")
    /\ \/ /\ peer < MaxPid /\ ~joinable /\ ~joining
          /\ sidecar' = peer + 1 /\ peer' = peer + 1
       \/ UNCHANGED <<sidecar, peer>>
    /\ UNCHANGED <<mediaVars, joinable, joining, stop, return>>

\* The worker sees the service stopping and leaves, AI last.
WorkerExit ==
    /\ caller["main"] # "serve"
    /\ Calls("worker", "idle", "gone")
    /\ UNCHANGED <<mediaVars, ownerVars, sidecar>>

\* The event thread: the host's input is gone.
InputGone ==
    /\ caller["main"] = "serve"
    /\ RequestStop
    /\ UNCHANGED callVars

\* xc_service_stop, once the event thread is joined.
Quit ==
    /\ Goes("main", "serve", "wait")
    /\ RequestStop
    /\ UNCHANGED <<return, sidecar>>

\* Then main() stops the AI itself, ends the sidecar and destroys the owner.
WorkerJoined ==
    /\ caller["worker"] = "gone"
    /\ Calls("main", "wait", "killed")
    /\ UNCHANGED <<mediaVars, ownerVars, sidecar>>

OwnerDestroy ==
    /\ Calls("main", "killed", "end")
    /\ sidecar' = 0
    /\ UNCHANGED <<mediaVars, ownerVars>>

StopStep(c) == StopBegin(c) \/ StopJoin(c) \/ StopEnd(c)

Terminated == caller["main"] = "end" /\ UNCHANGED vars

Next ==
    \/ MediaStep
    \/ \E c \in Callers : StopStep(c)
    \/ OwnerStart \/ AIStop \/ Reset \/ Kill \/ Launch \/ WorkerExit
    \/ InputGone \/ Quit \/ WorkerJoined \/ OwnerDestroy
    \/ Terminated

\* Safety only: what is promised of the threads is stated with the process in
\* module Sidecar.
Spec == Init /\ [][Next]_vars
-----------------------------------------------------------------------------
TypeOK ==
    /\ joinable \in BOOLEAN /\ joining \in BOOLEAN /\ stop \in BOOLEAN
    /\ published \in BOOLEAN /\ fd \in BOOLEAN
    /\ peer \in 1..MaxPid /\ sidecar \in 0..MaxPid
    /\ attempt \in 0..(Attempts - 1)
    /\ thread \in {"none", "starting", "loop", "connect", "publish", "greet", "hello",
                   "frames", "done", "stopped", "failed", "retry", "delay", "restart",
                   "dead"}
    /\ caller \in [Callers -> Places] /\ return \in [Callers -> Places]

\* The descriptor a stop request shuts down is open and the session's own:
\* never a number that was closed and may be another file's by now.
DescriptorOwned == published => fd

\* The sidecar is ended and replaced only with no AI thread alive, so a session
\* never goes on with a process that is not the one the owner is bound to.
ReplacedAlone == [][sidecar' # sidecar => thread = "none"]_vars

\* What module Service assumes of the owner: one thread at a time, a request
\* to stop it is not taken back while it runs, and it ends.
Lease == INSTANCE MediaLease WITH run <- thread \notin {"none", "dead"}
Leased == Lease!LeaseSpec
=============================================================================
