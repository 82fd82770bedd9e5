-------------------------- MODULE MediaOwnerProofs --------------------------
(***************************************************************************)
(* The safety properties of module MediaOwner for every number of sidecar   *)
(* resets.  SessionInv follows the descriptor through a session; CallsInv   *)
(* relates the AI thread to the thread that is joining it; JoinDue and a    *)
(* measure of the thread's way out say that a join returns.                 *)
(***************************************************************************)
EXTENDS MediaOwner, TLAPS

USE DEF mediaVars, ownerVars, callVars, vars, Callers, Places, Moves, Goes, Calls

\* The owner knows the descriptor only in the middle of a session.
SessionInv ==
    /\ published => thread \in {"greet", "hello", "frames", "done"}
    /\ thread \in {"publish", "greet", "hello", "frames"} => fd
    /\ DescriptorOwned

\* A thread that exists is joinable, one thread joins it, and whoever replaces
\* the sidecar has nothing left to join; main() calls when the worker is gone.
CallsInv ==
    /\ thread # "none" => joinable
    /\ \A c \in Callers :
         /\ caller[c] \in {"join", "joined"} => joining /\ joinable
         /\ caller[c] = "joined" => thread = "none"
         /\ caller[c] \in {"kill", "launch", "gone", "killed", "end"} => ~joinable
    /\ caller["worker"] \in {"stop", "join", "joined"} =>
         return["worker"] \in {"idle", "kill", "gone"}
    /\ caller["main"] \in {"stop", "join", "joined"} => return["main"] \in {"killed", "end"}
    /\ caller["main"] \notin {"serve", "wait"} => caller["worker"] = "gone"

OwnerInv == TypeOK /\ SessionInv /\ CallsInv

\* The count of failed sessions starts at zero and never reaches the limit.
LEMMA AttemptType ==
    /\ 0 \in 0..(Attempts - 1)
    /\ \A a \in 0..(Attempts - 1) :
         (IF a + 1 >= Attempts THEN 0 ELSE a + 1) \in 0..(Attempts - 1)
BY DEF Attempts

\* Every step of the AI thread keeps the invariant.
LEMMA MediaStepInv ==
    ASSUME OwnerInv, MediaStep
    PROVE  OwnerInv'
<1> USE DEF OwnerInv, TypeOK, SessionInv, CallsInv, DescriptorOwned
<1>1. CASE Notify
  BY <1>1 DEF Notify
<1>2. CASE Loop
  BY <1>2 DEF Loop
<1>3. CASE Connect
  BY <1>3 DEF Connect
<1>4. CASE SetFd
  BY <1>4 DEF SetFd
<1>5. CASE Receive
  BY <1>5 DEF Receive
<1>6. CASE SessionEnd
  BY <1>6 DEF SessionEnd
<1>7. CASE Failed
  BY <1>7, AttemptType DEF Failed
<1>8. CASE Stopped
  BY <1>8 DEF Stopped
<1>9. CASE Delay
  BY <1>9 DEF Delay
<1> QED
  BY <1>1, <1>2, <1>3, <1>4, <1>5, <1>6, <1>7, <1>8, <1>9 DEF MediaStep

\* Every call of the owner, and every step of its callers, keeps it.
LEMMA CallStepInv ==
    ASSUME OwnerInv, Next, ~MediaStep
    PROVE  OwnerInv'
<1> USE DEF OwnerInv, TypeOK, SessionInv, CallsInv, DescriptorOwned
<1>1. ASSUME NEW c \in Callers, StopStep(c) PROVE OwnerInv'
  <2>1. CASE StopBegin(c)
    BY <1>1, <2>1 DEF StopBegin
  <2>2. CASE StopJoin(c)
    BY <1>1, <2>2 DEF StopJoin
  <2>3. CASE StopEnd(c)
    BY <1>1, <2>3 DEF StopEnd
  <2> QED
    BY <1>1, <2>1, <2>2, <2>3 DEF StopStep
<1>2. CASE OwnerStart
  BY <1>2, AttemptType DEF OwnerStart
<1>3. CASE AIStop \/ Reset
  BY <1>3 DEF AIStop, Reset
<1>4. CASE Kill
  BY <1>4, MaxPidOK DEF Kill
<1>5. CASE Launch
  BY <1>5, MaxPidOK DEF Launch
<1>6. CASE WorkerExit
  BY <1>6 DEF WorkerExit
<1>7. CASE InputGone \/ Quit
  <2>1. TypeOK'
    BY <1>7 DEF InputGone, Quit, RequestStop
  <2>2. SessionInv' /\ CallsInv'
    BY <1>7 DEF InputGone, Quit, RequestStop
  <2> QED
    BY <2>1, <2>2
<1>8. CASE WorkerJoined
  BY <1>8 DEF WorkerJoined
<1>9. CASE OwnerDestroy
  BY <1>9, MaxPidOK DEF OwnerDestroy
<1>10. CASE Terminated
  BY <1>10 DEF Terminated
<1> QED
  BY <1>1, <1>2, <1>3, <1>4, <1>5, <1>6, <1>7, <1>8, <1>9, <1>10 DEF Next

\* The three invariants together are inductive.
LEMMA OwnerInvariant == Spec => []OwnerInv
<1>1. Init => OwnerInv
  <2> SUFFICES ASSUME Init PROVE OwnerInv
    OBVIOUS
  <2>1. peer \in 1..MaxPid /\ sidecar \in 0..MaxPid /\ attempt \in 0..(Attempts - 1)
    BY MaxPidOK, AttemptType DEF Init
  <2>2. caller \in [Callers -> Places] /\ return \in [Callers -> Places]
    BY DEF Init
  <2>3. TypeOK
    BY <2>1, <2>2 DEF Init, TypeOK
  <2>4. SessionInv /\ CallsInv
    BY DEF Init, SessionInv, CallsInv, DescriptorOwned
  <2> QED
    BY <2>3, <2>4 DEF OwnerInv
<1>2. OwnerInv /\ [Next]_vars => OwnerInv'
  <2> SUFFICES ASSUME OwnerInv, [Next]_vars PROVE OwnerInv'
    OBVIOUS
  <2>1. CASE Next
    BY <2>1, MediaStepInv, CallStepInv
  <2>2. CASE UNCHANGED vars
    BY <2>2 DEF OwnerInv, TypeOK, SessionInv, CallsInv, DescriptorOwned
  <2> QED
    BY <2>1, <2>2
<1> QED
  BY <1>1, <1>2, PTL DEF Spec

\* xc_owner_set_fd and xc_owner_clear_fd (media.c:122-136): the descriptor the
\* owner shuts down on a stop request is open, however often sessions fail.
THEOREM DescriptorNeverStale == Spec => []DescriptorOwned
<1>1. OwnerInv => DescriptorOwned
  BY DEF OwnerInv, SessionInv
<1> QED
  BY <1>1, OwnerInvariant, PTL

\* xc_sidecar_reset_adapter and main() (main.c:154-183, 469-486): the sidecar
\* is ended or replaced only when no AI thread is left to be joined.
THEOREM SidecarReplacedAlone == Spec => ReplacedAlone
<1>1. OwnerInv /\ [Next]_vars => [sidecar' # sidecar => thread = "none"]_vars
  <2> SUFFICES ASSUME OwnerInv, Next, sidecar' # sidecar PROVE thread = "none"
    OBVIOUS
  <2>1. Kill \/ Launch \/ OwnerDestroy
    BY DEF Next, MediaStep, Notify, Loop, Connect, SetFd, Receive, SessionEnd, Failed, Stopped,
           Delay, StopStep, StopBegin, StopJoin, StopEnd, OwnerStart, AIStop, Reset, WorkerExit,
           InputGone, Quit, RequestStop, WorkerJoined, Terminated
  <2> QED
    BY <2>1 DEF Kill, Launch, OwnerDestroy, OwnerInv, CallsInv
<1> QED
  BY <1>1, OwnerInvariant, PTL DEF Spec, ReplacedAlone
-----------------------------------------------------------------------------
(* The abstract specification MediaLease *)

\* A thread that leaves for good was asked to, and is asked still.
StopKept == thread \in {"stopped", "dead"} => stop

LEMMA StopInvariance == Spec => []StopKept
<1>1. Init => StopKept
  BY DEF Init, StopKept
<1>2. OwnerInv /\ StopKept /\ [Next]_vars => StopKept'
  <2> SUFFICES ASSUME OwnerInv, StopKept, [Next]_vars PROVE StopKept'
    OBVIOUS
  <2> USE DEF OwnerInv, TypeOK, CallsInv, StopKept
  <2>1. CASE MediaStep
    BY <2>1 DEF MediaStep, Notify, Loop, Connect, SetFd, Receive, SessionEnd, Failed, Stopped,
                Delay
  <2>2. ASSUME NEW c \in Callers, StopStep(c) PROVE StopKept'
    BY <2>2 DEF StopStep, StopBegin, StopJoin, StopEnd
  <2>3. CASE OwnerStart
    BY <2>3 DEF OwnerStart
  <2>4. CASE AIStop \/ Reset \/ Kill \/ Launch \/ WorkerExit
    BY <2>4 DEF AIStop, Reset, Kill, Launch, WorkerExit
  <2>5. CASE InputGone \/ Quit \/ WorkerJoined \/ OwnerDestroy \/ Terminated
    BY <2>5 DEF InputGone, Quit, RequestStop, WorkerJoined, OwnerDestroy, Terminated
  <2>6. CASE UNCHANGED vars
    BY <2>6
  <2> QED
    BY <2>1, <2>2, <2>3, <2>4, <2>5, <2>6 DEF Next
<1> QED
  BY <1>1, <1>2, OwnerInvariant, PTL DEF Spec

\* Every step of the thread, and every call of the owner, is a step of the lease or
\* leaves it alone: in particular only xc_media_owner_start takes a request
\* back, and it finds no thread alive.
LEMMA LeaseStep ==
    ASSUME OwnerInv, StopKept, [Next]_vars
    PROVE  [Lease!LeaseNext]_(Lease!lease)
<1> DEFINE run == thread \notin {"none", "dead"}
<1> USE DEF Lease!LeaseNext, Lease!lease
<1>1. CASE MediaStep
  <2>1. stop' = stop /\ run
    BY <1>1 DEF MediaStep, Notify, Loop, Connect, SetFd, Receive, SessionEnd, Failed, Stopped,
                Delay
  <2>2. thread' # "none" /\ (thread' = "dead" => stop)
    BY <1>1 DEF MediaStep, Notify, Loop, Connect, SetFd, Receive, SessionEnd, Failed, Stopped,
                Delay, StopKept
  <2> QED
    BY <2>1, <2>2 DEF Lease!LeaseEnd, OwnerInv, TypeOK
<1>2. ASSUME NEW c \in Callers, StopStep(c) PROVE [Lease!LeaseNext]_(Lease!lease)
  <2>1. run' = run /\ stop' \in {stop, TRUE}
    BY <1>2 DEF StopStep, StopBegin, StopJoin, StopEnd, OwnerInv, TypeOK
  <2> QED
    BY <2>1 DEF Lease!LeaseStop
<1>3. CASE OwnerStart
  <2>1. ~run /\ stop' = FALSE
    BY <1>3 DEF OwnerStart, OwnerInv, CallsInv
  <2> QED
    BY <2>1 DEF Lease!LeaseStart
<1>4. CASE AIStop \/ Reset \/ Kill \/ Launch \/ WorkerExit \/ WorkerJoined \/ OwnerDestroy
           \/ Terminated \/ UNCHANGED vars
  BY <1>4 DEF AIStop, Reset, Kill, Launch, WorkerExit, WorkerJoined, OwnerDestroy, Terminated
<1>5. CASE InputGone \/ Quit
  BY <1>5 DEF InputGone, Quit, RequestStop, Lease!LeaseStop
<1> QED
  BY <1>1, <1>2, <1>3, <1>4, <1>5 DEF Next

\* media_owner.c implements what module Service assumes of it: one AI thread at
\* a time, a request to stop is not taken back while it runs, and it leaves
\* only on request.  That it does leave is checked by TLC (Leased).
THEOREM OwnerKeepsLease == Spec => Lease!LeaseInit /\ [][Lease!LeaseNext]_(Lease!lease)
<1>1. Init => Lease!LeaseInit
  BY DEF Init, Lease!LeaseInit
<1> QED
  BY <1>1, LeaseStep, OwnerInvariant, StopInvariance, PTL DEF Spec
-----------------------------------------------------------------------------
(* Every join ends *)

\* Whoever joins the AI thread has asked it to stop, and whoever waits for
\* another join waits for a caller that is in it.
JoinDue ==
    /\ \A c \in Callers : caller[c] = "join" => stop /\ thread # "none"
    /\ joining => \E c \in Callers : caller[c] \in {"join", "joined"}
    /\ joinable /\ thread = "none" => joining

\* The steps left, at most, until a thread that was asked to stop has ended.
ThreadLeft ==
    CASE thread = "none"                             -> 0
      [] thread = "dead"                             -> 1
      [] thread \in {"loop", "stopped"}              -> 2
      [] thread \in {"starting", "restart", "delay"} -> 3
      [] thread = "retry"                            -> 4
      [] thread = "failed"                           -> 5
      [] thread = "done"                             -> 6
      [] thread = "frames"                           -> 7
      [] thread = "hello"                            -> 8
      [] thread = "greet"                            -> 9
      [] thread = "publish"                          -> 10
      [] OTHER                                       -> 11

\* The request to stop is not taken back, and each step answers to it.
ThreadEnds ==
    [][stop /\ thread # "none" =>
          stop' /\ ThreadLeft' <= ThreadLeft /\ (MediaStep => ThreadLeft' < ThreadLeft)]_vars

\* A join begins with the request, and no other call takes either back.
LEMMA JoinDueStep ==
    ASSUME OwnerInv, JoinDue, [Next]_vars
    PROVE  JoinDue'
<1> USE DEF OwnerInv, TypeOK, CallsInv, JoinDue
<1>1. CASE MediaStep
  <2>1. thread' # "none" /\ UNCHANGED <<ownerVars, callVars>>
    BY <1>1 DEF MediaStep, Notify, Loop, Connect, SetFd, Receive, SessionEnd, Failed, Stopped,
                Delay
  <2>2. thread # "none"
    BY <1>1 DEF MediaStep, Notify, Loop, Connect, SetFd, Receive, SessionEnd, Failed, Stopped,
                Delay
  <2> QED
    BY <2>1, <2>2
<1>2. ASSUME NEW c \in Callers, StopStep(c) PROVE JoinDue'
  <2>1. CASE StopBegin(c)
    BY <2>1 DEF StopBegin
  <2>2. CASE StopJoin(c)
    BY <2>2 DEF StopJoin
  <2>3. CASE StopEnd(c)
    BY <2>3 DEF StopEnd
  <2> QED
    BY <1>2, <2>1, <2>2, <2>3 DEF StopStep
<1>3. CASE OwnerStart
  BY <1>3 DEF OwnerStart
<1>4. CASE AIStop \/ Reset \/ Kill \/ Launch
  BY <1>4 DEF AIStop, Reset, Kill, Launch
<1>5. CASE WorkerExit \/ WorkerJoined \/ OwnerDestroy
  BY <1>5 DEF WorkerExit, WorkerJoined, OwnerDestroy
<1>6. CASE InputGone \/ Quit
  BY <1>6 DEF InputGone, Quit, RequestStop
<1>7. CASE Terminated \/ UNCHANGED vars
  BY <1>7 DEF Terminated
<1> QED
  BY <1>1, <1>2, <1>3, <1>4, <1>5, <1>6, <1>7 DEF Next

\* Every step of a thread that was asked to stop leads towards its end.
LEMMA ThreadStep ==
    ASSUME OwnerInv, stop, MediaStep
    PROVE  stop' /\ ThreadLeft' < ThreadLeft
<1>1. stop'
  BY DEF MediaStep, Notify, Loop, Connect, SetFd, Receive, SessionEnd, Failed, Stopped, Delay
<1>2. CASE Notify
  BY <1>1, <1>2 DEF Notify, ThreadLeft
<1>3. CASE Loop
  BY <1>1, <1>3 DEF Loop, ThreadLeft
<1>4. CASE Connect
  BY <1>1, <1>4 DEF Connect, ThreadLeft
<1>5. CASE SetFd
  BY <1>1, <1>5 DEF SetFd, ThreadLeft
<1>6. CASE Receive
  BY <1>1, <1>6 DEF Receive, ThreadLeft
<1>7. CASE SessionEnd
  BY <1>1, <1>7 DEF SessionEnd, ThreadLeft
<1>8. CASE Failed
  BY <1>1, <1>8 DEF Failed, ThreadLeft
<1>9. CASE Stopped
  BY <1>1, <1>9 DEF Stopped, ThreadLeft
<1>10. CASE Delay
  BY <1>1, <1>10 DEF Delay, ThreadLeft
<1> QED
  BY <1>2, <1>3, <1>4, <1>5, <1>6, <1>7, <1>8, <1>9, <1>10 DEF MediaStep

\* Everybody else leaves the thread alone, but for the join of a thread that ended.
LEMMA OthersKeepStop ==
    ASSUME OwnerInv, stop, thread # "none", [Next]_vars, ~MediaStep
    PROVE  stop' /\ ThreadLeft' <= ThreadLeft
<1> USE DEF OwnerInv, TypeOK, CallsInv
<1>1. ThreadLeft \in 0..11
  BY DEF ThreadLeft
<1>2. ASSUME NEW c \in Callers, StopStep(c) PROVE stop' /\ ThreadLeft' <= ThreadLeft
  <2>1. CASE StopJoin(c)
    BY <2>1 DEF StopJoin, ThreadLeft
  <2>2. CASE StopBegin(c) \/ StopEnd(c)
    <3>1. UNCHANGED thread /\ stop'
      BY <2>2 DEF StopBegin, StopEnd
    <3> QED
      BY <1>1, <3>1 DEF ThreadLeft
  <2> QED
    BY <1>2, <2>1, <2>2 DEF StopStep
<1>3. CASE \A c \in Callers : ~StopStep(c)
  <2>1. UNCHANGED thread /\ stop'
    BY <1>3 DEF Next, OwnerStart, AIStop, Reset, Kill, Launch, WorkerExit, InputGone, Quit,
                RequestStop, WorkerJoined, OwnerDestroy, Terminated
  <2> QED
    BY <1>1, <2>1 DEF ThreadLeft
<1> QED
  BY <1>2, <1>3

\* xc_media_owner_stop returns, its fairness apart: a caller waits only for a
\* thread that was asked to stop, which is at most eleven steps from its end
\* and goes there, or for another caller that is joining it.
THEOREM JoinsEnd == Spec => []JoinDue /\ [](ThreadLeft \in 0..11) /\ ThreadEnds
<1>1. Init => JoinDue
  BY DEF Init, JoinDue
<1>2. OwnerInv /\ JoinDue /\ [Next]_vars => JoinDue'
  BY JoinDueStep
<1>3. OwnerInv => ThreadLeft \in 0..11
  BY DEF ThreadLeft
<1>4. OwnerInv /\ [Next]_vars
        => [stop /\ thread # "none" =>
              stop' /\ ThreadLeft' <= ThreadLeft /\ (MediaStep => ThreadLeft' < ThreadLeft)]_vars
  <2> SUFFICES ASSUME OwnerInv, [Next]_vars, stop, thread # "none"
               PROVE  /\ stop' /\ ThreadLeft' <= ThreadLeft
                      /\ MediaStep => ThreadLeft' < ThreadLeft
    OBVIOUS
  <2>1. CASE MediaStep
    <3>1. stop' /\ ThreadLeft' < ThreadLeft
      BY <2>1, ThreadStep
    <3>2. ThreadLeft \in Nat /\ ThreadLeft' \in Nat
      BY DEF ThreadLeft
    <3> QED
      BY <3>1, <3>2
  <2>2. CASE ~MediaStep
    BY <2>2, OthersKeepStop
  <2> QED
    BY <2>1, <2>2
<1> QED
  BY <1>1, <1>2, <1>3, <1>4, OwnerInvariant, PTL DEF Spec, ThreadEnds
=============================================================================
