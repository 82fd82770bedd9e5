--------------------------- MODULE SidecarProofs ---------------------------
(***************************************************************************)
(* Module Sidecar implements module MediaOwner, so its invariants hold of   *)
(* it; on top of them ProcInv follows the process, the token and the        *)
(* monitors through a reset and the end of main().  DueInv says what the    *)
(* threads wait for, and two measures that they get it.                     *)
(***************************************************************************)
EXTENDS Sidecar, MediaOwnerProofs

USE DEF mediaVars, ownerVars, callVars, vars, Callers, Places, Moves, Goes, Calls,
        storeVars, childVars, appVars, sidecarVars

\* Every step is one of the owner's or leaves its state alone.
LEMMA StepIsOwners ==
    ASSUME [SidecarNext]_sidecarVars
    PROVE  [Next]_vars
<1> USE DEF Next
<1>1. CASE OwnerStep
  BY <1>1 DEF OwnerStep, Alone
<1>2. CASE ChildEnds \/ ChildLogsIn \/ BridgeStops \/ EventStops \/ Signal
  BY <1>2 DEF ChildEnds, ChildLogsIn, BridgeStops, EventStops, Signal
<1>3. CASE ResetBegin
  BY <1>3 DEF ResetBegin
<1>4. CASE ResetStep
  BY <1>4 DEF ResetStep, KillBegin, KillEnd, Killed, StopForce, ClearToken, ClearFails, ResetFails,
              Spawn, SpawnFails, Await, Ready, UndoEnd, Undone
<1>5. CASE MainStep
  BY <1>5 DEF MainStep, QuitMain, EndChild, MainEnds
<1>6. CASE Alone(Terminated)
  BY <1>6 DEF Alone
<1>7. CASE UNCHANGED sidecarVars
  BY <1>7
<1> QED
  BY <1>1, <1>2, <1>3, <1>4, <1>5, <1>6, <1>7 DEF SidecarNext

\* process.c, main.c:126-183 and 469-486: what the process is started, polled
\* and ended with are the owner's steps Kill, Launch and OwnerDestroy.
THEOREM SidecarImplementsOwner == SidecarSpec => Spec
<1>1. SidecarInit => Init
  BY DEF SidecarInit
<1> QED
  BY <1>1, StepIsOwners, PTL DEF SidecarSpec, Spec

\* The owner's invariant, here too.
LEMMA OwnerInvariantHere == SidecarSpec => []OwnerInv
BY OwnerInvariant, SidecarImplementsOwner, PTL

\* Where the worker and main() are while they do something to the child.
Entered ==
    \/ caller["worker"] = "kill"
    \/ caller["worker"] \in {"stop", "join", "joined"} /\ return["worker"] = "kill"

MainOver ==
    \/ caller["main"] = "end"
    \/ caller["main"] \in {"stop", "join", "joined"} /\ return["main"] = "end"

Before == {"none", "enter", "stop", "force"}
Launching == {"clear", "sync", "rename", "directory", "spawn", "await", "ready", "undo",
              "undoForce", "undone"}
MainJobs == {"mainStop", "mainForce"}

PlaceInv ==
    /\ job \in Before \cup Launching \cup MainJobs
    /\ job = "enter" => Entered
    /\ job \in Stopping => caller["worker"] = "kill"
    /\ job \in Launching => caller["worker"] = "launch"
    /\ job \in MainJobs => caller["main"] = "killed"
    /\ resetting <=> job \notin MainJobs \cup {"none"}
    /\ caller["main"] # "serve" => ~bridge /\ ~event

\* The child that is alive, and who knows of it.
ChildInv ==
    /\ child = "reaped" <=> exited
    /\ child # "reaped" =>
         \/ lost
         \/ started /\ job \in Before \cup MainJobs
         \/ job \in {"await", "ready", "undo", "undoForce"}
    /\ job \in Stopping \cup MainJobs \cup {"ready"} => started
    /\ job \in {"clear", "sync", "rename", "directory", "spawn", "await"} => ~started
    /\ job \in {"await", "ready"} => ~signalled
    /\ MainOver => job = "none" /\ (child = "reaped" \/ lost \/ ~stopOK)
    /\ started /\ job \in Before => sidecar # 0 \/ MainOver

\* Once it is replaced nobody can log in before the new one is bound.
TokenInv ==
    /\ job \in Launching => sidecar = 0
    /\ job = "sync" => temp = "written"
    /\ job = "rename" => temp = "synced"
    /\ temp # "none" => job \in {"sync", "rename"}
    /\ job \in {"directory", "spawn", "await", "ready", "undo", "undoForce"} => file = "blank"
    /\ "torn" \notin disk

ProcInv == PlaceInv /\ ChildInv /\ TokenInv

\* A step of the owner's leaves the callers where ProcInv looks for them.
Keeps ==
    /\ Entered => Entered'
    /\ caller["worker"] \in {"kill", "launch"} => caller'["worker"] = caller["worker"]
    /\ caller["main"] = "killed" => caller'["main"] = "killed"
    /\ caller'["main"] # "serve" => caller["main"] # "serve"
    /\ MainOver' <=> MainOver
    /\ sidecar' = sidecar

LEMMA KeepsProcInv ==
    ASSUME ProcInv, Keeps, UNCHANGED <<storeVars, childVars, job, appVars>>
    PROVE  ProcInv'
<1>1. PlaceInv'
  BY DEF ProcInv, PlaceInv, Keeps, Stopping, Launching, MainJobs
<1>2. ChildInv'
  BY DEF ProcInv, ChildInv, Keeps, Stopping, Before, MainJobs
<1>3. TokenInv'
  BY DEF ProcInv, TokenInv, Keeps
<1> QED
  BY <1>1, <1>2, <1>3 DEF ProcInv

LEMMA OwnerStepKeeps ==
    ASSUME OwnerInv, OwnerStep
    PROVE  Keeps
<1> USE DEF OwnerInv, TypeOK, CallsInv, Keeps, Entered, MainOver, Alone
<1>1. CASE Alone(MediaStep)
  <2>1. UNCHANGED callVars
    BY <1>1 DEF MediaStep, Notify, Loop, Connect, SetFd, Receive, SessionEnd, Failed, Stopped,
                Delay
  <2> QED
    BY <2>1
<1>2. ASSUME NEW c \in Callers, Alone(StopStep(c)) PROVE Keeps
  <2>1. CASE StopBegin(c)
    BY <2>1 DEF StopBegin
  <2>2. CASE StopJoin(c)
    BY <2>2 DEF StopJoin
  <2>3. CASE StopEnd(c)
    BY <2>3 DEF StopEnd
  <2> QED
    BY <1>2, <2>1, <2>2, <2>3 DEF StopStep
<1>3. CASE Alone(OwnerStart)
  BY <1>3 DEF OwnerStart
<1>4. CASE Alone(AIStop)
  BY <1>4 DEF AIStop
<1>5. CASE Alone(WorkerExit)
  BY <1>5 DEF WorkerExit
<1>6. CASE Alone(WorkerJoined)
  BY <1>6 DEF WorkerJoined
<1>7. CASE Alone(event /\ InputGone)
  BY <1>7 DEF InputGone, RequestStop
<1> QED
  BY <1>1, <1>2, <1>3, <1>4, <1>5, <1>6, <1>7 DEF OwnerStep

\* The process, its monitors and a signal to the plugin.
LEMMA OutsideInv ==
    ASSUME OwnerInv, ProcInv,
           ChildEnds \/ ChildLogsIn \/ BridgeStops \/ EventStops \/ Signal
    PROVE  ProcInv'
<1> USE DEF OwnerInv, TypeOK, CallsInv, ProcInv, PlaceInv, ChildInv, TokenInv, Before, Launching,
            MainJobs, Stopping
<1>1. CASE ChildEnds
  <2>1. MainOver' <=> MainOver
    BY <1>1 DEF MainOver, ChildEnds
  <2>2. PlaceInv'
    BY <1>1 DEF Entered, ChildEnds
  <2>3. ChildInv'
    BY <1>1, <2>1 DEF ChildEnds
  <2>4. TokenInv'
    BY <1>1 DEF ChildEnds
  <2> QED
    BY <2>2, <2>3, <2>4 DEF ProcInv
<1>2. CASE ChildLogsIn
  <2>1. MainOver' <=> MainOver
    BY <1>2 DEF MainOver, ChildLogsIn
  <2>2. PlaceInv'
    BY <1>2 DEF Entered, ChildLogsIn
  <2>3. ChildInv'
    BY <1>2, <2>1 DEF ChildLogsIn
  <2>4. TokenInv'
    BY <1>2 DEF ChildLogsIn
  <2> QED
    BY <2>2, <2>3, <2>4 DEF ProcInv
<1>3. CASE BridgeStops
  <2>1. MainOver' <=> MainOver
    BY <1>3 DEF MainOver, BridgeStops, SeesExit, Poll
  <2>2. PlaceInv'
    BY <1>3 DEF Entered, BridgeStops, SeesExit, Poll
  <2>3. ChildInv'
    BY <1>3, <2>1 DEF BridgeStops, SeesExit, Poll
  <2>4. TokenInv'
    BY <1>3 DEF BridgeStops, SeesExit, Poll
  <2> QED
    BY <2>2, <2>3, <2>4 DEF ProcInv
<1>4. CASE EventStops
  <2>1. MainOver' <=> MainOver
    BY <1>4 DEF MainOver, EventStops, SeesExit, Poll
  <2>2. PlaceInv'
    BY <1>4 DEF Entered, EventStops, SeesExit, Poll
  <2>3. ChildInv'
    BY <1>4, <2>1 DEF EventStops, SeesExit, Poll
  <2>4. TokenInv'
    BY <1>4 DEF EventStops, SeesExit, Poll
  <2> QED
    BY <2>2, <2>3, <2>4 DEF ProcInv
<1>5. CASE Signal
  <2>1. MainOver' <=> MainOver
    BY <1>5 DEF MainOver, Signal
  <2>2. PlaceInv'
    BY <1>5 DEF Entered, Signal
  <2>3. ChildInv'
    BY <1>5, <2>1 DEF Signal
  <2>4. TokenInv'
    BY <1>5 DEF Signal
  <2> QED
    BY <2>2, <2>3, <2>4 DEF ProcInv
<1> QED
  BY <1>1, <1>2, <1>3, <1>4, <1>5

\* A reset up to the end of the old process.
LEMMA KillInv ==
    ASSUME OwnerInv, ProcInv,
           ResetBegin \/ KillBegin \/ KillEnd \/ StopForce
    PROVE  ProcInv'
<1> USE DEF OwnerInv, TypeOK, CallsInv, ProcInv, PlaceInv, ChildInv, TokenInv, Before, Launching,
            MainJobs, Stopping
<1>1. CASE ResetBegin
  <2>1. ~MainOver /\ ~MainOver'
    BY <1>1 DEF MainOver, ResetBegin, Reset
  <2>2. PlaceInv'
    BY <1>1 DEF Entered, ResetBegin, Reset
  <2>3. ChildInv'
    <3>1. UNCHANGED <<childVars, sidecar, stopOK>> /\ job = "none" /\ job' = "enter"
      BY <1>1 DEF ResetBegin, Reset, Entered
    <3> QED
      BY <2>1, <3>1
  <2>4. TokenInv'
    BY <1>1 DEF ResetBegin, Reset
  <2> QED
    BY <2>2, <2>3, <2>4 DEF ProcInv
<1>2. CASE KillBegin
  <2>1. MainOver' <=> MainOver
    BY <1>2 DEF MainOver, KillBegin, Killed, Kill
  <2>2. PlaceInv'
    BY <1>2 DEF Entered, KillBegin, Killed, Kill
  <2>3. ChildInv'
    BY <1>2, <2>1 DEF KillBegin, Killed, Kill
  <2>4. TokenInv'
    BY <1>2 DEF KillBegin, Killed, Kill
  <2> QED
    BY <2>2, <2>3, <2>4 DEF ProcInv
<1>3. CASE KillEnd
  <2>1. MainOver' <=> MainOver
    BY <1>3 DEF MainOver, KillEnd, Killed, Kill, Ended, GivenUp
  <2>2. PlaceInv'
    BY <1>3 DEF Entered, KillEnd, Killed, Kill, Ended, GivenUp
  <2>3. ChildInv'
    BY <1>3, <2>1 DEF KillEnd, Killed, Kill, Ended, GivenUp
  <2>4. TokenInv'
    BY <1>3 DEF KillEnd, Killed, Kill, Ended, GivenUp
  <2> QED
    BY <2>2, <2>3, <2>4 DEF ProcInv
<1>4. CASE StopForce
  <2>1. MainOver' <=> MainOver
    BY <1>4 DEF MainOver, StopForce
  <2>2. PlaceInv'
    BY <1>4 DEF Entered, StopForce
  <2>3. ChildInv'
    BY <1>4, <2>1 DEF StopForce
  <2>4. TokenInv'
    BY <1>4 DEF StopForce
  <2> QED
    BY <2>2, <2>3, <2>4 DEF ProcInv
<1> QED
  BY <1>1, <1>2, <1>3, <1>4

\* The rest of a reset: the token and the new process.
LEMMA LaunchInv ==
    ASSUME OwnerInv, ProcInv,
           ClearToken \/ ClearFails \/ Spawn \/ SpawnFails \/ Await \/ Ready \/ UndoEnd \/ Undone
    PROVE  ProcInv'
<1> USE DEF OwnerInv, TypeOK, CallsInv, ProcInv, PlaceInv, ChildInv, TokenInv, Before, Launching,
            MainJobs, Stopping
<1>1. CASE ClearToken
  <2>1. MainOver' <=> MainOver
    BY <1>1 DEF MainOver, ClearToken, WriteTemp, SyncTemp, Rename, SyncDirectory
  <2>2. PlaceInv'
    BY <1>1 DEF Entered, ClearToken, WriteTemp, SyncTemp, Rename, SyncDirectory
  <2>3. ChildInv'
    BY <1>1, <2>1 DEF ClearToken, WriteTemp, SyncTemp, Rename, SyncDirectory
  <2>4. TokenInv'
    BY <1>1 DEF ClearToken, WriteTemp, SyncTemp, Rename, SyncDirectory
  <2> QED
    BY <2>2, <2>3, <2>4 DEF ProcInv
<1>2. CASE ClearFails
  <2>1. MainOver' <=> MainOver
    BY <1>2 DEF MainOver, ClearFails, Abandon, ResetFails, Launch
  <2>2. PlaceInv'
    BY <1>2 DEF Entered, ClearFails, Abandon, ResetFails, Launch
  <2>3. ChildInv'
    BY <1>2, <2>1 DEF ClearFails, Abandon, ResetFails, Launch
  <2>4. TokenInv'
    BY <1>2 DEF ClearFails, Abandon, ResetFails, Launch
  <2> QED
    BY <2>2, <2>3, <2>4 DEF ProcInv
<1>3. CASE Spawn
  <2>1. MainOver' <=> MainOver
    BY <1>3 DEF MainOver, Spawn
  <2>2. PlaceInv'
    BY <1>3 DEF Entered, Spawn
  <2>3. ChildInv'
    BY <1>3, <2>1 DEF Spawn
  <2>4. TokenInv'
    BY <1>3 DEF Spawn
  <2> QED
    BY <2>2, <2>3, <2>4 DEF ProcInv
<1>4. CASE SpawnFails
  <2>1. MainOver' <=> MainOver
    BY <1>4 DEF MainOver, SpawnFails, ResetFails, Launch
  <2>2. PlaceInv'
    BY <1>4 DEF Entered, SpawnFails, ResetFails, Launch
  <2>3. ChildInv'
    BY <1>4, <2>1 DEF SpawnFails, ResetFails, Launch
  <2>4. TokenInv'
    BY <1>4 DEF SpawnFails, ResetFails, Launch
  <2> QED
    BY <2>2, <2>3, <2>4 DEF ProcInv
<1>5. CASE Await
  <2>1. MainOver' <=> MainOver
    BY <1>5 DEF MainOver, Await, Ended
  <2>2. PlaceInv'
    BY <1>5 DEF Entered, Await, Ended
  <2>3. ChildInv'
    BY <1>5, <2>1 DEF Await, Ended
  <2>4. TokenInv'
    BY <1>5 DEF Await, Ended
  <2> QED
    BY <2>2, <2>3, <2>4 DEF ProcInv
<1>6. CASE Ready
  <2>1. MainOver' <=> MainOver
    BY <1>6 DEF MainOver, Ready, Ended, Launch
  <2>2. PlaceInv'
    BY <1>6 DEF Entered, Ready, Ended, Launch
  <2>3. ChildInv'
    <3>1. CASE sidecar' # sidecar
      <4>1. sidecar' # 0
        BY <1>6, <3>1, MaxPidOK DEF Ready, Launch
      <4>2. job' = "none" /\ UNCHANGED <<childVars, stopOK>>
        BY <1>6, <3>1 DEF Ready
      <4> QED
        BY <1>6, <2>1, <4>1, <4>2 DEF Ready
    <3>2. CASE sidecar' = sidecar
      <4>1. job' \in {"undone", "undo"} /\ UNCHANGED <<lost, stopOK, started>>
        BY <1>6, <3>2 DEF Ready
      <4>2. (child' = "reaped" /\ exited' = TRUE) \/ (job' = "undo" /\ UNCHANGED <<child, exited>>)
        BY <1>6, <3>2 DEF Ready, Ended
      <4> QED
        BY <1>6, <2>1, <3>2, <4>1, <4>2 DEF Ready
    <3> QED
      BY <3>1, <3>2
  <2>4. TokenInv'
    BY <1>6 DEF Ready, Ended, Launch
  <2> QED
    BY <2>2, <2>3, <2>4 DEF ProcInv
<1>7. CASE UndoEnd
  <2>1. MainOver' <=> MainOver
    BY <1>7 DEF MainOver, UndoEnd, Ended
  <2>2. PlaceInv'
    BY <1>7 DEF Entered, UndoEnd, Ended
  <2>3. ChildInv'
    BY <1>7, <2>1 DEF UndoEnd, Ended
  <2>4. TokenInv'
    BY <1>7 DEF UndoEnd, Ended
  <2> QED
    BY <2>2, <2>3, <2>4 DEF ProcInv
<1>8. CASE Undone
  <2>1. MainOver' <=> MainOver
    BY <1>8 DEF MainOver, Undone, ResetFails, Launch
  <2>2. PlaceInv'
    BY <1>8 DEF Entered, Undone, ResetFails, Launch
  <2>3. ChildInv'
    BY <1>8, <2>1 DEF Undone, ResetFails, Launch
  <2>4. TokenInv'
    BY <1>8 DEF Undone, ResetFails, Launch
  <2> QED
    BY <2>2, <2>3, <2>4 DEF ProcInv
<1> QED
  BY <1>1, <1>2, <1>3, <1>4, <1>5, <1>6, <1>7, <1>8

\* The end of main().
LEMMA MainInv ==
    ASSUME OwnerInv, ProcInv,
           MainStep
    PROVE  ProcInv'
<1> USE DEF OwnerInv, TypeOK, CallsInv, ProcInv, PlaceInv, ChildInv, TokenInv, Before, Launching,
            MainJobs, Stopping
<1>1. CASE QuitMain
  <2>1. MainOver' <=> MainOver
    BY <1>1 DEF MainOver, QuitMain, Quit
  <2>2. PlaceInv'
    BY <1>1 DEF Entered, QuitMain, Quit
  <2>3. ChildInv'
    BY <1>1, <2>1 DEF QuitMain, Quit
  <2>4. TokenInv'
    BY <1>1 DEF QuitMain, Quit
  <2> QED
    BY <2>2, <2>3, <2>4 DEF ProcInv
<1>2. CASE EndChild
  <2>1. MainOver' <=> MainOver
    BY <1>2 DEF MainOver, EndChild
  <2>2. PlaceInv'
    BY <1>2 DEF Entered, EndChild
  <2>3. ChildInv'
    BY <1>2, <2>1 DEF MainOver, EndChild
  <2>4. TokenInv'
    BY <1>2 DEF EndChild
  <2> QED
    BY <2>2, <2>3, <2>4 DEF ProcInv
<1>3. CASE MainEnds
  <2>1. MainOver' /\ ~MainOver
    BY <1>3 DEF MainOver, MainEnds, OwnerDestroy, Ended
  <2>2. PlaceInv'
    BY <1>3 DEF Entered, MainEnds, OwnerDestroy, Ended
  <2>3. ChildInv'
    BY <1>3, <2>1 DEF MainEnds, OwnerDestroy, Ended
  <2>4. TokenInv'
    BY <1>3 DEF MainEnds, OwnerDestroy, Ended
  <2> QED
    BY <2>2, <2>3, <2>4 DEF ProcInv
<1> QED
  BY <1>1, <1>2, <1>3 DEF MainStep

\* The invariant of the process is inductive on top of the owner's.
LEMMA ProcInvariant == SidecarSpec => []ProcInv
<1>1. SidecarInit => ProcInv
  BY DEF SidecarInit, Init, StoreInit, ProcInv, PlaceInv, ChildInv, TokenInv, MainOver, Before,
         Launching, MainJobs, Stopping
<1>2. OwnerInv /\ ProcInv /\ [SidecarNext]_sidecarVars => ProcInv'
  <2> SUFFICES ASSUME OwnerInv, ProcInv, [SidecarNext]_sidecarVars PROVE ProcInv'
    OBVIOUS
  <2>1. CASE OwnerStep
    <3>1. UNCHANGED <<storeVars, childVars, job, appVars>>
      BY <2>1 DEF OwnerStep, Alone
    <3> QED
      BY <2>1, <3>1, OwnerStepKeeps, KeepsProcInv
  <2>2. CASE ChildEnds \/ ChildLogsIn \/ BridgeStops \/ EventStops \/ Signal
    BY <2>2, OutsideInv
  <2>3. CASE ResetBegin \/ KillBegin \/ KillEnd \/ StopForce
    BY <2>3, KillInv
  <2>4. CASE ClearToken \/ ClearFails \/ Spawn \/ SpawnFails \/ Await \/ Ready \/ UndoEnd \/ Undone
    BY <2>4, LaunchInv
  <2>5. CASE MainStep
    BY <2>5, MainInv
  <2>6. CASE Alone(Terminated) \/ UNCHANGED sidecarVars
    <3>1. UNCHANGED sidecarVars
      BY <2>6 DEF Alone, Terminated
    <3> QED
      BY <3>1, KeepsProcInv DEF Keeps, Entered, MainOver
  <2> QED
    BY <2>1, <2>2, <2>3, <2>4, <2>5, <2>6 DEF SidecarNext, ResetStep
<1> QED
  BY <1>1, <1>2, OwnerInvariantHere, PTL DEF SidecarSpec

\* media.c:122-136 and main.c:154-183, with the process: the two properties of
\* module MediaOwner hold here because this module implements it.
THEOREM DescriptorOwnedHere == SidecarSpec => []DescriptorOwned
BY DescriptorNeverStale, SidecarImplementsOwner, PTL

THEOREM ReplacedAloneHere == SidecarSpec => ReplacedAlone
BY SidecarReplacedAlone, SidecarImplementsOwner, PTL

\* The AI thread keeps to its lease in the whole process: whatever the sidecar,
\* its resets and the monitors do.
THEOREM LeaseKeptHere == SidecarSpec => Lease!LeaseInit /\ [][Lease!LeaseNext]_(Lease!lease)
BY OwnerKeepsLease, SidecarImplementsOwner, PTL

\* process.c:139-172 and its callers: a second child is started, and main()
\* returns, only when the first one was reaped or given up after SIGKILL.
THEOREM ChildNeverOrphaned == SidecarSpec => []ChildOwned
<1>1. ProcInv => ChildOwned
  BY DEF ProcInv, PlaceInv, ChildInv, ChildOwned, MainOver, Before, MainJobs, Stopping, Launching
<1> QED
  BY <1>1, ProcInvariant, PTL

\* main.c:169-176 and store.c:53-115: the replacement starts without the token.
THEOREM TokenGoneFirst == SidecarSpec => []TokenGone
<1>1. ProcInv => TokenGone
  BY DEF ProcInv, TokenInv, TokenGone
<1> QED
  BY <1>1, ProcInvariant, PTL

\* xc_should_stop and xc_ready_abort (main.c:290-307, 343-356): what a reset does
\* to the process is never reported as its failure.
THEOREM MonitorsHonest == SidecarSpec => MonitorHonest
<1>1. OwnerInv /\ ProcInv /\ [SidecarNext]_sidecarVars =>
        [failed' /\ ~failed => ~signalled \/ (~resetting /\ sidecar # 0)]_sidecarVars
  <2> SUFFICES ASSUME OwnerInv, ProcInv, SidecarNext, failed' /\ ~failed
               PROVE  ~signalled \/ (~resetting /\ sidecar # 0)
    OBVIOUS
  <2>1. BridgeStops \/ EventStops \/ Ready
    BY DEF SidecarNext, OwnerStep, Alone, ChildEnds, ChildLogsIn, Signal, ResetBegin, ResetStep,
           KillBegin, KillEnd, StopForce, ClearToken, ClearFails, Spawn, SpawnFails, Await,
           UndoEnd, Undone, MainStep, QuitMain, EndChild, MainEnds
  <2>2. CASE BridgeStops \/ EventStops
    <3>1. ~resetting /\ started /\ (bridge \/ event)
      BY <2>2 DEF BridgeStops, EventStops, SeesExit
    <3>2. ~MainOver /\ job = "none"
      BY <3>1 DEF ProcInv, PlaceInv, MainOver, MainJobs
    <3> QED
      BY <3>1, <3>2 DEF ProcInv, ChildInv, Before
  <2>3. CASE Ready
    BY <2>3 DEF Ready, ProcInv, ChildInv
  <2> QED
    BY <2>1, <2>2, <2>3
<1> QED
  BY <1>1, OwnerInvariantHere, ProcInvariant, PTL DEF SidecarSpec, MonitorHonest
-----------------------------------------------------------------------------
(* Every reset and the end of main() come to their end *)

\* A thread in a reset, or main() in its stop, is at a place of it.
Placed ==
    /\ Entered => job \in {"enter"} \cup Stopping
    /\ caller["worker"] = "launch" => job \in Launching
    /\ caller["worker"] \in {"stop", "join", "joined"} => job \notin Stopping
    /\ caller["main"] = "killed" => job \in {"none"} \cup MainJobs

\* A child that is waited for was told to end, and nobody else has reaped it.
ChildDue ==
    /\ child \in {"run", "zombie", "reaped"}
    /\ job \in Stopping \cup MainJobs \cup {"undo", "undoForce"} =>
         child = "zombie" \/ (child = "run" /\ signalled)
    /\ job \in {"await", "ready"} => child # "reaped"

\* The steps left of xc_media_owner_stop.
StopLeft(c) ==
    CASE caller[c] = "stop"   -> 3
      [] caller[c] = "join"   -> 2
      [] caller[c] = "joined" -> 1
      [] OTHER                -> 0

\* The steps left of a reset that is entered, or of main()'s xc_process_stop.
JobLeft ==
    CASE job = "enter"     -> 13
      [] job = "stop"      -> 12
      [] job = "force"     -> 11
      [] job = "clear"     -> 10
      [] job = "sync"      -> 9
      [] job = "rename"    -> 8
      [] job = "directory" -> 7
      [] job = "spawn"     -> 6
      [] job = "await"     -> 5
      [] job = "ready"     -> 4
      [] job = "undo"      -> 3
      [] job = "undoForce" -> 2
      [] job = "undone"    -> 1
      [] job = "mainStop"  -> 5
      [] job = "mainForce" -> 4
      [] OTHER             -> 0

\* The worker's steps left until its call returns.
WorkerLeft == StopLeft("worker") + (IF job \in MainJobs THEN 0 ELSE JobLeft)

\* main()'s steps left until it returns.
MainLeft ==
    StopLeft("main") +
    (CASE caller["main"] = "serve"  -> 11
       [] caller["main"] = "wait"   -> 10
       [] caller["main"] = "killed" -> IF job \in MainJobs THEN JobLeft ELSE 6
       [] MainOver                  -> 0
       [] OTHER                     -> 6)

WorkerGoesOn == (ResetStep /\ job \notin MainJobs) \/ Alone(StopStep("worker"))
MainGoesOn ==
    MainStep \/ (ResetStep /\ job \in MainJobs) \/ Alone(WorkerJoined) \/ Alone(StopStep("main"))

\* Nothing but a new call of the worker's gives it more to do, nothing at all
\* main(), and their own steps bring them nearer to the end.
CallsAdvance ==
    [][/\ caller["worker"] # "idle" => WorkerLeft' <= WorkerLeft
       /\ WorkerGoesOn => WorkerLeft' < WorkerLeft
       /\ MainLeft' <= MainLeft
       /\ MainGoesOn => MainLeft' < MainLeft]_sidecarVars

DueInv == Placed /\ ChildDue

\* A step of the owner's moves nobody who is in the middle of a reset.
LEMMA KeepsDue ==
    ASSUME DueInv, OwnerInv, ProcInv, Keeps, OwnerStep,
           UNCHANGED <<storeVars, childVars, job, appVars>>
    PROVE  DueInv'
<1> USE DEF DueInv
<1>1. ChildDue'
  BY DEF ChildDue
<1>2. Placed'
  <2> USE DEF OwnerInv, TypeOK, CallsInv, Entered, Alone, Placed, Stopping, MainJobs, Launching
  <2>1. CASE Alone(MediaStep) \/ Alone(OwnerStart) \/ Alone(event /\ InputGone)
    <3>1. UNCHANGED <<caller, return>>
      BY <2>1 DEF MediaStep, Notify, Loop, Connect, SetFd, Receive, SessionEnd, Failed, Stopped,
                  Delay, OwnerStart, InputGone, RequestStop
    <3> QED
      BY <3>1
  <2>2. ASSUME NEW c \in Callers, Alone(StopStep(c)) PROVE Placed'
    <3>1. CASE StopBegin(c)
      <4>1. c = "main" => job \in {"none"} \cup MainJobs
        BY <3>1 DEF StopBegin, ProcInv, PlaceInv, Before
      <4>2. c = "worker" => job \notin Stopping /\ (return[c] = "kill" => job = "enter")
        BY <3>1 DEF StopBegin
      <4> QED
        BY <3>1, <4>1, <4>2 DEF StopBegin
    <3>2. CASE StopJoin(c)
      BY <3>2 DEF StopJoin
    <3>3. CASE StopEnd(c)
      BY <3>3 DEF StopEnd
    <3> QED
      BY <2>2, <3>1, <3>2, <3>3 DEF StopStep
  <2>3. CASE Alone(AIStop)
    BY <2>3 DEF AIStop, ProcInv, PlaceInv
  <2>4. CASE Alone(WorkerExit)
    BY <2>4 DEF WorkerExit, ProcInv, PlaceInv
  <2>5. CASE Alone(WorkerJoined)
    BY <2>5 DEF WorkerJoined
  <2> QED
    BY <2>1, <2>2, <2>3, <2>4, <2>5 DEF OwnerStep
<1> QED
  BY <1>1, <1>2

\* The monitors keep away from a child that is being waited for.
LEMMA DueStep ==
    ASSUME OwnerInv, ProcInv, DueInv, [SidecarNext]_sidecarVars
    PROVE  DueInv'
<1> USE DEF OwnerInv, TypeOK, CallsInv, ProcInv, PlaceInv, ChildInv, Before, Launching, MainJobs,
            Stopping, DueInv, Placed, ChildDue, Entered
<1>1. CASE OwnerStep
  <2>1. UNCHANGED <<storeVars, childVars, job, appVars>>
    BY <1>1 DEF OwnerStep, Alone
  <2> QED
    BY <1>1, <2>1, OwnerStepKeeps, KeepsDue
<1>2. CASE ChildEnds \/ ChildLogsIn \/ Signal
  BY <1>2 DEF ChildEnds, ChildLogsIn, Signal
<1>3. CASE BridgeStops
  BY <1>3 DEF BridgeStops, SeesExit, Poll
<1>4. CASE EventStops
  BY <1>4 DEF EventStops, SeesExit, Poll
<1>5. CASE ResetBegin
  BY <1>5 DEF ResetBegin, Reset
<1>6. CASE KillBegin
  <2>1. CASE started /\ ~exited
    BY <1>6, <2>1 DEF KillBegin
  <2>2. CASE ~(started /\ ~exited)
    BY <1>6, <2>2 DEF KillBegin, Killed, Kill
  <2> QED
    BY <2>1, <2>2
<1>7. CASE KillEnd
  BY <1>7 DEF KillEnd, Killed, Kill, Ended, GivenUp
<1>8. CASE StopForce
  BY <1>8 DEF StopForce
<1>9. CASE ClearToken
  BY <1>9 DEF ClearToken, WriteTemp, SyncTemp, Rename, SyncDirectory
<1>10. CASE ClearFails \/ SpawnFails \/ Undone
  BY <1>10 DEF ClearFails, Abandon, SpawnFails, Undone, ResetFails, Launch
<1>11. CASE Spawn \/ Await
  BY <1>11 DEF Spawn, Await, Ended
<1>12. CASE Ready
  <2>1. Placed'
    BY <1>12 DEF Ready, Ended, Launch
  <2>2. ChildDue'
    BY <1>12 DEF Ready, Ended, Launch
  <2> QED
    BY <2>1, <2>2
<1>13. CASE UndoEnd
  BY <1>13 DEF UndoEnd, Ended
<1>14. CASE QuitMain
  BY <1>14 DEF QuitMain, Quit
<1>15. CASE EndChild
  BY <1>15 DEF EndChild
<1>16. CASE MainEnds
  BY <1>16 DEF MainEnds, OwnerDestroy, Ended
<1>17. CASE Alone(Terminated) \/ UNCHANGED sidecarVars
  BY <1>17 DEF Alone, Terminated
<1> QED
  BY <1>1, <1>2, <1>3, <1>4, <1>5, <1>6, <1>7, <1>8, <1>9, <1>10, <1>11, <1>12, <1>13, <1>14,
     <1>15, <1>16, <1>17 DEF SidecarNext, ResetStep, MainStep

LEMMA DueInvariant == SidecarSpec => []DueInv
<1>1. SidecarInit => DueInv
  BY DEF SidecarInit, Init, DueInv, Placed, ChildDue, Entered, Stopping, MainJobs
<1> QED
  BY <1>1, DueStep, OwnerInvariantHere, ProcInvariant, PTL DEF SidecarSpec

\* The measures are numbers, and bounded.
Counted == WorkerLeft \in 0..16 /\ MainLeft \in 0..11

LEMMA LeftCounted ==
    ASSUME OwnerInv, ProcInv
    PROVE  /\ \A c \in Callers : StopLeft(c) \in 0..3
           /\ JobLeft \in 0..13 /\ (job \in MainJobs => JobLeft \in 4..5)
           /\ Counted
<1>1. \A c \in Callers : StopLeft(c) \in 0..3
  BY DEF StopLeft
<1>2. JobLeft \in 0..13 /\ (job \in MainJobs => JobLeft \in 4..5)
  BY DEF JobLeft, MainJobs
<1>3. WorkerLeft \in 0..16
  BY <1>1, <1>2 DEF WorkerLeft
<1>4. MainLeft \in 0..11
  BY <1>1, <1>2 DEF MainLeft, StopLeft
<1> QED
  BY <1>1, <1>2, <1>3, <1>4 DEF Counted

\* Each measure depends on its own thread's place only.
LEMMA WorkerKept ==
    ASSUME UNCHANGED <<caller["worker"], job>> \/
           (UNCHANGED caller["worker"] /\ {job, job'} \subseteq MainJobs \cup {"none"})
    PROVE  WorkerLeft' = WorkerLeft
BY DEF WorkerLeft, StopLeft, JobLeft, MainJobs

LEMMA MainKept ==
    ASSUME UNCHANGED <<caller["main"], return["main"]>>,
           UNCHANGED job \/ {job, job'} \cap MainJobs = {}
    PROVE  MainLeft' = MainLeft
BY DEF MainLeft, MainOver, StopLeft, JobLeft, MainJobs

\* xc_media_owner_stop, called by the worker or by main().
LEMMA StopAdvances ==
    ASSUME OwnerInv, ProcInv, DueInv, NEW c \in Callers, Alone(StopStep(c))
    PROVE  /\ c = "worker" => WorkerLeft' < WorkerLeft /\ MainLeft' = MainLeft
           /\ c = "main" => WorkerLeft' = WorkerLeft /\ MainLeft' < MainLeft
<1> USE DEF OwnerInv, TypeOK, CallsInv
<1>1. StopLeft(c)' < StopLeft(c) /\ UNCHANGED <<return, job>>
      /\ (caller'[c] \in {"stop", "join", "joined"} \/ caller'[c] = return[c])
      /\ caller[c] \in {"stop", "join", "joined"}
      /\ \A d \in Callers : d # c => caller'[d] = caller[d]
  <2>1. CASE StopBegin(c)
    BY <2>1 DEF StopBegin, StopLeft, Alone
  <2>2. CASE StopJoin(c)
    BY <2>2 DEF StopJoin, StopLeft, Alone
  <2>3. CASE StopEnd(c)
    BY <2>3 DEF StopEnd, StopLeft, Alone
  <2> QED
    BY <2>1, <2>2, <2>3 DEF StopStep, Alone
<1>2. CASE c = "worker"
  <2>1. WorkerLeft' < WorkerLeft
    BY <1>1, <1>2 DEF WorkerLeft, StopLeft, JobLeft, MainJobs
  <2>2. MainLeft' = MainLeft
    BY <1>1, <1>2, MainKept
  <2> QED
    BY <1>2, <2>1, <2>2
<1>3. CASE c = "main"
  <2>1. job \notin MainJobs
    BY <1>1, <1>3 DEF ProcInv, PlaceInv
  <2>2. MainLeft' < MainLeft
    BY <1>1, <1>3, <2>1 DEF MainLeft, MainOver, StopLeft
  <2>3. WorkerLeft' = WorkerLeft
    BY <1>1, <1>3, WorkerKept
  <2> QED
    BY <1>3, <2>2, <2>3
<1> QED
  BY <1>2, <1>3

\* The steps of a reset, and the one of main()'s xc_process_stop among them.
LEMMA ResetAdvances ==
    ASSUME OwnerInv, ProcInv, DueInv, ResetStep
    PROVE  /\ job \notin MainJobs => WorkerLeft' < WorkerLeft /\ MainLeft' = MainLeft
           /\ job \in MainJobs => WorkerLeft' = WorkerLeft /\ MainLeft' < MainLeft
<1> USE DEF ProcInv, PlaceInv, DueInv, Placed, Before, Launching, MainJobs, Stopping
<1>1. CASE job \in MainJobs
  <2>1. job = "mainStop" /\ job' = "mainForce" /\ UNCHANGED <<caller, return>>
    BY <1>1 DEF ResetStep, KillBegin, KillEnd, StopForce, ClearToken, ClearFails, Spawn, SpawnFails,
                Await, Ready, UndoEnd, Undone
  <2>2. WorkerLeft' = WorkerLeft
    BY <2>1, WorkerKept
  <2>3. caller["main"] = "killed"
    BY <1>1
  <2>4. MainLeft = 5
    BY <1>1, <2>1, <2>3 DEF MainLeft, MainOver, StopLeft, JobLeft
  <2>5. MainLeft' = 4
    BY <2>1, <2>3 DEF MainLeft, MainOver, StopLeft, JobLeft
  <2> QED
    BY <1>1, <2>2, <2>4, <2>5
<1>2. CASE job \notin MainJobs
  <2> USE DEF OwnerInv, TypeOK, CallsInv
  <2>1. UNCHANGED <<caller["main"], return>> /\ job' \notin MainJobs
    BY <1>2 DEF ResetStep, KillBegin, Killed, Kill, KillEnd, StopForce, ClearToken, ClearFails,
                ResetFails, Launch, Spawn, SpawnFails, Await, Ready, UndoEnd, Undone
  <2>2. MainLeft' = MainLeft
    BY <1>2, <2>1, MainKept
  <2>3. JobLeft' < JobLeft
    <3> USE DEF JobLeft
    <3>1. CASE KillBegin
      BY <3>1 DEF KillBegin
    <3>2. CASE KillEnd \/ StopForce
      BY <1>2, <3>2 DEF KillEnd, StopForce
    <3>3. CASE ClearToken
      BY <3>3 DEF ClearToken
    <3>4. CASE ClearFails \/ SpawnFails \/ Undone
      BY <3>4 DEF ClearFails, SpawnFails, Undone, ResetFails
    <3>5. CASE Spawn \/ Await
      BY <3>5 DEF Spawn, Await
    <3>6. CASE Ready
      <4>1. job = "ready" /\ job' \in {"none", "undone", "undo"}
        BY <3>6 DEF Ready
      <4> QED
        BY <4>1
    <3>7. CASE UndoEnd
      BY <3>7 DEF UndoEnd
    <3> QED
      BY <3>1, <3>2, <3>3, <3>4, <3>5, <3>6, <3>7 DEF ResetStep
  <2>4. StopLeft("worker")' = 0 /\ StopLeft("worker") = 0
    <3>1. caller["worker"] \in {"kill", "launch"}
      BY <1>2 DEF ResetStep, KillBegin, KillEnd, StopForce, ClearToken, ClearFails, Spawn,
                  SpawnFails, ResetFails, Launch, Await, Ready, UndoEnd, Undone
    <3>2. caller'["worker"] \in {"kill", "launch", "idle"}
      BY <3>1 DEF ResetStep, KillBegin, Killed, Kill, KillEnd, StopForce, ClearToken, ClearFails,
                  ResetFails, Launch, Spawn, SpawnFails, Await, Ready, UndoEnd, Undone
    <3> QED
      BY <3>1, <3>2 DEF StopLeft
  <2>5. WorkerLeft' < WorkerLeft
    <3>1. JobLeft \in 0..13 /\ JobLeft' \in Nat
      BY DEF JobLeft
    <3> QED
      BY <1>2, <2>1, <2>3, <2>4, <3>1 DEF WorkerLeft
  <2> QED
    BY <1>2, <2>2, <2>5
<1> QED
  BY <1>1, <1>2

\* The end of main(), up to its return.
LEMMA MainAdvances ==
    ASSUME OwnerInv, ProcInv, DueInv, MainStep \/ Alone(WorkerJoined)
    PROVE  WorkerLeft' = WorkerLeft /\ MainLeft' < MainLeft
<1> USE DEF OwnerInv, TypeOK, CallsInv, ProcInv, PlaceInv, MainJobs
<1>1. UNCHANGED caller["worker"]
  BY DEF MainStep, QuitMain, Quit, EndChild, MainEnds, OwnerDestroy, WorkerJoined, Alone
<1>2. UNCHANGED job \/ {job, job'} \subseteq MainJobs \cup {"none"}
  BY DEF MainStep, QuitMain, Quit, EndChild, MainEnds, WorkerJoined, Alone
<1>3. WorkerLeft' = WorkerLeft
  BY <1>1, <1>2, WorkerKept
<1>4. MainLeft' < MainLeft
  <2> USE DEF MainLeft, MainOver, StopLeft, JobLeft
  <2>1. CASE QuitMain
    BY <2>1 DEF QuitMain, Quit
  <2>2. CASE Alone(WorkerJoined)
    BY <2>2 DEF Alone, WorkerJoined
  <2>3. CASE EndChild
    BY <2>3 DEF EndChild
  <2>4. CASE MainEnds
    BY <2>4 DEF MainEnds, OwnerDestroy
  <2> QED
    BY <2>1, <2>2, <2>3, <2>4 DEF MainStep
<1> QED
  BY <1>3, <1>4

\* Everything else: the process, its monitors, the AI thread, and the calls the
\* worker begins when it is in none.
LEMMA OthersAdvance ==
    ASSUME OwnerInv, ProcInv, DueInv, [SidecarNext]_sidecarVars, ~WorkerGoesOn, ~MainGoesOn
    PROVE  /\ caller["worker"] # "idle" => WorkerLeft' = WorkerLeft
           /\ MainLeft' = MainLeft
<1> USE DEF OwnerInv, TypeOK, CallsInv
<1>1. CASE Alone(MediaStep) \/ Alone(OwnerStart) \/ Alone(event /\ InputGone)
  <2>1. UNCHANGED <<caller, return, job>>
    BY <1>1 DEF Alone, MediaStep, Notify, Loop, Connect, SetFd, Receive, SessionEnd, Failed,
                Stopped, Delay, OwnerStart, InputGone, RequestStop
  <2> QED
    BY <2>1, WorkerKept, MainKept
<1>2. CASE ChildEnds \/ ChildLogsIn \/ BridgeStops \/ EventStops \/ Signal
  <2>1. UNCHANGED <<caller, return, job>>
    BY <1>2 DEF ChildEnds, ChildLogsIn, BridgeStops, EventStops, Signal
  <2> QED
    BY <2>1, WorkerKept, MainKept
<1>3. CASE Alone(AIStop) \/ Alone(WorkerExit) \/ ResetBegin
  <2>1. caller["worker"] = "idle" /\ UNCHANGED <<caller["main"], return["main"]>>
    BY <1>3 DEF Alone, AIStop, WorkerExit, ResetBegin, Reset
  <2>2. UNCHANGED job \/ {job, job'} \cap MainJobs = {}
    <3>1. CASE ResetBegin
      BY <3>1 DEF ResetBegin, Reset, ProcInv, PlaceInv, MainJobs
    <3> QED
      BY <1>3, <3>1 DEF Alone
  <2> QED
    BY <2>1, <2>2, MainKept
<1>4. CASE Alone(Terminated) \/ UNCHANGED sidecarVars
  <2>1. UNCHANGED <<caller, return, job>>
    BY <1>4 DEF Alone, Terminated
  <2> QED
    BY <2>1, WorkerKept, MainKept
<1>5. \A c \in Callers : ~Alone(StopStep(c))
  BY DEF WorkerGoesOn, MainGoesOn
<1>6. ~ResetStep /\ ~MainStep /\ ~Alone(WorkerJoined)
  BY DEF WorkerGoesOn, MainGoesOn
<1> QED
  BY <1>1, <1>2, <1>3, <1>4, <1>5, <1>6 DEF SidecarNext, OwnerStep

\* Resets, joins and the end of main() come to their end, fairness apart: who
\* waits for the AI thread or for the child has told it to end and is the only
\* one to fetch it, a reset has at most sixteen steps and main() eleven, and no
\* monitor, signal or crash adds one.
THEOREM CallsEnd ==
    SidecarSpec => /\ []JoinDue /\ []Placed /\ []ChildDue
                   /\ []Counted
                   /\ CallsAdvance
<1>1. OwnerInv /\ ProcInv /\ DueInv /\ Counted /\ Counted' /\ [SidecarNext]_sidecarVars
        => [/\ caller["worker"] # "idle" => WorkerLeft' <= WorkerLeft
            /\ WorkerGoesOn => WorkerLeft' < WorkerLeft
            /\ MainLeft' <= MainLeft
            /\ MainGoesOn => MainLeft' < MainLeft]_sidecarVars
  <2> SUFFICES ASSUME OwnerInv, ProcInv, DueInv, Counted, Counted', [SidecarNext]_sidecarVars
               PROVE  /\ caller["worker"] # "idle" => WorkerLeft' <= WorkerLeft
                      /\ WorkerGoesOn => WorkerLeft' < WorkerLeft
                      /\ MainLeft' <= MainLeft
                      /\ MainGoesOn => MainLeft' < MainLeft
    OBVIOUS
  <2>1. {WorkerLeft, WorkerLeft', MainLeft, MainLeft'} \subseteq Nat
    BY DEF Counted
  <2>2. CASE WorkerGoesOn
    <3>1. WorkerLeft' < WorkerLeft /\ MainLeft' = MainLeft
      BY <2>2, ResetAdvances, StopAdvances DEF WorkerGoesOn
    <3>2. ~MainGoesOn
      <4>1. MainGoesOn => MainLeft' < MainLeft
        BY MainAdvances, ResetAdvances, StopAdvances DEF MainGoesOn
      <4> QED
        BY <2>1, <3>1, <4>1
    <3> QED
      BY <2>1, <3>1, <3>2
  <2>3. CASE ~WorkerGoesOn /\ MainGoesOn
    <3>1. WorkerLeft' = WorkerLeft /\ MainLeft' < MainLeft
      BY <2>3, MainAdvances, ResetAdvances, StopAdvances DEF MainGoesOn
    <3> QED
      BY <2>1, <2>3, <3>1
  <2>4. CASE ~WorkerGoesOn /\ ~MainGoesOn
    BY <2>1, <2>4, OthersAdvance
  <2> QED
    BY <2>2, <2>3, <2>4
<1>2. OwnerInv /\ ProcInv => Counted
  BY LeftCounted
<1>3. SidecarSpec => []JoinDue
  BY JoinsEnd, SidecarImplementsOwner, PTL
<1>4. DueInv => Placed /\ ChildDue
  BY DEF DueInv
<1> QED
  BY <1>1, <1>2, <1>3, <1>4, OwnerInvariantHere, ProcInvariant, DueInvariant, PTL
  DEF SidecarSpec, CallsAdvance
=============================================================================
