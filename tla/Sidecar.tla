------------------------------- MODULE Sidecar -------------------------------
(***************************************************************************)
(* The sidecar's process: who may start, stop and poll it (process.c,       *)
(* main.c:126-183 and 290-354), what a reset does to the token in its       *)
(* configuration, and how main() ends.  It details the steps Kill, Launch,  *)
(* Quit and OwnerDestroy of module MediaOwner and keeps the others.         *)
(***************************************************************************)
EXTENDS MediaOwner, AtomicStore

CONSTANT Faults     \* what may go wrong: crash, stuck, disk, spawn

VARIABLES
    child,      \* the process of app->child: run, zombie or reaped
    exited,     \* app->child.exited
    started,    \* app->child_started
    signalled,  \* history: the plugin has sent the process a signal
    lost,       \* history: a process was given up alive
    job         \* what is being done to the child

VARIABLES
    resetting,  \* app->sidecar_resetting
    failed,     \* app->child_failed
    quit,       \* xc_stopping
    bridge,     \* main() is in ainice_bridge_serve_until
    event,      \* the event thread runs
    stopOK      \* main()'s stop_result

childVars == <<child, exited, started, signalled, lost>>
appVars == <<resetting, failed, quit, bridge, event, stopOK>>
sidecarVars == <<vars, storeVars, childVars, job, appVars>>

\* main() has started the first sidecar and the event thread.
SidecarInit ==
    /\ Init /\ StoreInit
    /\ child = "run" /\ exited = FALSE /\ started = TRUE
    /\ signalled = FALSE /\ lost = FALSE /\ job = "none"
    /\ resetting = FALSE /\ failed = FALSE /\ quit = FALSE
    /\ bridge = TRUE /\ event = TRUE /\ stopOK = TRUE
-----------------------------------------------------------------------------
(* The process itself *)

\* It ends by itself or after a signal.
ChildEnds ==
    /\ child = "run"
    /\ signalled \/ "crash" \in Faults
    /\ child' = "zombie"
    /\ UNCHANGED <<vars, storeVars, exited, started, signalled, lost, job, appVars>>

\* External: a login has the sidecar write its token (app.PatchConfig).
ChildLogsIn ==
    /\ child = "run" /\ sidecar # 0 /\ ~signalled
    /\ file = "blank" /\ file' = "token" /\ disk' = {"token"}
    /\ UNCHANGED <<vars, temp, childVars, job, appVars>>
-----------------------------------------------------------------------------
(* The monitors: xc_should_stop, called by the bridge and the event thread *)

\* Mutant: the child is polled while it is being replaced.
SeesExitAlways == started /\ child \in {"zombie", "reaped"}

\* Mutant: only the poll that reaps the child reports it.
SeesExitOnce == ~resetting /\ started /\ child = "zombie"

\* Under child_lock: nobody else has the child, and waitpid reports it gone.
SeesExit == ~resetting /\ started /\ child \in {"zombie", "reaped"}

Poll ==
    /\ exited' = TRUE /\ child' = "reaped"
    /\ failed' = TRUE
    /\ UNCHANGED <<started, signalled, lost>>

\* The bridge's loop also ends for reasons of its own.
BridgeStops ==
    /\ bridge /\ bridge' = FALSE /\ quit' = TRUE
    /\ \/ ~quit /\ SeesExit /\ Poll
       \/ UNCHANGED <<childVars, failed>>
    /\ UNCHANGED <<vars, storeVars, job, resetting, event, stopOK>>

EventStops ==
    /\ event /\ event' = FALSE
    /\ \/ quit /\ UNCHANGED <<childVars, failed>>
       \/ ~quit /\ SeesExit /\ Poll
    /\ UNCHANGED <<vars, storeVars, job, resetting, quit, bridge, stopOK>>

\* SIGTERM or SIGINT.
Signal ==
    /\ ~quit /\ quit' = TRUE
    /\ UNCHANGED <<vars, storeVars, childVars, job, resetting, failed, bridge, event, stopOK>>
-----------------------------------------------------------------------------
(* xc_process_stop: SIGTERM, and SIGKILL when the time is up *)

Stopping == {"stop", "force"}

\* The end of the call's loop: reaped, or given up after SIGKILL.
Ended == child = "zombie" /\ child' = "reaped" /\ exited' = TRUE
GivenUp == job = "force" /\ child = "run" /\ "stuck" \in Faults /\ UNCHANGED <<child, exited>>

StopForce ==
    /\ child = "run"
    /\ \/ job = "stop" /\ job' = "force"
       \/ job = "undo" /\ job' = "undoForce"
       \/ job = "mainStop" /\ job' = "mainForce"
    /\ UNCHANGED <<vars, storeVars, childVars, appVars>>
-----------------------------------------------------------------------------
(* xc_sidecar_reset_adapter(clear_token), in the worker *)

ResetBegin ==
    /\ Reset
    /\ resetting' = TRUE /\ job' = "enter"
    /\ UNCHANGED <<storeVars, childVars, failed, quit, bridge, event, stopOK>>

\* MediaOwner's step with the old process ended.
Killed == Kill /\ caller'["worker"] = "launch"

\* The AI thread is joined; a child that was seen to exit needs no signal.
KillBegin ==
    /\ caller["worker"] = "kill" /\ job = "enter"
    /\ IF started /\ ~exited
       THEN /\ job' = "stop" /\ signalled' = TRUE
            /\ UNCHANGED <<vars, started>>
       ELSE /\ job' = "clear" /\ started' = FALSE
            /\ Killed /\ UNCHANGED signalled
    /\ UNCHANGED <<storeVars, child, exited, lost, appVars>>

KillEnd ==
    /\ job \in Stopping
    /\ \/ /\ Ended /\ Killed
          /\ started' = FALSE /\ job' = "clear" /\ UNCHANGED resetting
       \/ /\ GivenUp /\ Kill /\ caller'["worker"] = "idle" /\ UNCHANGED started
          /\ job' = "none" /\ resetting' = FALSE
    /\ UNCHANGED <<storeVars, signalled, lost, failed, quit, bridge, event, stopOK>>

\* The reset returns without a new sidecar: nobody watches for one then.
ResetFails ==
    /\ Launch /\ sidecar' = sidecar /\ peer' = peer
    /\ job' = "none" /\ resetting' = FALSE

\* xc_store_clear_xiaomi_token; committed is good enough.
ClearToken ==
    /\ \/ job = "clear" /\ WriteTemp /\ job' = "sync"
       \/ job = "sync" /\ SyncTemp /\ job' = "rename"
       \/ job = "rename" /\ Rename("blank") /\ job' = "directory"
       \/ /\ job = "directory" /\ job' = "spawn"
          /\ SyncDirectory \/ ("disk" \in Faults /\ UNCHANGED storeVars)
    /\ UNCHANGED <<vars, childVars, appVars>>

ClearFails ==
    /\ "disk" \in Faults /\ job \in {"clear", "sync", "rename"}
    /\ Abandon /\ ResetFails
    /\ UNCHANGED <<childVars, failed, quit, bridge, event, stopOK>>

\* xc_process_start, up to its loop.
Spawn ==
    /\ job = "spawn"
    /\ child' = "run" /\ exited' = FALSE /\ signalled' = FALSE
    /\ job' = "await"
    /\ UNCHANGED <<vars, storeVars, started, lost, appVars>>

SpawnFails ==
    /\ job = "spawn" /\ "spawn" \in Faults
    /\ ResetFails
    /\ UNCHANGED <<storeVars, childVars, failed, quit, bridge, event, stopOK>>

\* The loop of xc_process_start: the socket appears, the child is found to
\* have exited, or it is ended because the time is up.
Await ==
    /\ job = "await"
    /\ \/ /\ child = "run" /\ started' = TRUE /\ job' = "ready"
          /\ UNCHANGED <<child, exited, signalled>>
       \/ Ended /\ job' = "undone" /\ UNCHANGED <<started, signalled>>
       \/ /\ child = "run" /\ "spawn" \in Faults /\ signalled' = TRUE /\ job' = "undo"
          /\ UNCHANGED <<child, exited, started>>
    /\ UNCHANGED <<vars, storeVars, lost, appVars>>

\* xc_xiaomi_api_wait_ready with xc_ready_abort, and the owner's new peer.
Ready ==
    /\ job = "ready"
    /\ \/ /\ Launch /\ sidecar' # sidecar
          /\ job' = "none" /\ resetting' = FALSE
          /\ UNCHANGED <<childVars, failed>>
       \/ /\ ~quit /\ Ended /\ failed' = TRUE /\ job' = "undone"
          /\ UNCHANGED <<vars, started, signalled, lost, resetting>>
       \/ /\ quit \/ "spawn" \in Faults
          /\ signalled' = TRUE /\ job' = "undo"
          /\ UNCHANGED <<vars, child, exited, started, lost, resetting, failed>>
    /\ UNCHANGED <<storeVars, quit, bridge, event, stopOK>>

\* Mutant: a child that could not be started is forgotten, not ended.
UndoForgets ==
    /\ job \in {"undo", "undoForce"}
    /\ job' = "undone"
    /\ UNCHANGED <<vars, storeVars, childVars, appVars>>

\* The result of this xc_process_stop is not looked at.
UndoEnd ==
    /\ job \in {"undo", "undoForce"}
    /\ \/ Ended /\ UNCHANGED lost
       \/ /\ job = "undoForce" /\ child = "run" /\ "stuck" \in Faults /\ lost' = TRUE
          /\ UNCHANGED <<child, exited>>
    /\ job' = "undone"
    /\ UNCHANGED <<vars, storeVars, started, signalled, appVars>>

Undone ==
    /\ job = "undone"
    /\ ResetFails
    /\ started' = FALSE
    /\ UNCHANGED <<storeVars, child, exited, signalled, lost, failed, quit, bridge, event,
                   stopOK>>
-----------------------------------------------------------------------------
(* The end of main() *)

\* The bridge has returned and the event thread is joined.
QuitMain ==
    /\ ~bridge /\ ~event
    /\ Quit
    /\ UNCHANGED <<storeVars, childVars, job, appVars>>

\* The child is main()'s now: the worker is joined as well.
EndChild ==
    /\ caller["main"] = "killed" /\ job = "none"
    /\ started /\ ~exited
    /\ signalled' = TRUE /\ job' = "mainStop"
    /\ UNCHANGED <<vars, storeVars, child, exited, started, lost, appVars>>

MainEnds ==
    /\ \/ /\ job = "none" /\ caller["main"] = "killed" /\ ~(started /\ ~exited)
          /\ UNCHANGED <<child, exited, stopOK>>
       \/ job \in {"mainStop", "mainForce"} /\ Ended /\ UNCHANGED stopOK
       \/ /\ job = "mainForce" /\ child = "run" /\ "stuck" \in Faults /\ stopOK' = FALSE
          /\ UNCHANGED <<child, exited>>
    /\ OwnerDestroy
    /\ job' = "none"
    /\ UNCHANGED <<storeVars, started, signalled, lost, resetting, failed, quit, bridge, event>>
-----------------------------------------------------------------------------
\* The steps of module MediaOwner that leave the process alone.
Alone(step) == step /\ UNCHANGED <<storeVars, childVars, job, appVars>>

OwnerStep ==
    \/ Alone(MediaStep)
    \/ \E c \in Callers : Alone(StopStep(c))
    \/ Alone(OwnerStart) \/ Alone(AIStop)
    \/ Alone(WorkerExit) \/ Alone(WorkerJoined)
    \/ Alone(event /\ InputGone)

ResetStep ==
    \/ KillBegin \/ KillEnd \/ StopForce \/ ClearToken \/ ClearFails
    \/ Spawn \/ SpawnFails \/ Await \/ Ready \/ UndoEnd \/ Undone

MainStep == QuitMain \/ EndChild \/ MainEnds

SidecarNext ==
    \/ OwnerStep
    \/ ChildEnds \/ ChildLogsIn
    \/ BridgeStops \/ EventStops \/ Signal
    \/ ResetBegin \/ ResetStep
    \/ MainStep
    \/ Alone(Terminated)

\* Each thread goes on with its call; the monitors call xc_should_stop again
\* and again, and a process that was sent a signal ends, or is given up.
SidecarFairness ==
    /\ WF_sidecarVars(Alone(MediaStep))
    /\ WF_sidecarVars(ResetStep \/ Alone(StopStep("worker")))
    /\ WF_sidecarVars(MainStep \/ Alone(WorkerJoined) \/ Alone(StopStep("main")))
    /\ SF_sidecarVars(Alone(WorkerExit))
    /\ WF_sidecarVars(signalled /\ ChildEnds)
    /\ WF_sidecarVars((quit \/ SeesExit) /\ BridgeStops)
    /\ WF_sidecarVars(EventStops)

SidecarSpec == SidecarInit /\ [][SidecarNext]_sidecarVars /\ SidecarFairness
-----------------------------------------------------------------------------
\* The plugin ends for a sidecar that ended by itself, or that a reset could
\* not end in time: a reset that goes well is never taken for a crash.
MonitorHonest ==
    [][failed' /\ ~failed => ~signalled \/ (~resetting /\ sidecar # 0)]_sidecarVars

\* A living child is watched, being replaced, or was given up after SIGKILL:
\* a second one is started, and main() returns 0, only after it has ended.
ChildOwned ==
    /\ child \in {"run", "zombie"} => started \/ resetting \/ lost
    /\ job = "spawn" => child = "reaped" \/ lost
    /\ caller["main"] = "end" => child = "reaped" \/ lost \/ ~stopOK

\* The replacement process starts without a token, and what a loss of power
\* leaves of the configuration was written as a whole.
TokenGone ==
    /\ "torn" \notin disk
    /\ (job \in {"spawn", "await", "ready"} /\ ~lost) => file = "blank"

\* A signal, the end of the bridge and a sidecar that ended by itself end the
\* plugin, in whatever call its threads are, unless a reset replaces the sidecar.
PluginEnds ==
    quit \/ (started /\ child = "zombie") ~> caller["main"] = "end" \/ (resetting /\ ~quit)
=============================================================================
