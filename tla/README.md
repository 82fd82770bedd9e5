# mhcamera: a TLA+ development of the plugin's control core

mhcamera is a plugin for a set-top host. It logs in to a Xiaomi account, lists the
account's cameras, lets one of them feed the host (an AI overlay over the host's
`bitstream` input) and offers the same camera over RTSP. The plugin is one C
process (`src/mhcamera/src`) that owns a go2rtc *sidecar* process and talks to it
over Unix sockets. This directory holds TLA+ modules translated from that code,
TLC runs over small instances of them, and TLAPS proofs about all instances.

Contents: [Inventory](#1-inventory), [Plan](#2-plan),
[Modules](#3-modules-and-their-correspondence-to-the-code),
[Runs](#4-runs), [Fairness](#5-fairness), [Proofs](#6-proofs),
[Findings](#7-findings-and-observations),
[What is not modelled](#8-what-is-not-modelled-and-why).

To run: `tlc -config lifecycle.cfg MCService.tla`, `tlapm ServiceProofs.tla`.

## 1. Inventory

File names are relative to `src/mhcamera/src` unless they begin with another
directory. "Properties" names the definitions of this project, or says what a
module not written yet will state.

### Threads

| thread | code | what it does |
|---|---|---|
| main() | `main.c:369-486` | starts everything in order, serves the bridge, stops everything in order |
| bridge handlers | `service.c:2323-2690` | routes: take the lock, accept or refuse, queue work; an RTSP request waits for its reply |
| worker | `service.c:1573-2100` | takes one work item at a time, makes the remote calls without the lock, commits under it |
| cloud thread | `service.c:1008-1068` | one remote account call, so that the worker can serve a reconciliation meanwhile |
| event thread | `main.c:314-340` | the host's `config-changed` callback reads the input mode |
| AI thread | `media_owner.c:20-48`, `media.c` | connects to the sidecar, receives frames, reports its state |
| monitors | `main.c:287-311` | the bridge's loop and the event thread call `xc_should_stop`, which polls the sidecar's process |

### Components

**Work mailbox and worker** (`service.c`). State: one mailbox (`work`, `pending`),
one active copy, one scheduled retry (`recovery`), two generation counters
(`recovery_generation`, `input_generation`) that outdate captured copies. Operations:
queue, take, promote a due retry, run one of eight kinds, apply under the lock,
publish the display state, queue what follows. Hard: four writers of one mailbox,
answers that come after a newer request or the stop, retries that outlive their
intent, a reconciliation served inside a running cloud call. Properties:
`AcceptedWorkKept`, `NewestRegionOnly`, `RetryingBacked`, `RetryKeepsInput`, `InProgressOwned`, `InProgressOwnedAuthenticated`,
`WorkerAdvances`.

**Source and AI lifecycle** (`xc_reconcile`, `xc_source_stop`, `service.c:1266-1403`).
State: `active_source` (remembered), the sidecar's source, `media_active`, the RTSP
demand. Operation: one pass that reads the intent, releases a source that is not
wanted any more, sets the wanted one, offers it to RTSP, attaches or detaches the
AI. Hard: every call can fail or lose its answer, and input events fall between any
two of them. Properties: `NoOrphanSource`, `DetachedSwitch`, `AiGate`, `Converged`,
`SourceAccepted`, `AiAttaches`, `InputLossStopsAI`.

**Bridge routes** (`xc_service_route`). Accept, refuse or queue; answer from the
displayed state. Hard: accepted requests race completions; repeated operation ids
(ring of 16). Properties: those of the mailbox, `RtspJobAlive`, `RtspAnswered`,
`RepeatRecognised`.

**Host input** (`host_input.c`, `main.c:314-340`, `service.c:1146-1224, 2831-2852`).
State: `input_available`, its generation, `reconcile_requested`,
`ai_cancel_requested`. Operations: observe the mode, patch it with a guard when a
user selects a camera, take an assumption back. Hard: assumption against
observation, a callback that must not block. Properties: `InputTruth`,
`RetryKeepsInput`, `ReconcileServed`.

**Media owner and AI thread** (`media_owner.c`, descriptor handling of `media.c`).
State: joinable, joining, stop flag, active descriptor, bound peer, thread.
Operations: start, request stop, stop (join), rebind, destroy; connect, session,
retry. Hard: two joiners, a stop request that uses the session's descriptor, the
sidecar replaced under it. Properties: `DescriptorOwned`, `Leased`, `PluginEnds`, and
the theorem about `ReplacedAlone`.

**Media session** (`media.c`, `media_wire.c`, `media_logic.c`, and the sidecar's end of
the connection in `go2rtc/patches/0002-aiv1-output.patch`). State: the sidecar's
resynchronisation and numbers, the frames in the socket; the session's last number,
`waiting_sync`, freshness timeline and rate gate; the private decoder and the host's
video session. Operations: accept, drop, number and write a unit; check a frame,
reset, decode, open the host's session, deliver. Hard: two programs in two languages
decide together what may be fed to a decoder, units are lost before the
sidecar and frames refused by the host, clocks jump, a handshake takes longer than a
frame lives. Properties: `Decodable`, `OnlyForeignRefused`, `NeverStale`, `RateBound`,
`NoBurst`, `NotStarved`.

**Phone login and account** (`service.c`; the sidecar's end is
`go2rtc/patches/0003-xiaomi-phone-bootstrap.patch`). State: the displayed login, the
account, the resend window, a pending cancellation, the ring of operation ids; in the
sidecar one login session and the token. Operations: SMS start, verify, resend, cancel,
clear, refresh and its retry, revocation of a login whose outcome is unknown, the reset
that removes a token. Hard: a request can outlive the call that sent it and commit a
token after the user has cancelled, a cancellation races the answer it cancels, a
repeated request must not send a second SMS. Properties: `AuthTruth`, `CancelOwned`,
`RepeatRecognised`, `AuthSettles`.

**RTSP manager** (`rtsp.c`). State: committed preferences and password, the file that
holds them, the sidecar's listener as last observed, one error field, the pause after a
failed rotation. Operations: offer or withdraw a source, update a preference (control
call, save, rollback), rotate the password, read, report, start. Hard: every request
can be executed and its answer lost, a save can fail or be committed without being
durable, the sidecar is replaced in between, and one error field stands for failures
of two kinds. Properties: `ShownIsStored`, `IdentityCurrent`, `ListenerTruth`,
`OfferEffective`, `QuietMeansRight`, `PauseHolds`,
`DurabilityReported`.

**Sidecar process and monitors** (`process.c`, `main.c:105-354`). State: the child, what
the plugin knows of it (`exited`, `child_started`), who is busy with it
(`sidecar_resetting`), the monitors' verdict. Operations: spawn with its readiness
wait, poll, stop with escalation, reset, end of main(). Hard: a reset takes a process
away while two monitors look for its death, a start fails halfway, a process ignores
SIGTERM, a poll reaps what somebody else waits for. Properties: `ChildOwned`,
`MonitorHonest`, `PluginEnds`.

**Store** (`store.c`): atomic write (temporary file, sync, rename, directory sync). State:
the temporary file, the file, what a loss of power may leave. Hard: every point between
two system calls. Property: `TokenGone`, with the token in the sidecar's configuration as
the content; `RtspManager` uses the outcomes.

**Startup and shutdown** (`main.c`): the order of both. Properties:
`ShutdownCompletes`, `CleanShutdown`.

**Not stateful or not ours**: `bridge.c` (translates requests), `source.c` (builds the
source text), `xiaomi_api_client.c` (requests over a socket), the web interface, the
rest of the go2rtc sidecar (a third-party program), the packaging scripts.

### How they interact

The routes, the event thread and the worker share `struct xc_service` under one
lock; the worker never holds it across a remote call. The AI thread reports into the
service (and takes that lock), so the owner is never joined with the lock held: the
event thread only sets the stop flag and leaves the join to the worker. An RTSP
handler puts its job on its own stack and waits on a condition for the worker's
reply. main() joins the event thread, tells the service to stop, joins the worker,
stops the owner, ends the sidecar and destroys the service, in that order. The worker
resets the sidecar (to remove a token) through a callback of main.c, which stops the AI
first; the monitors share the child with it under `child_lock`.

## 2. Plan

Order, most important behaviour first; the items marked done are here.

1. **Service core** — done: mailbox, worker, lifecycle, routes, host input, shutdown.
2. **Media owner** — done, with `MediaLease`, the abstract specification that the core
   assumes of it and that `MediaOwner` is shown to implement.
3. **RTSP manager** — done: `RtspManager` over `RtspListener`, the sidecar's side of it.
4. **Phone login** — done: `Auth`, with the sidecar's login session and the ring of
   operation ids.
5. **Media session** — done: `MediaSession` over `Aiv1Output`, the sidecar's end of the
   connection, and `RateGate`, the gate over every sequence of times.
6. **Sidecar process, monitors and store** — done: `Sidecar` over `MediaOwner` and
   `AtomicStore`.
7. **Owner of the camera source** (`SourceOwner`, patch 0010): set, close, the worker and the
   leases of its generations, which the core sees as one `source` call. Not done; the
   patch brings its own tests.
8. **More theorems** — done: every safety invariant and step property of the passing
   runs, the lease between the service and the media owner from both sides, and the
   measures the liveness properties rest on. Not done: an abstract RTSP manager
   (committed preference and demand, as `RtspRoute` has it) that `RtspManager`
   implements.

All modules avoid RECURSIVE, declare their bounds as constants or leave data as
sets, and state invariants as conjunctions of named parts, so that they can be
proved about. Runs: one per question, at most two cameras, two regions and one
waiting handler: every rule of the code that compares two of these compares
exactly two (the wanted and the active camera, the shown and the requested region).

## 3. Modules and their correspondence to the code

| module | models | extends |
|---|---|---|
| `ServiceState` | `struct xc_service`, work items, generations, the predicates the code evaluates under the lock | |
| `Reconcile` | `xc_reconcile`, `xc_source_stop` | `ServiceState` |
| `WorkBodies` | the worker loop and the body of each kind, the cloud thread | `Reconcile` |
| `Completion` | the guarded input preparation, `xc_finish_locked` and the end of each kind | `WorkBodies` |
| `Routes` | bridge routes, input event, end of the AI thread | `Completion` |
| `Service` | startup state, main()'s shutdown, `Next`, fairness, `TypeOK` | `Routes` |
| `ServiceProperties` | the properties and the strengthenings of the proofs | `Service` |
| `MediaLease` | what the service assumes of the AI thread | |
| `MediaOwner` | the AI thread, its owner and its callers | `MediaLease` (instance) |
| `AtomicStore` | the steps of `xc_store_atomic_write` and what a loss of power leaves | |
| `Sidecar` | the child process, its monitors, the reset, the end of main() | `MediaOwner`, `AtomicStore` |
| `Auth` | the auth operations, the worker's side of them, the sidecar's login session, operation ids | |
| `RtspListener` | the listener in the sidecar, its refusals and lost answers | |
| `RtspManager` | every operation of `rtsp.c` | `RtspListener` |
| `MediaLogic` | the rate gate and the freshness of `media_logic.c` as operators | |
| `RateGate` | the gate over any sequence of picture times | `MediaLogic` |
| `Aiv1Output` | the sidecar's end of a media connection, the socket | |
| `MediaSession` | a session: frames, resynchronisation, decoding, delivery | `Aiv1Output`, `MediaLogic` |
| `ServiceTypes`, `ServiceProofs`, `MediaOwnerProofs`, `SidecarProofs`, `AuthProofs`, `RtspManagerProofs`, `MediaSessionProofs`, `RateGateProofs` | theorems | |
| `MCService`, `MCSidecar`, `MCAuth`, `MCRtspManager` | instances for TLC | |

**Granularity.** A critical section under `service->lock` (or `owner->lock`) is one
action. Every call the worker makes without the lock is an action of its own, so any
other thread can run before and after it; `pc` is the place between two of them. Three
places merge more, because nothing another thread does can tell the difference:
`RecRead` contains the join of a cancelled AI thread (which only reads and writes what
the worker owns, and the thread ends by itself); `SrcDetach` is the withdrawal
of the listener and the stop of the AI; the end of `xc_call`'s wait is merged
with the following apply (between the two only the stop can change what is read, and
both orders of it are behaviours of the model).

**State.** `slot` is `work` while `pending`; `cur` is the worker's copy while `active`;
`recovery` is the scheduled retry. A *generation* counter is only ever compared with
captured copies of itself. The model keeps, instead of the counter, the set
of holders whose copy is current (`recFresh`, `inFresh`); advancing the counter
empties the set, copying moves membership. This is exact as long as the counters
(32 and 64 bits) do not wrap within the life of one captured copy.

`pc`, `ret` and `stopRet` are the worker's place and the return places of
`xc_reconcile` (called from the loop, from inside a cloud call and from an
RTSP request) and `xc_source_stop` (five callers). `rec` holds the locals of
`xc_reconcile`, `out` those of the worker's loop body. `sidecar` is the source the
sidecar really holds, `active` the one the service remembers. `host` is the host's real
input mode, `input` the service's idea of it, `seen` what the event thread has read
and not yet applied.

**Failures.** `Faults` says which kinds of external call may fail. A failed `source`
call may have been executed or not (`SrcRelease`, `RecSet`). A failed patch of the host
likewise (`PrepPatch`). A failed cloud answer is a network error, an incomplete
catalog, a refused account or another error.

**Data.** A camera is a model value listed in the catalog of its region; a source is
a camera and whether it has an audio branch. Passwords, names, URLs, times and
messages are left out. The retry count of an incomplete catalog is replaced by a free
choice whether this attempt was the last. The camera chosen for an account with no
selection is any of the list. There is one account (the mismatch of a stored
selection with another account, `service.c:2068-2074`, is in `Auth` only). A source is built from a
camera of the catalog, whose address was accepted with the same account and region when
the list was parsed (`xiaomi_api_client.c:635-644`), and fits into its 512 bytes whatever
the channel: building it again (`service.c:1343-1346`, `1550-1556`) cannot fail, and
those exits are left out. So is the branch of `Promote` for a retry that is no longer current
(`515-518`): whatever outdates a retry also cancels it.

**Media owner.** `caller` is where the worker and main() are, `return` where they go
on after `xc_media_owner_stop`. The worker calls the owner's operations in any
order; the order it really makes them in is module `Service`'s. `thread` walks through
`xc_media_thread` and the parts of a session that touch the owner: publishing the
descriptor, greeting, receiving, withdrawing and closing the descriptor.

**Sidecar process.** `Sidecar` replaces the steps `Kill`, `Launch`, `Quit` and
`OwnerDestroy` of `MediaOwner` by what `xc_process_start`, `xc_process_stop`, the reset and
the end of main() do in them, and lets the other steps run beside it (`Alone`). `child` is
what the kernel has (`run`, `zombie`, `reaped`); `exited`, `started` and `resetting`
are the plugin's fields; `job` is the place inside the reset or inside main()'s stop.
Every poll of a stop's loop that sees nothing is left out, so the loop is the step that
ends it and the step to SIGKILL. A section under `child_lock` is one action. `signalled` and `lost` are
history. `Faults` adds a sidecar that dies by itself (`crash`), one that survives SIGKILL
(`stuck`, as an uninterruptible call does; a failing `waitpid` looks the same), a start that fails or is too slow
(`spawn`) and a configuration that cannot be written (`disk`).
`disk` is the set of contents a loss of power could leave now: a rename adds the new
content, torn when the file was not synced before it, and a synced directory leaves
just that.

**Phone login.** `Auth` is the worker's loop again, with the bodies `Service` leaves out and
everything else as one `other` operation. A phone request is in `flight` from the time it
is sent; the sidecar serves such requests one at a time, in any order, since
`phoneBootstrap.serveHTTP` holds its mutex throughout. A call whose network fails or whose time
is up leaves its request *late* in the sidecar, where it is still served, at most `MaxLate`
of them at a time in the model. `pc` goes through the call, the cancellation told beside it
(`tell`), the application of the answer, the follow-up request for the accounts, the
revocation (`revoke`, `revokeReset`), and the reset of a cancelled login. `up` is the sidecar
as a reset leaves it: replaced, not running, or not stopped (`stuck`). `since` counts for
each id the ids recorded after it, up to the size of the ring. The routes of the cameras
(`service.c:2518`) and the regions (`2571`, `2582`) record in the same ring, a region also while the
cameras are listed (`NewerRegion`); the RTSP routes and reconciliations record nothing.
The worker's second look at the resend window before it sends (`1836-1840`, `1850-1854`)
always agrees with the handler's, since only the worker opens the window; it is left out.

**RTSP manager.** Every operation holds `rtsp->lock` from beginning to end, so two of
them never interleave, but the sidecar, the worker's other calls and the power go on
between their steps: a step is one call to the sidecar or the store with the
assignments that follow it, `pc` says where the operation is, `request` holds its
locals and `done` the operation that succeeded last. A request whose answer is lost
was executed or not (`Fails`); a request the sidecar executes only after the caller's
three-second deadline, while later requests run, is left out.
`Save` has the three outcomes of `xc_store_atomic_write`; a `Restart` (loss of power, at
any point) reads the file as renamed or, when the rename was not confirmed, as it was
before. `SourceChange` is what the worker does to the sidecar without this module: it
changes the source or the process only under a withdrawn offer, which is
`DetachedSwitch` of the core. A password is a model value; `generate_password` chooses
any other one. `Read` stands for both readers (`GET /rtsp` and `xc_rtsp_read`).

**Media session.** `MediaSession` is one thread's session after another with the
sidecar's output running beside it. `Lose` is the camera's side: any unit can be
lost on its way to the output, which sees a hole in the 16-bit numbers
(`missed`; 65,536 units lost in a row look like none and are left out). A unit is one of five
kinds, by what the two ends can see of it (`Units`), after go2rtc has added
parameter sets to it (`RepairAVCC`, external). `follows` is no field of the wire: it says
of a frame whether the unit before it in the camera's stream is the frame before it,
so that `Feed` can tell whether a decoder has what the frame refers to. `Process` is
`xc_process_frame` up to the delivery, `Drain` one picture of the decoder (of any
time it was given, or none); `Check`, `Open` and `Send` are the parts of `xc_deliver`
between which the clock can run. A failed allocation, a decoder that cannot be opened, a picture of
another format and a request to stop end the session like `Disconnect` or `Drain`'s last
disjunct. A decoder that is drained before it takes the next frame
(`media.c:398-401`) is drained after it in the model: only the order of
delivered pictures and of the feed differs. The pictures an H.265 decoder
skips by itself after a keyframe (leading ones) are its own business.

**Rate gate.** Times are whole numbers of one unit; the saturation at `UINT64_MAX` is
`Capped`. `first`, `accepted`, `previous` and `count` are history.

## 4. Runs

| run | requests, failing calls | properties | shows |
|---|---|---|---|
| `lifecycle` | select, stop; media, control, persist, cloud | `AiGate` `InputTruth` `Converged` `AcceptedWorkKept` `ShutdownCompletes` `InputLossStopsAI` `ReconcileServed` `WorkerAdvances` | input, AI, source and demand end where the intent says, whatever event falls between two calls; events are served, a stop ends, and no item keeps the worker going in circles |
| `catalog` | region; cloud, persist | `RetryingBacked` `InProgressOwnedAuthenticated` `RetryKeepsInput` `NewestRegionOnly` | two regions: late answers, retries and overtaking requests |
| `source` | rtsp, clear, select; source, reset, persist | `NoOrphanSource` `RtspJobAlive` `CleanShutdown` `DetachedSwitch` | the source is replaced while calls are lost, the account is cleared and the application stopped at every point |
| `liveness` | rtsp; none | `RtspAnswered` `AiAttaches` | every handler is answered, also by a stopping service, and a wanted AI is attached |
| `sidecar` | reset, AI start and stop, signal; crash, stuck, disk, spawn | `DescriptorOwned` `ChildOwned` `TokenGone` `Leased` `MonitorHonest` `PluginEnds` | the process with its monitors, resets and shutdown; the AI thread on it implements the lease; the plugin ends |
| `login` | every auth request, three ids; network, memory, rate, reset, persist | `AuthTruth` `CancelOwned` `RepeatRecognised` `AuthSettles` | the login against the sidecar's session and token, with requests that outlive their calls, cancellations and failed resets |
| `rtsp_manager` | all; every call and save | `ShownIsStored` `IdentityCurrent` `ListenerTruth` `OfferEffective` `QuietMeansRight` `PauseHolds` | the listener against the stored preference and password, through rollbacks, rotations and restarts |
| `rate_gate` | times up to `ClockMax`, resets | `RateBound` `NoBurst` `NotStarved` | the output rate, whichever way the clock jumps |
| `media_session` | lost and malformed units, full socket, failing host, a running clock | `Decodable` `OnlyForeignRefused` `NeverStale` | what both ends together let through to a decoder, and when |
| `catalog_dropped` | region; cloud | `InProgressOwned` (violated) | first finding |
| `source_reselect` | select; source | `SourceAccepted` (violated) | second finding |
| `rtsp_not_durable` | as `rtsp_manager` | `DurabilityReported` (violated) | third finding |

The host changes its mode at any time in every run of `MCService`; startup begins with any stored
selection and with or without the input. The sets of requests are split over the runs
because their product is beyond a five minute run and because the properties of a run
concern just those requests: `lifecycle` needs two cameras in one region (a switch),
`catalog` two regions with one camera each (an operation overtaken by the other region,
and by the same region again), `source` and `liveness` one camera and one
handler (a second one is refused as busy). `liveness` has no failing call: a wanted AI
is not attached while its start fails. There is no bound on the number of requests, events, retries or
failures: the state space is finite without one. `MaxPid = 2` in `sidecar`
is the sidecar before and after one successful reset, and any number of failed ones;
later resets see a state that only differs in the process number. In `login` a ring of
two and three ids make one id always forgotten (the code has a ring of 16, and the theorem
is for every size); two late requests let one be overtaken by another, and the theorem about
`AuthTruth` has no bound on them. Two passwords in `rtsp_manager` are the committed and the
candidate one; the code never holds a third. In `media_session` the
numbers wrap at 4 and two frames fit into the socket, so that there is a frame before, at and after
each rule; three instants and two picture times against a lag of one let a frame be
fresh, just fresh and stale on each side of the handshake.
`rate_gate` has several intervals of several instants, and a width the gate does
not reach, as in the code (`ClockMaxOK`). The deadlock check is on everywhere: the only state
with no further step is the destroyed service, which has the stuttering
step `Terminated`.

Which failing calls a run leaves out matters to what it shows:

- `AiGate` has no failing host. With one, a patch that fails for an AI that already
  runs, after which the guard is refused, takes the input back, and the AI
  goes on until the pass that follows.
- `InputTruth` has no failing host: see hazard `service.c:1169`.
- `Converged` has no failing source: `SourceAccepted` is the part that should have
  survived it (second finding). The theorem about it has every request and every
  other failing call.
- `source` has no failing `control` and host calls: those a source or a clear depends on are
  source requests, resets and writes; the theorems about its four properties have no such limit.
- `CleanShutdown` says nothing of the sidecar's source: main()'s stop of the process may give up after
  SIGKILL (`process.c:160`), and the source stays where it was. Module `Sidecar` has that case.
- `AuthTruth` says nothing of a sidecar that survived SIGKILL (`Rest`): see section 7.
- The completions that `ReconcileServed` is checked with are those of selections, stops, lists, refreshes
  and lifecycle passes; `AiAttaches` adds the RTSP jobs, and the theorem `LifecycleConverges`
  every other kind.
- `ReconcileServed` and `AiAttaches` are checked without region requests: clients
  that ask for region after region, each time between the answer of the last one and
  its completion, can keep the worker from the lifecycle pass for ever.

## 5. Fairness

Weak fairness for the worker, for the cloud thread, for a handler that has its reply,
for the event thread, for the AI thread that was told to stop and for main() once it
is stopping: each is a thread that only waits for a lock that is held for short
sections, for a call with a timeout, or for a condition that is signalled under the
lock. The promotion of a retry is a worker step: the wait has the
retry's deadline. Not fair: the requests of clients, the host's changes and the end of
service, which nothing promises.

In `Sidecar` each thread goes on with its call, for the same reasons. The two monitors call
`xc_should_stop` again and again (the bridge's loop and the event thread wake up
periodically), so each is weakly fair in what it does when it sees the end. A process that was
sent a signal ends, or is given up; one that was not may run for ever. The worker's exit is strongly fair:
between two of its calls the worker is repeatedly at a place where it looks at the stop, and
a pass makes finitely many calls. `MediaOwner` alone states safety only.

In `Auth` the worker is weakly fair and so is the set of requests in the sidecar: every call has
a deadline. That a particular late request is served, a resend window ends, a session expires
or a user acts is not assumed.

## 6. Proofs

All are machine-checked for every value of the constants under the named assumptions
`ConstantsOK` and `Distinct` (`ServiceState`), `MaxPidOK` (`MediaOwner`),
`RingOK` (`Auth`), `NoPasswordOK` (`RtspListener`), `WireOK` (`Aiv1Output`), `NowMaxOK` (`MediaSession`), `IntervalOK`,
`MaxLagOK`, `TimeMaxOK` (`MediaLogic`) and `ClockMaxOK` (`RateGate`).

| theorem | states | invariant used |
|---|---|---|
| `TypeCorrect` | `Spec => []TypeOK` | `TypeInv` = `TypeOK /\ WorkerHolds` |
| `MailboxExclusive` | `[]OneOperation` | itself, with `TypeInv` |
| `NothingOverwritten` | `AcceptedWorkKept` | `TypeInv`, `OneOperation` |
| `RtspJobOwned` | `[]RtspJobAlive` | itself, with `OneOperation` |
| `SourceRemembered` | `[]NoOrphanSource` | `SourceInv` = `NoOrphanSource /\ SourceGuarded` |
| `SwitchDetached` | `DetachedSwitch` | `SourceInv` |
| `AiGated` | `[]AiGate`, for a host that does not fail | `AttachGuarded` |
| `ShutdownClean` | `[]CleanShutdown` | `EndGuarded`, `SourceInv` |
| `InputKnown` | `[]InputTruth`, for a host that does not fail | `TruthGuarded`, with `AttachGuarded` |
| `OldAnswerDiscarded` | `NewestRegionOnly` | `RegionOutdated`, with `OneOperation` |
| `RetryLeavesInput` | `[]RetryKeepsInput` | `RetryInv` (`RetryBackground`) |
| `RetryShownTrue` | `[]RetryingBacked` | `RetryInv` |
| `DisplayTrue` | `[]InProgressOwnedAuthenticated`, without a clear | `DisplayInv`, with `RetryInv` |
| `LifecycleConverges` | `[]Converged`, for a sidecar that answers source requests | `LifecycleInv` |
| `WorkerEnds` | `WorkerAdvances`, with the range of both measures | `TypeInv`, `EndGuarded` |
| `ServiceWithinLease` | every step of the service is one of `MediaLease` or a join after a stop | `SourceInv`, with `StartsOne` |
| `OwnerKeepsLease` | the initial state and every step of `MediaOwner` are those of `MediaLease` | `OwnerInv`, with `StopKept` |
| `LeaseKeptHere` | the same for `SidecarSpec` | through the implementation |
| `JoinsEnd` | `[]JoinDue`, `ThreadEnds` | `OwnerInv`, with `JoinDue` |
| `CallsEnd` | `CallsAdvance`, `[]Placed`, `[]ChildDue` | `ProcInv`, with `DueInv` |
| `DescriptorNeverStale` | `[]DescriptorOwned` | `OwnerInv` (`SessionInv`) |
| `SidecarReplacedAlone` | `ReplacedAlone` | `OwnerInv` (`CallsInv`) |
| `SidecarImplementsOwner` | `SidecarSpec => Spec` of `MediaOwner` | none: step by step |
| `DescriptorOwnedHere`, `ReplacedAloneHere` | the two above, for `SidecarSpec` | through the implementation |
| `ChildNeverOrphaned` | `[]ChildOwned` | `ProcInv` (`ChildInv`), with `OwnerInv` |
| `TokenGoneFirst` | `[]TokenGone` | `ProcInv` (`TokenInv`) |
| `MonitorsHonest` | `MonitorHonest` | `ProcInv` |
| `RepeatsRecognised` | `RepeatRecognised` | `RingInv` |
| `CancellationOwned` | `[]CancelOwned` | `PassInv` |
| `ShownTrue` | `[]AuthTruth` | `PassInv`, `TruthInv` |
| `OperationsEnd` | `Advances`, `[]AnswerDue`, and who owns what is shown as working | `PassInv`, `TruthInv`, `WorkInv` |
| `StoredIsShown` | `[]ShownIsStored` | `RtspInv` |
| `IdentityNeverStale` | `[]IdentityCurrent` | `RtspInv` |
| `OffersEffective` | `[]OfferEffective` | `RtspInv` |
| `QuietIsRight` | `[]QuietMeansRight` | `RtspInv` |
| `ListenerKnown` | `[]ListenerTruth` | `RtspInv` |
| `PauseNeverBroken` | `PauseHolds` | `RtspInv` |
| `NeverSpoiled` | `[]Decodable` | `StreamInv` |
| `FramesAgree` | `[]OnlyForeignRefused` | `StreamInv` |
| `StaleNeverSent` | `NeverStale` | `TimeInv` |
| `RateBounded` | `[]RateBound` | `GateInv` |
| `NeverBursts` | `NoBurst` | `GateInv` |
| `NeverStarved` | `[]NotStarved` | `GateInv` |

`TypeOK` is not inductive: the worker reads `cur.job`, `cur.camera` and
`cur.region` at places it reaches through calls, so the type of what it writes
depends on the kind of item it holds there. `WorkerHolds` says which kind that is at
every place, across `xc_reconcile` and `xc_source_stop` and their return places.
`NoOrphanSource` needs to know that a source is only set when none is held
(`SourceGuarded`), which in turn needs what is detached at each place of a pass.
`AiGate` fails in the middle of a pass (between `media_start` and the recheck), so
`AttachGuarded` says where it may. The mailbox proofs rest on one lemma per
module that says which actions post to the slot and that they look at both halves.
`InputTruth` has two ways of being on its way: an event that is posted or read, and a
preparation whose guard no event has overtaken; `TruthGuarded` is the invariant with both.
`RetryInv` is what a retry needs to survive between two attempts: it is background work,
only work that leaves account, region and generation alone runs next to it
(`RetryAlone`), and whoever puts it on display or takes it away does both at once (`RetryShown`,
`RefreshSettled`). `DisplayInv` adds that an outdated operation always has a newer region
queued that it makes way for, which the completion can queue as the account is accepted;
without that account the first finding of section 7 is what happens. A clear whose read-back still
finds the account makes a refused account accepted again with that display, so the
theorem, like the run, is about requests without a clear.

`LifecycleInv` is about the pass that has to follow. What a pass has read is outdated by a
newer wish (`RecCurrent` fails), and source and AI are outdated after it (`Clean` fails);
`PassOwed` says that then another pass is *owed*: asked for by an event, queued, or held by an
item that ends in one, unless the last pass reported an error. Only two ends of an item
lead to no pass, the reply to an RTSP request and the discard of an outdated completion. For
the second, `OutdatedMakesWay` knows that an outdated catalog operation has a newer region to make
way for, and `RefusedDetached` that the discard of one, where the newer region is dropped
(first finding), finds no source held. `PassPlaces` is what holds at each place of a pass
if the sidecar answers source requests; without that hypothesis `Converged` is false, as the second
finding shows for the part of it that is called `SourceAccepted`.

The lease closes the circle between the service and the owner: `Service` abstracts the
AI thread to what `MediaLease` grants, `OwnerKeepsLease` and `LeaseKeptHere` prove that the
owner keeps to it, alone and with its process being replaced around it, and
`ServiceWithinLease` that the service's own steps ask for nothing else. The service
sees `xc_media_owner_stop` as one step, so there a request to stop and the end may come together
(`LeaseJoin`). The fairness in `LeaseSpec` is left to the run.

`WorkerAdvances` is the reason why the liveness properties of the worker hold. `ItemLeft`
bounds the worker's steps to the end of its item by the longest way through
`xc_reconcile` or `xc_source_stop` and through the body behind it; only an event, for an item that
waits for the cloud, adds a pass to it. `StopLeft` bounds the steps to the worker's
exit once the service stops, with a last queued item; nothing adds to it. `WorkerEnds` proves
both with their bounds (35 and 66) and that every worker step goes on to another
place, so that weak fairness of the worker is all that the shutdown needs. `OperationsEnd` is
the same for a login (13 steps), where the worker also waits for answers: `AnswerDue`
says that the request it waits for is in the sidecar, which serves it or gives it up, and
`WorkInv` that what is shown as working belongs to an operation that is queued or active.
`JoinsEnd` and `CallsEnd` are the same for the process. Who joins the AI thread has asked it to stop
(`JoinDue`), and such a thread is at most eleven steps from its end, whatever session it is in.
Who waits for the child has told it to end, and no monitor reaps it meanwhile
(`ChildDue`): `xc_process_stop` uses the handle without the lock. A reset has at most 16 steps, `main()`
11 from the serving loop on, and a thread that is in a call is at a place of it (`Placed`). What `PluginEnds`
needs beyond that is that the worker, which may begin one call after the other,
looks at the stop between two of them.

`RtspInv` is one invariant of all the RTSP properties together with `MidOperation`:
whether an offer may be skipped depends on the observed listener being true, that on
the password of an open listener, an empty error on there being no pause, and the
listener at the end of an operation on what its first half did to it.

`ProcInv` places the reset: which `job` goes with which place of the worker or of main()
(`PlaceInv`), who knows of a living child at each (`ChildInv`), and what the file and its
temporary one contain (`TokenInv`). The owner's theorems are not proved again for `Sidecar`:
every one of its steps is a step of `MediaOwner` or leaves its variables alone.
`RingInv` says where in the ring an id is that was recorded `since[id]` ids ago, for every size of it.
`AuthTruth` is about the worker at rest, so its strengthening says what is known of
token, session and requests at every place of a pass: `PassInv` which operation the worker holds
and which requests it has sent, `TruthInv` that what may be left of a login is always
covered by something that is still to come (the answer, the revocation or the reset), by the
error on display, or by a sidecar that could not be stopped.

`StreamInv` is a contract between the two ends: every frame in the socket either follows the
frame before it or is a marked keyframe (`Sound`), because a unit that was lost or
dropped leaves the output marked or a hole in its numbers (`OutputInv`); and a
session that is not waiting has a decoder with all that the next unmarked frame can refer
to (`SessionInv`). The numbers of the wire turn out not to be needed: the marks
alone carry it as long as the socket loses nothing. `GateInv` places the next point of the grid
between the last picture and one interval after it, and as many intervals after the first
picture as pictures were accepted.

`TimeInv` adds to the types that a frame past the first look at the clock has started the timeline
(or carries no time), so that the second look, after the handshake, measures against it.

The theorems about `TypeOK` (of the service and, inside the invariants, of the other modules),
`OneOperation`, `ReplacedAlone`, `PausedReported`, the steps of the lease and the measures of `OperationsEnd`, `JoinsEnd` and `CallsEnd` are
not repeated in a run. Every invariant and every step property of the passing runs is proved. What stays
with TLC are the liveness properties (`ShutdownCompletes`, `InputLossStopsAI`,
`ReconcileServed`, `RtspAnswered`, `AiAttaches`, `PluginEnds`, `AuthSettles`) and the fairness in
`Leased`: they need ENABLED of the fair actions, which the prover does not handle; the
measures above are the part of their proof that can be done without it.

## 7. Findings and observations

1. **A region shown as loading for ever** (`catalog_dropped`). When the cloud refuses
   the account, a region request is still accepted by an idle service. A second one
   outdates it; its completion is discarded (`service.c:1974-1982`) because, as the comment
   there says, something newer owns the state — but
   `xc_queue_latest_region_locked` (`1134-1136`) drops the newer region since the account
   is not authenticated. The display stays at loading and the region pending; a clear whose
   read-back still finds the account ends the pending region but not the loading.
2. **A source that is not asked for again** (`source_reselect`). After a source request
   and the stop that undoes it have both failed, `active_source` keeps the target
   (`service.c:1359-1360`). The user is told to select the camera again
   (`www/assets/app.js:159`); that pass compares the target with
   `active_source` (`1348-1350`), finds no change, never asks the sidecar, and
   ends without an error.
3. **An unconfirmed save that is no longer shown** (`rtsp_not_durable`). A preference that
   was committed but not confirmed durable is reported (`rtsp.c:431-432`), and the user
   is asked to retry saving (`www/assets/app.js:187`). A later request to the
   sidecar that fails overwrites the error (`156`), and the next successful read or offer
   clears it (`165-167`, `185-187`), although the comment there says that a read "says
   nothing about a previous save/durability/rollback failure". The retry is then
   answered as a success without saving (`407-410`).

Observations that contradict no statement of the repository:

- When an offer's withdrawal fails and RTSP is then disabled, no request is made
  (`rtsp.c:413` looks at `source_available`), the update commits and clears the error,
  and the listener can still be open; a read shows it as running.
- The pause of a failed rotation is not stored: after a restart the old password is
  used again.
- A failed reset leaves the plugin without a sidecar, and no monitor notices, since there is
  no process to poll (`main.c:154-183`, `287-311`): it serves on and every call fails.
- When a sidecar has died, the event thread can be the one that sees it and end, and a reset
  can begin before the bridge's loop looks as well: the plugin then serves on with the
  new sidecar and without its event thread (`EventStops`, then `ResetBegin`; `main.c:332`).
- `xc_process_stop` reports that a child survived SIGKILL, and the end of a failed start does not look at
  it (`process.c`, `main.c:105-150`): that child is `lost` in the model, and another one may be
  started beside it.
- Clearing the token counts a rename that was not confirmed durable as success
  (`main.c:154-183`): after a loss of power the token can be back. `TokenGone` is about the file as
  the new process reads it.
- A start that finds its child to have exited sends SIGTERM to the number of the process it has just reaped
  (`process.c:122-124`).
- `xc_store_atomic_write` removes its temporary name also when `openat` itself has failed
  (`store.c:112-113`); when another thread is writing under that name at the time, its
  rename fails.
- A login whose outcome is unknown is revoked (`service.c:1927-1936`) when the network or the
  protocol failed, but not when the plugin ran out of memory over the answer, and the
  reset that follows may fail. In both cases the page shows an error, which `AuthTruth` allows.
- A cancellation told while a verify request is being served waits for the sidecar's mutex and is then
  served after it, so the token is committed although the comment at `service.c:1044-1046`
  says that the sidecar's generation gate prevents it; the reset removes it. `AuthTruth` holds with it.
- A clear whose reset succeeds and whose write fails keeps showing the account of a token that is
  gone, in an error state, until an operation lists the accounts again.
- A sidecar that survived SIGKILL during a reset keeps its session and the requests it has; a later
  operation can show "logged out" before one of them commits a token.
- An SMS that was sent but whose answer was lost starts no resend window
  (`service.c:1835-1854`).
- The status file is written outside the lock (`service.c:929-990`): two writers can leave the older
  one. Nothing in the repository reads it.
- An RTSP request that replaces the source and then fails leaves both branches stopped
  until the next pass; the code says so (`service.c:1503-1504`).
- The sidecar takes the H.265 picture types that go2rtc names for keyframes
  (`go2rtc/patches/0002-aiv1-output.patch`, `inspectAVCC`), the session all of 16 to 23
  (`media_wire.c:136-137`): a picture of another type with its parameter sets is sent
  without the keyframe flag and ends the session (`media.c:469`). `OnlyForeignRefused`
  says that this is the only disagreement.
- A handshake with the host that takes longer than the allowed lag (1.5 seconds) ends the
  session at the second look at the clock (`media.c:292-298`): at best the timeline begins with the frame
  that waits. The new session begins a new one, and the handshake again.
- A camera whose times go back makes the sidecar's 32-bit differences jump far ahead
  (`timestampUS`); every later frame is then early, and the lag is not limited any more.
- Decoded pictures with and without a time in turn restart the rate gate each time the
  clock seems to go back (`media_logic.c:19`); `RateBound` is about one run of the gate.
- A discarded completion does not queue a requested reconciliation by itself; the operation
  that replaced it, or the next event, does.

## 8. What is not modelled and why

`PROJECT.json` lists every component with its status.

- The owner of the camera source in the sidecar (`go2rtc/patches/0010-camera-source-rtsp-output.patch`):
  the core sees it as one `source` call that is executed or not, and the patch has its own tests.
- The failure exits of the startup: they are sequential, no thread runs yet, and each undoes what
  was done before it.
- Reading, parsing and formatting of the state files; `bridge.c`, `source.c` and
  `xiaomi_api_client.c`, which translate data and keep no state between calls.
- Of a session the buffers, the packing of pictures and the bytes of the wire.
- The web interface, whose requests are the routes' actions; go2rtc itself, whose source
  is not in the repository, seen as a process that holds at most one source and may lose
  answers; build and packaging.
- The times themselves: deadlines are steps that may come at any time, except in the
  rate gate and in the freshness of a session.
