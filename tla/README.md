# TLA+ verification of jlink-mcp

`jlink-mcp` is an MCP server that lets an agent drive a SEGGER J-Link probe:
flash and read a target, run a GDB Server and a GDB client, sample variables
at high speed (HSS) and keep the captures.  Several server processes (one per
editor window) share the probes of one machine and coordinate only through
files in a state directory.  This directory specifies the parts of the program
whose correctness depends on ordering, failure and concurrency, model-checks
them with TLC and proves the most important theorems with TLAPS.

All paths below are relative to `src/src/` of the repository unless they start
with `src/`.

## 1. Inventory

| Component | State | Operations | What is hard |
|---|---|---|---|
| Directory lock (`mcp/runtime/probe-queue.ts` 434-560) | `<name>.lock` directory with `state.json` and `guard.json` | acquire, release, retire a dead holder's lock | file calls of several processes interleave; a process dies between two calls; renames fail on Windows; pids are reused |
| Directory lease (`utils/directory-lease.ts`) | lease directory with one owner record | acquire, wait, recover, release | the same, with a weaker protocol (judge, then rename by path) |
| Probe queue (`mcp/runtime/probe-queue.ts` 1-430) | tickets, sequence number, lease, long-lived owner record | runExclusive, claim/update/release/adopt owner | FIFO across processes, dead requests, an owner whose controller dies while its child keeps the probe |
| GDB session (`mcp/runtime/session-operations.ts`, `target-runtime.ts`) | owner token, server process, client connection, believed and actual target state, breakpoint life cycle, evidence of prevention and cleanup | server start/stop, connect, command, breakpoint list/delete, wait, abort, dispose | server and client exit at any moment, also inside another operation; breakpoints in flash must be removed before the server is killed |
| GDB client (`gdb/gdb-client.ts`) | child process, pending command, cached target state | connect, command, interrupt, wait, disconnect | time-outs, asynchronous stops, exit while a command is in flight |
| Process manager (`utils/process-manager.ts`) | process table, last exits | spawn, kill, killAndWait, waitForExit | a killed process's late exit, kill-and-respawn under one name |
| Target store (`mcp/runtime/target-store.ts`) | `targets.json`, dirty markers on disk, poison set in memory | configure, setArtifactMatch, setMemoryMutationTrust, get | a crash or a failing write between marker, document and marker removal; other processes read meanwhile |
| Memory session (`mcp/runtime/memory-session.ts`) | native helper, its owner record, idle timer | open, read, close, dispose | idle close races a request; helper exit races both |
| HSS capture (`mcp/runtime/hss-operations.ts`, `hss-helper-adapter.ts`, `hss-session-store.ts`) | capture session record on disk, detached helper, owner record, JCAP package | start, stop, status, recover, adopt, finalise | controller restarts during a capture; two processes recover it; evidence for completeness |
| Polling capture (`mcp/runtime/polling-capture.ts`) | job, samples, deadline | start, stop, sample loop | cancellation races the loop and the final write |
| Variable access router (`variable-access-router.ts`) | none | route a request to HSS, memory session or command | priorities of owners |
| Direct operations (`direct-operations.ts`) | through the queue and the store | flash, erase, read, write, halt, reset ... | trust must fall before or with every mutation; target state must be preserved |
| Debug sequence and tasks (`debug-sequence.ts`, `task-operations.ts`) | step cursor, breakpoint id | run_to and friends as sequences of session operations | clean-up when any step fails |
| JCAP v1 (`mcp/jcap/jcap-v1.ts`) | package directory, manifest, chunks, lease | create, append, seal, finalise, recover | crash between chunk and manifest; concurrent finalisers |
| Artifact, symbol and SVD catalogs (`mcp/artifact`, `mcp/svd`, `gdb/elf-resolver.ts`) | SQLite caches | build, query | pure parsing and I/O mostly |
| RTT client (`rtt/rtt-client.ts`) | ring buffer, socket | connect, read, clear | bounded buffer |
| Operation results (`operation-result.ts`, `operation-envelope.ts`, `operation-detail-store.ts`) | bounded LRU of details | put, get | limits |
| J-Link backend (`probe/`, `jlink/commander.ts`) | busy flag, exclusive owner | one J-Link Commander run per call | parsing vendor output |
| Native helper (`native/hss-helper/hss_helper.cpp`) | ring buffers, threads, DLL handle | sample, read, write, spill | C++ threads |
| Acceptance, scripts, tools registration, doctor | reports | tests and releases | not part of the control logic |

The components interact as follows.  Every tool that needs the probe goes
through the probe queue (`runExclusive`), and inside the slot it re-reads the
target from the target store and creates its J-Link backend or uses the GDB
session.  A GDB Server, a memory session and a capture outlive their tool call;
each holds the queue's long-lived owner record, which later calls are admitted
against.  Process exits reach the GDB session by callbacks, outside the queue.
Captures keep a session record and a JCAP package on disk under a directory
lease, so that another server process can find and finish them.

## 2. Plan

In the order in which they were written, the most basic first:

1. `Mutex`, `DirectoryLock`: the lock everything else stands on, refined from an
   abstract mutex with crashes, and proved (`DiskProofs`).
2. `DirectoryLease`: the weaker sibling.
3. `ProbeQueue`, `ProbeQueueProofs`: the queue over those locks (taken as
   locks, which `DirectoryLock` justifies).
4. `GdbSession`, `GdbSessionProofs`: the session over one owner record of the
   queue.
5. `FirmwareIdentity`, `FirmwareIdentityProofs`: the target store and the
   operations on flash, over the slot of the queue.
6. `MemorySession`, `MemorySessionProofs`: the helper, its owner record, the
   idle timer and the shutdown.
7. The captures, from the files upwards: `JcapPackage` (journals,
   `capture.json`, index, sealed file), `HssCapture` (session record, helper,
   adoption, settlement), `CaptureMemory` (requests to the helper of a running
   capture), `PollingCapture` (the capture without HSS).
8. `HelperCommands`: the native helper's one-shot commands, with the sampling
   loop of a capture.
9. `StructuredWrite`, and `DebugSequence` over it.

The proofs of the last three points and of the lock and the lease stand in four
modules, each about two components of one kind: a theorem names the property it
proves, so its module EXTENDS the models it is about.  That is why the second
component of each has names of its own for what every module has (`PackageSpec`,
`PollingSpec`, `LeaseSpec`, `CommandSpec`, and so on).

| Proofs | Components |
|---|---|
| `DiskProofs` | `DirectoryLock`, `JcapPackage`: protocols on files |
| `TargetProofs` | `DebugSequence` with `StructuredWrite`, `PollingCapture`: what the target is left as |
| `HssCaptureProofs` | `HssCapture`, `DirectoryLease`: the capture and the lease its settlement holds |
| `HelperProofs` | `CaptureMemory`, `HelperCommands`: the two sides of the native helper |


How they stand on one another: `ProbeQueue` takes the lock of `DirectoryLock`
as one step each way.  `GdbSession`, `FirmwareIdentity`, `MemorySession`,
`HssCapture` and `PollingCapture` take a slot of the queue as `ProbeQueue` shows
it: one at a time, against the owner that is in force.  `HssCapture` takes the
lease of `DirectoryLease` and the package of `JcapPackage`; `CaptureMemory` is
what happens inside `HssCapture` while it is capturing; `HelperCommands` is the
other side of both.  `DebugSequence` EXTENDS `StructuredWrite` and takes its
writes apart step by step.

What is left, most valuable first:

* `GdbClient` (its command queue, time-outs and the taint of an empty interrupt
  window) and `TargetLock` (the lock of `targets.json`, removed by path).
* `OperationDetails` and the RTT client, both bounded stores.

No module declares a RECURSIVE operator; constants' assumptions are named, and
there is one action per step of the code.

## 3. Modules and code

### DirectoryLock, Mutex

`DirectoryLock` is `acquireDirectoryLock`, `recoverStaleLease`,
`removeDirectoryIfTokenMatches` and `releaseDirectoryLock` of `probe-queue.ts`,
one action per file-system call.  `lock` is the record in the directory at the
path, `guarded` whether the directory still holds the guard named after its
token, `pc[p]` the next call of the process with pid `p`, `record[p]` the record
it has read or written, `alive` and `inc` which pids exist and which instance
of each.  `LooksLive` is `identityRecordLive`: one's own pid is told apart by
the instance id, any other pid is only asked whether it exists.  `RetireFails`
is a rename whose retries are used up, `Crash` a death between any two calls,
`Restart` the pid taken by a new process.

`Mutex` says what the lock promises: an instance takes it when it is free, only
that instance gives it back, and it is taken away only once that instance is
dead.  `ImplementsMutex` is the refinement, the holder being whoever the record
at the path names.

### DirectoryLease

`withDirectoryLease` of `utils/directory-lease.ts`, likewise.  It differs where
the code does: one rename retires whatever stands at the path, a failed rename
is swallowed, and a path without readable record counts as abandoned when it
is five seconds old (`Stat`, bounded by `MaxStalls`).

### ProbeQueue

Tickets, `sequence.json`, the lease and the owner record.  A process has one
request at a time (the in-process queue of the class serialises the others).
`Draw`, `WriteSequence`, `WriteTicket` allocate a ticket under `metadata.lock`;
`Sweep`, `HeadOfQueue`, `Recover`, `Publish`, `Pause` and `Timeout` are the
waiting loop; `Check` decides about the owner that then is in force
(`RequirementMet`, `Admitted`); `Finish`, `Unlease`, `Unticket` leave.
`Claim`, `Update`, `Release` and `Adopt` change the owner record under
`owner-update.lock`, each as one step because of that lock.  `InForce` in the
properties is what is really the case, `OwnerLooksLive` what the code can find
out.  Heartbeats change nothing the queue decides on.

### GdbSession

One target with its GDB Server, its client and its `TargetRuntime` record:
`servers`, `server`, `lastExit` and `flashOff` the server process, `client`,
`seen`, `reason` the client, `rt` the record, `owner` the queue's owner,
`exits` the handlers of server exits that still have asynchronous work to do,
`op` the tool call and where it awaits.  A tool call is split at every await,
so that exits, target stops and the shutdown fall in between.  What is really
so is kept beside it for the properties: `planted` (a breakpoint is in the
server), `story` (how far a managed breakpoint has come), `lost` (how the
client went).

Assumed of the parts outside: a halted target starts running only on a command
that resumes it; a breakpoint stop is reported only for a breakpoint this client
inserted; `killAndWait` ends the server.  Left out: register and variable
reads, which change no state of the session; the closing of a memory session by
`gdb_server_start`; breakpoints a raw command inserts, for which the code
promises no clean-up.

### FirmwareIdentity

The project's record in `targets.json` (`doc`: generation, configured images,
the identity they had, the artifact status), the dirty markers on disk
(`markers`) and in memory (`poison`), and what the flash really holds (`flash`,
the set of images that are whole in it).  `Verified` and `Sees` are
`applyDirtyArtifactOverlay`.  `Ask` to `NotIssued` are `queued` and
`queuedWithTarget`; `Program`, `Erase`, `Raw`, `Verify` and `FindStale` are the
operations that change the flash or compare it; `Mark`, `Publish`, `Clear` and
their failures are `setArtifactMatch` under the store's lock; `AskConfigure` and
`Commit` are `configure`; `ReadDocument`, `ReadMarker` and `Show` are `get`,
which takes no lock.  `change` says whether the last change of the flash has
been told to the store.

Assumed: one project on one probe; programming an image may spoil others; the
store's lock excludes and is taken from a dead process.  The memory mutation
trust, which production code only ever sets to unverified, is left out.

### MemorySession

`MemorySessionManager` and `NativePersistentMemorySession` of
`memory-session.ts`, with the operations of `direct-operations.ts` that go
through them and the gate in `hss_helper.cpp`.  Sessions are numbered; session
n is opened under owner token n.  `helper` is what the native process does
(`gated` until it reads its activation, then `connected` to the Probe), `seen`
what the MCP process has been told of its exit: the exit event sets
`child.exitCode`, on which `isAlive` and `waitForExit` decide, the close event
later rejects what is pending and runs `finalizeExited`.  `active`, `timer` and
`fired` are the manager's, `poisoned` and `line` (the pending request) the
session's, `closer` a call of `close()` by the operation or by the shutdown,
`owner` the record `owner.json`, of which the model keeps the token and whether
it names the helper's pid.

Operations wait in `waiting` with the local owner they were prepared against
(`Arrive`) and are refused or admitted after it (`Admissible`).  `Reuse`,
`Replace`, `Open`, `ClaimOwner`, `Spawn`, `RecordHelper`, `Activate` and
`Opened` are `probeFor`; `Command` and `CommandEnds` one command with its
result, `ResumeAfterReset` the fallback of a reset; `Retire` what follows a
failed operation; `CloseForTarget` to `ClosedForOperation` the close before
another use of the Probe; `TimerFires` and `IdleTurn` the idle close; `Dispose`
the shutdown, which takes no turn.  A step that the code runs without yielding
(claim, spawn, record, activate) is split so that the MCP process can die
inside it, and `Yields` keeps events out of it.

Assumed: the helper's activation is acknowledged before the helper has ended;
one project, and so one target, per MCP process, which `server.ts` enforces.
Reads are commands that leave the target alone and are not told apart from
refused ones.

### JcapPackage

One package of `mcp/jcap/jcap-v1.ts` and the `.jcap` file sealed from it, with
the queries of `capture-query-operations.ts`.  `samples` and `events` are the
two journals, kept as what the code derives from them: how many samples and
gaps, the last lifecycle state, the claim of the quality event, and whether the
tail is whole, torn in a frame or rubbish.  `meta` is `capture.json` with the
identities of the journals at the end of the capture, `db` the index, `file`
the sealed file.  `Create`, `Record`, `AppendSample`, `HandOver`,
`HelperSample` and `HelperExits` are the writing, in process or by the helper;
`BeginEnd` to `Publish` the ending in its five durable steps (quality event,
`finalizing`, terminal event, `capture.json`, sealed file); `Ask` to `Serve` a
query with the verification, the rebuild under the lease, and the restoration of
`capture.json` when the rebuild fails; `Export` the CSV.  Every process may die
between any two steps and in the middle of a frame (`Tear`), and the files may
be damaged afterwards (`SamplesRot`, `IndexRots`).

### HssCapture

`hss_start`, `hss_status`, `hss_stop`, the recovery and the monitor of
`mcp/runtime/hss-operations.ts`, with the session record of
`hss-session-store.ts`.  `Unprepared` to `Refused` are the preflight of
`hss_start`: the server's own memory session is closed, the target is looked at
before and after the helper is asked for its capability, and put back when
either has disturbed it; `LeaveAs` says how each way out leaves (`refused`;
`polls`, when the capture goes on without HSS; `unknown`, when the answer says
that the target's state is not known; `raised`, below; `planned`, a dry run).
`Create` to `FailPending` are the rest, under the queue: record, package,
launch, pid, claim of the probe, token, readiness, and the abort of each.  `Reconcile` is what every other call does first:
`Decision` says what the record, the helper's identity and heartbeat, and the
owner amount to.  `EnsureOwner` adopts the probe, `RequestStop`, `Stop`,
`Stopping` and `Wait` are the stop, `Settle` to `Verify` the settlement: owner
first, then journal, file, session record, and at last the target's state and
the release.  `helper`, `owner`, `pkg` and `target` are what is so; `session`
what is written of it.  Servers die, restart and ask in any order.

`RefusedLeavesTarget` asks that a capture that did not start leaves the target
as it was.  It excuses two ways out: `unknown`, which says so, and `raised`: when
the look at the target itself fails after the memory session was closed, the
error goes up as it is and says nothing of the target.  `hss_recover` takes the
steps of `hss_status`, or refuses; it adds none.

Abstracted: the quality evidence a settlement writes (a claim in
`JcapPackage`), the choice of variables, unresolved memory requests, which
`CaptureMemory` has.

### CaptureMemory

What `hss-operations.ts` and `hss-helper-adapter.ts` do for `read_variable`,
`write_variable` and `resume` while a capture runs.  `request`, `claim` and
`response` are the three files, `receipts` the answered effects whose event is
not known to be durable, `events` the journal of the capture.  `Begin` enters
the lease of the capture; `Publish`, `Receive`, `TimesOut`, `Bank`, `Drop` and
`Unclaim` are one exchange; `AppendEvent` and `Acknowledge` the event of an
effect; `RecordAgain`, `Record` and `Forget` the recovery that every later call
makes first.  The helper claims, works and answers between samples.  `denied`
and `promise` keep what callers were told.

### PollingCapture

`mcp/runtime/polling-capture.ts`.  `job` is the job in its server's memory,
`call` the writes and resumes from outside (`beginExternalWrite` and its
siblings), `asker` whoever asks for a capture without having its job, because
the server died or because it is another server.  `JobStarts`,
`SampleBegins`, `ReadEnds`, `PauseEnds`, `Syncs`, `LoopEnds` are the loop, in the
background or in pauses of the target; `Drains`, `Close`, `Observe`,
`ReleaseObserver` the close that a second memory session verifies; `Finalize`,
`Seal`, `Publish` the package; `Reconcile`, `Reconciled` the recovery, which
does not ask whether the job lives and writes to the same journal, metadata and
final file.
`disturbs` says which installations of the J-Link software change the target's
state as they let go of it, the reason for the second session.

The memory session is not the job's alone.  `SessionGoes` is another operation,
the idle timer or the helper's exit ending it, `Reopens` an operation opening
the next; `owns` says whether the session still has the token in the record of
the capture.  `Owned` compares that token, as `withProbe` does before a sample,
a write or a resume; `Close` does not, as `closeAndReconcileTarget` does not,
and closes and observes whatever session is open.  `Sessions` is `probeFor` in
the slot, which may itself replace a session.  An event that cannot be
appended (`TornEvent`) costs a sample; in `PauseEnds` that comes before the
check of the resume, as in the code.

The history variable `unsaid` is set when the target is in a state nobody asked
for and the job goes on without any trace of it: after such a pause, or when
one session has taken another's place.  `LeftAsFound` leaves these out;
`AlwaysLeftAsFound` and `QuietlyLeftAsFound` do not, and are violated (section 6).

### HelperCommands

The one-shot commands of `native/hss-helper/hss_helper.cpp`: `hss-capture`,
`getcaps`, `connect-preflight`, `cpu-control` and `target-state`.  `WayIn` is
what they share, with its give-back at every failure; `Guard` is
`enforce_expected_target_state` and its siblings; `Starting`, `Sampling` and
`Recording` are a capture up to the end of its loop; `CountRecord` is
`observe_hss_sample` with its slots, duplicates and gaps (`Slot` rounds the
timestamp as the code does); `Finish` closes in order and gives the verdict.
A capture serves memory requests between its reads (`Serves`): one may write,
with an effect that is known or not, and one may resume the target, which goes
into `did` and `core` and into `loop.resumed`, of which the final answer takes
no notice.  `AnswerTruthful` excepts these resumes by name.
The vendor DLL is external: each call succeeds, fails or raises.

### StructuredWrite, DebugSequence

`StructuredWrite` is `structuredWrite` of `direct-operations.ts` with
`accessMemoryNonIntrusive` of `probe/jlink.ts`: old value, write, verification,
restoration, last look, and the answer.  The write goes through the memory
session, request by request, or in one native process that may be lost with its
answer (`HelperLost`).  `DebugSequence` is `debug-sequence.ts`: the steps and
their waits (`Ready`, `Halts`), each step's result (`StepResult`), the declared
restorations and stops, and the automatic stop of the capture the sequence
started.  The plan is drawn up as it is carried out: each step is one the
preflight allows after those before it.  Plans write one variable, which they may
spell in two ways; a write during a capture answers as `CaptureMemory` shows.

Assumed: the firmware leaves the variable alone, the comparator is the exact
one, the store can be read at the end of the operation.

## 4. Runs

Several named invariants of one module that guard the same state are
conjuncts of one checked invariant (`CaptureSound`, `SessionSound`,
`AnswerSound` and the like); the type invariant is the first of them.  States and
times are of two TLC workers.

| Run | Module | Bounds | What it shows |
|---|---|---|---|
| `lock_safety` | DirectoryLock | 3 processes, 3 directories, 1 death, 1 failed rename | the lock is never retired by mistake, refines `Mutex`, and is recovered unless it lost its guard |
| `directory_lease` | DirectoryLease | 3 processes, 1 death, 1 restart, 1 failed rename, 1 stall | exclusion as long as nobody dies or stalls; recovery |
| `queue_safety` | ProbeQueue | 2 processes, 3 tickets, 2 owners, 1 death, 1 restart, 1 failed removal | one at a time, in order, admitted against the owner; owners fail closed |
| `gdb_session` | GdbSession | 2 servers one after the other, time-outs, failing store, shutdown | breakpoints, resumes and ownership |
| `firmware_identity` | FirmwareIdentity | 2 processes, 2 images, 2 generations, 1 death, every fault | a verified record names what is in the flash; trust returns only with evidence |
| `memory_session` | MemorySession | 2 sessions, 2 configurations, 1 waiting operation, 1 fault (helper hangs, owner record not updated or not removed) | nobody shares the Probe with a helper, no helper is lost, writes are reported |
| `jcap_package` | JcapPackage | 2 readers, 2 samples, 1 missing, 2 faults | what is served is what the capture ended with; a completed capture is accounted for; a build left behind is taken up |
| `hss_capture` | HssCapture | 2 servers, 3 claims of the probe, 1 fault | the probe is never free under a running helper, the target is left as found, session and package agree, the capture is settled |
| `capture_memory` | CaptureMemory | 3 effects, 2 faults | each effect reaches the journal once; what is reported unissued never happens; a reported value holds |
| `polling_capture` | MCPollingCapture | 1 sample, 1 call from outside, 1 asker, 2 faults; sessions close and reopen at will | what was issued is in the record, the file is what was reported, the target is left as found or as asked for, the capture ends |
| `helper_commands` | HelperCommands | 3 samples at 500 Hz, 5 timestamps around the slots, every option and every failing call | nothing left open, a truthful answer, slots accounted for, every command answers |
| `debug_sequence` | DebugSequence | 3 steps, 2 cleanup actions, 2 spellings, 3 values and a torn one | silence means untouched; a claimed value holds; a failed sequence cleans up or says that it does not know |

Kept beside the runs, with the same modules: `MCProbeQueueLive.cfg` (3
processes, 1 death, no owners: `WaiterServed`, every waiter is served or
leaves), `MCFirmwareSilent.cfg` (status reads, no deaths: `NoSilentChange`, no
operation returns with an unreported change if the target can be observed) and
`MemorySessionLive.cfg` (1 session, 1 fault: `IdleSessionCloses`,
`OwnerGivenBack`).  These three pass in 11 to 21 seconds.
`MCPollingCaptureRecord.cfg` (1 call, 2 askers, 2 faults: `RecordSound`) and
`MCPollingCaptureTarget.cfg` (2 calls, 1 asker, 1 fault: `LeftAsFound`) are
`polling_capture` on larger instances, with symmetry; they pass in two minutes
each.

Why the bounds are enough to meet the hard cases.  The lock and the lease need
a holder, a process that judges it and a third that replaces it meanwhile:
three processes, and as many directories as there are turns in that race.  One
death can fall at any call of any process; one failed rename likewise.  In the
queue two processes are enough for admission and owners (a controller and a
rival), three for order and for a dead process between two live ones.  A second
GDB Server is what a late exit handler can confuse with the first.  Two images
and two generations are what a stale marker, or a status carried over, can
confuse.  Several configured images are left to one counterexample (below).
A second memory session is what a late close event or idle callback of the
first can confuse; one waiting operation is enough for an owner that goes while
it waits, and a second configuration for a session of an older one.
Of a package two samples tell a gap from a loss at the end, and a second fault
lets the recovery from the first fail.  Three claims of the probe are
`hss_start`, one adoption and one after a restart.  Three effects are a write,
its restoration and a later call that finds what they left.  The timestamps of
`helper_commands` contain the rounding boundary of a slot, a repetition, a step
back and a jump of more than one slot.  Three steps are a capture, a write in it
and the step that fails.  In a polling capture one
asker can come while the job lives or after it, two faults are a seal that fails
and a death after it, and one sample is one pause, whatever follows it.  Two
askers, and two calls that want the target in different states, are in the
configurations kept beside the run; the theorems are for any number.

Where a run disables deadlock checking, the processes may stop asking, or the
bound on tokens, tickets or servers is used up.

Fourteen further configurations each end in a counterexample that is discussed in
section 6: `MCDirectoryLeaseRace.cfg`, `GdbSessionResume.cfg`,
`MemorySessionReset.cfg`, `MCDirectoryLockGuardLoss.cfg`,
`MCDirectoryLockInvalid.cfg`, `GdbSessionTimeout.cfg`,
`GdbSessionShutdown.cfg`, `MCFirmwareErase.cfg`, `MCFirmwareStatus.cfg`,
`MCFirmwareImages.cfg`, `PollingCapturePause.cfg`,
`PollingCaptureReopened.cfg`, `PollingCaptureOrphan.cfg`,
`HelperCommandsResume.cfg`.

### Fairness

Liveness is checked under weak fairness of the steps of each process that is
inside the code (`Fairness` in DirectoryLock, DirectoryLease and ProbeQueue):
its file calls return, its polling timer fires, and an operation it runs ends.
Node schedules timers and promises so, and every vendor process is run with a
time-out.  Asking, dying, coming back and failing are never fair: nothing
obliges them.  In MemorySession a helper that was killed and does not hang
exits, its events are delivered, a request ends at its time-out at the latest
and the idle timer fires; an idle callback that asks for a turn gets it although
others are served in between (`SF` of `IdleTurn`), since the queue serves
tickets in order, which `MCProbeQueueLive.cfg` checks.

`JcapPackage` is fair to a query that has begun to be asked for: somebody who
wants the capture asks again.  `HssCapture` is fair to the helper (which ends at
its planned duration or its stop file), to `hss_start`, to the monitor, and
strongly to the steps of a call, because the lease and the queue they wait for
are first come first served; calls, deaths and restarts are not fair, so
`CaptureSettles` is about the starting server while it lives and monitors.
`CaptureMemory` is fair to the helper's work, to the call in the lease, and to a
later call once the helper is gone (the monitor, or `hss_status`).
`PollingCapture` is fair to the job, strongly to its deadline, which a sample in
between disables only for a while, to the calls it waits for, and to the askers.
`HelperCommands` is fair to the helper and to the clock: every call of the DLL
returns or raises (a call that hangs is ended from outside, which no answer of
the helper covers) and the planned duration passes.

## 5. What is proved

The results are listed in `PROJECT.json` under `theorems`: 38 of them, among
which every invariant that a run checks and every action property but the
liveness ones.

### The lock and the lease

`DiskProofs`, for any number of processes, tokens, deaths and failed
renames, from `ConstantsOK` alone (the bounds are naturals and `NoLock` is no
record): `TypeCorrect`, `Exclusion`, `RetiresWhatItJudged`, `HolderKeepsPath`
and `Refinement` (the lock implements `Mutex`).

None of the safety properties is inductive by itself: that a holder keeps its
path depends on what a remover that read the record long ago may still do.  The
inductive invariant `IInv` adds what the protocol relies on.
`TokenInv`: a token names one directory, so a guard found under it belongs to
the record that was judged.  `StaleInv`: a record found stale stays stale, since
instances only go forward.  `RemovingInv`: between the two renames the directory
stands without guard, and one process at a time is there, so the second rename
takes the directory whose guard the first took.  `HolderInv`, `HasRecordInv`,
`IssuedInv` and `RunningInv` connect the program counters with the records.
One lemma per action shows that the step keeps `IInv`.

The lease has no such protocol, and only what `ExclusiveUndisturbed` says is
true of it.  `HssCaptureProofs` proves it as `LeaseIsExclusive`, for any number
of processes, tokens, restarts and failed renames, from `LeaseConstantsOK`: while
no process has died and none has stalled, every record that was read or stands
at the path is that of a process which lives (`UndisturbedInv`), so the judge
never comes to a rename, and whoever is inside has its own record at the path.
Restarts need no hypothesis: there is none without a death.

### The firmware identity

`FirmwareIdentityProofs`, for any number of processes, images, generations and
deaths and any set of faults, from `FirmwareConstantsOK`: `TypeCorrect`,
`SlotKeepsTarget` (`StableInSlot`), `PoisonLasts` (`UnsaidNotSeen`), and, if no
project is configured with more than one image (`SingleImage`, the hypothesis
without which the program is wrong), `VerifiedIsTrue` (`VerifiedIsProgrammed`)
and `TrustNeedsEvidence` (`VerifiedByEvidence`).

The argument: who is in the slot, or past the lock, is alone there and the
target is still the one it was asked for (`SlotInv`); under the lock the marker
is up and the copy of the record is the record (`SettingInv`); what was seen
verified on entry is verified until the operation marks it (`SeenInv`); a
status of verified on its way has its evidence in the flash (`EvidenceInv`),
which nobody can take away because whoever could is kept out of the slot; images
come from configurations only (`ConfigInv`); a failed marker stays in the memory
of its process (`UnsaidInv`).  A record becomes verified in two ways: its
marker is cleared, under the lock and with the evidence, or a new configuration
inherits the status from a record that itself counts as verified.  The proof
first says what each action does to the operations field by field (the
`...Effect` lemmas), then goes through the parts of the invariant.

### Writes and sequences

`TargetProofs`, for any values, spellings, number of steps and of cleanup
actions, from `ValuesOK` and `SequenceOK` (a torn value is a value, and not the
one a cleanup restores): `SilenceIsTrue` (`SilenceMeansUntouched`), `ClaimsHold`
(`ClaimedValueHolds`) and `CleansUp` (`CleanedOrUnknown`, with the types).

The answer of a write is put together at its end from up to three errors that
arose on the way, so what it says follows only from what each phase has left
behind.  The inductive invariant `Inv` has a part for each phase: nothing was
sent before the write step (`EarlyInv`); an old value that was captured is the
one before the write, and a session that was to capture it has it before it writes
(`OldInv`); what reached the target counts as issued, and every error after
that says so (`IssuedInv`); what was verified holds unless it is to be undone
(`VerifiedInv`); a restoration that was read back put the old value back
(`RestoredInv`); an error that was not raised says nothing (`QuietInv`).
`EndInv` is what they add up to in the answer.  For the sequence: a write is
under way exactly when the sequence waits for one (`WritingInv`), what reached
the target is among the possibly written (`HitInv`), nothing is declared before
the cleanup (`UncleanedInv`), what was declared is back (`PutBackInv`) and a
capture that goes on is the sequence's own (`OwnCaptureInv`).  One lemma per
action; those of a write serve the write alone and the write of a step alike.

### The probe queue

`ProbeQueueProofs`, for any number of processes, requests, owners, deaths,
restarts and failed removals, from `QueueConstantsOK` (`None` is nothing else):
`TurnsAreInOrder` (`TurnsInOrder`), `OperationsAreAdmitted`
(`ExecutionAdmitted`), `ControlIsKept` (`ControllerKeepsOwner`) and
`OwnersFailClosed` (the action property `OwnerFailClosed`).  A turn is decided
by reading the directory of tickets once, and used many steps later.
`QueueInv` says why it still holds then: a ticket is signed by an instance that
lives (`Signed`), numbers are given once and only grow (`Numbered`), between
number and file the metadata lock keeps others from drawing (`Writing`), so
nobody can come before the head of the queue (`Queued`).  `OwnerInv` dates the
owner record: it names no instance yet to come, and no request is admitted
against an older owner than the one in force.

### The GDB session

`GdbSessionProofs`, for any number of servers and any set of faults, from
`BoundsOK`: `SessionIsSound` (`SessionSound`), `PlantedUnderPrevention` (the
first half of `BreakpointSteps`) and `ResumesAreJustified`
(`ManagedResumeJustified`); and, unless a target that was interrupted for an
insertion can fail to resume (`"resume" \notin Faults`, the hypothesis without
which `GdbSessionResume.cfg` shows the program wrong), `StopIsClean`
(`StopLeavesNoBreakpoint`) and `BreakpointsAreKept` (`BreakpointSteps`).
`Typed` includes that every server and token that is named was handed out.
`OwnerInv`: a late exit handler has the token of no owner whose server runs.
`PreventionInv`: evidence that flash memory is left alone names the server it is
about, and no raw command is on its way while there is some.  `LostInv` is the
record a client leaves as it exits.  Five parts follow a managed breakpoint:
its life cycle has an order (`OrderInv`), nobody who has evidence of it still
expects what was observed before (`EvidenceInv`), once it is hit the target
rests (`HitInv`), a stop not yet waited for is its stop (`PendingInv`), and while
the target is seen halted the record tells what happened (`StoryInv`).
`PlantedInv`, under that hypothesis: a breakpoint that may be planted is marked
for cleanup, or its insertion is still awaited.

### The memory session

`MemorySessionProofs`, for any number of sessions, configurations, waiting
operations and faults, from `SessionBoundsOK`: `HelpersAreCovered`
(`HelperCovered`), `NobodyInterleaves` (`NoInterleaving`), `NoHelperIsLost`
(`NoLostHelper`) and `WritesAreReported` (`WriteReported`).  The owner record is
taken in one place and given back in six, some reached by an exit event, some
by an operation and some by the shutdown.  What the proof carries: the MCP
process believes no exit that did not happen (`HelperInv`); an active session
has the owner record (`ManagerInv`); the session an operation works on has the
record, or nobody has, and it is the active one or its helper is dead
(`PlaceInv`); what is awaited is the operation's own (`CallInv`); and what a
command did is in its reply, or is said all the same (`ResultInv`).

### The captures

`HssCaptureProofs`, for any number of server processes, claims and failures,
from `CaptureConstantsOK` (the starter is a server, and no server is called like
one of the two holders of the queue that are none): `CaptureIsSound`
(`CaptureSound`) and `SessionAgrees` (`SessionAgreesWithPackage`).  Any server
settles on what a record says that another wrote before it died; all the
theorems turn on the helper not coming back once it is gone (`Gone`).
`EndedInv` and `TaskInv` say at which places that is known, and from what: its
pid is recorded, or the record is old and there is no identity.  `PlaceInv`
follows `hss_start`, `HoldersInv` the lease and the queue, `TargetInv` says
where the target must be as it was found, `ProbeInv` that the probe is claimed
or still in `hss_start`'s turn, `SealInv` what a settlement carries from the
package to the session.

`HelperProofs`, for any number of requests and faults, from
`CaptureMemoryConstantsOK`: `RequestsAreSound` (`RequestsSound`) and
`ReportedValuesHold` (`ReportedValueHolds`).  A request is in one file at a time
and an answer is truthful about the claim it is beside (`FilesInv`); what a call
denied is in no file any more (`DeniedInv`); an effect is in the journal once, or
its receipt or its claim is still there (`JournalInv`); what a call waits for,
and is answered, is its own, unless it comes late (`ExchangeInv`); a call that
says that nothing was issued has nothing under way (`UnissuedInv`).  The recovery
takes the oldest receipt first; that there is one is the minimum principle for
natural numbers, from the library's theorems on well-founded orders.

`DiskProofs`, for any number of readers, samples and faults, from
`PackageBoundsOK`: `PackageIsSound` (`PackageSound`), `QueriesServeTheEnd`
(`ServedIsFinal`) and `EndsForGood` (the action property `FinalForGood`).  A
package is ended by the process that recorded it, or by a later one that finds
journals nobody writes any more, and it may be ended while readers rebuild its
index.  `ProducersInv` says who may still write a journal at each step of an
ending; `ClientInv` what the ending has decided by then; `ClosedInv` and
`EndedInv` that nobody writes to the journals of a package whose `capture.json`
says that it is over, and that whoever is then still at an ending would give it
the same one (`Verdict`); `EndedAsRecorded`, which is checked too, that this end
is the one the event journal tells.  `ReaderInv` is what a query carries over
its awaits: what it rebuilds from, or restores when that fails, is `capture.json`
as it ended, and the journals are those it was verified against; `FileInv` and
`IndexInv` say the same of what is on disk.  `FinalForGood` needs that no step
changes a terminal `capture.json`, nor a journal other than by damage, which
`PackageInv` gives action by action.

`TargetProofs`, for any number of samples, calls from outside, askers and faults
and any installation of the J-Link software, from `PollingCaptureConstantsOK`
alone: `PollingLeavesAsFound` (`LeftAsFound`) and `PollingRecordIsSound`
(`RecordSound`), both from one inductive invariant (`PollingInvariance`).
`JobInv` and `CallInv` say who has the queue, and that a call is under way only
while the job samples or drains, so that nobody is inside once it finalizes.
`TargetInv` says, place by place, what the job knows of the target as long as it
has no doubt: while a session is open the target is as wanted, or `unsaid`; when
one is observed, the target is what closing the one before made of what was
expected, so that a second session of the same installation which finds it as
expected also proves that its own closing leaves it so.
`RecordInv` carries that into the record.  What is on disk is written by the job
and by askers of whom the job knows nothing.  `AskersInv`: an asker that came
while the job lived has come early, and seals only a journal that an asker
ended.  `JournalInv`: a journal has one end, the metadata are those of that end
or not yet written, and the outcome of a job that seals agrees with them.
`FileInv`: a final file says what the journal's end says, and a job's holds all
that is staged.  `PollEndInv` draws from these what a record may say beside a
file.  Nothing is assumed of when an asker asks; that one came early (`Taken`)
excuses only what the file lacks.

`HelperProofs`, for any rate and number of samples and any timestamps, from
`RateAssumption`, `RequestedAssumption` and `TimesAssumption`: `AnswersAreSound`
(`AnswerSound`) and `EverySlotIsAccounted` (`SamplesAccounted`).  `PhaseInv` says
what has been done to the target on the way into a command and what is held at each phase, which
is what the failure at that phase has to give back and to tell; `CountInv` what
the counters of slots, duplicates and gaps say of the records written (slots
never go back; without duplicate and gap they are consecutive); `DoneInv` that
the answer is true of the controls issued and of the state seen (`TrueOf`), and
of the file.  In a loop that serves requests `PhaseInv` keeps apart the resume
the command issued, on which the answer is decided, and one a request issued
(`loop.resumed`), which `TrueOf` excepts.

All of these are laid out alike: a lemma for each action, or group of actions,
says what the step does to each variable and to each field of a record, then
each part of the invariant has a lemma with one step per action, and the theorem
puts the parts together.  TLC has checked each of the inductive invariants on
the instances of section 4, or on smaller ones, before it was proved.

### What is only model-checked

The liveness properties of the runs (`LeaseRecovered`, `GuardedLockRecovered`,
`StaleBuildRecovered`, `CaptureSettles`, `ClosesUnlessStuck`, `PollingEnds`,
`CommandAnswers`) and those kept beside them: liveness under fairness and ENABLED
are out of the prover's reach.  `NoSilentChange`, of a configuration kept beside
the runs.  `NeverKilledWithBreakpoints`, which the shutdown violates, has no
theorem because it is false.  Nothing is proved by induction over data, which the
provers cannot do either: where a fact about a sequence was needed (the records
of `HelperCommands`), the invariant carries it from step to step.

## 6. Disagreements found

* *Lease race* (`MCDirectoryLeaseRace.cfg`).  `recoverStale` judges one record and renames
  whatever stands at the path; two recoverers can both get in.
* *Resume failed* (`GdbSessionResume.cfg`).  The running-target insertion reports
  a failed resume without saying that the breakpoint had been dispatched; the
  stop leaves it in the server.
* *Reset unreported* (`MemorySessionReset.cfg`).  A reset that left the target
  halted is followed by a resume; if that is refused before it is sent, the
  result says that nothing was issued.

* *Guard lost* (`MCDirectoryLockGuardLoss.cfg`): a process that dies between
  renaming the guard and renaming the directory leaves a lock nobody can
  retire, although a test states that a crashed holder's lease is recovered.
* *Malformed lock* (`MCDirectoryLockInvalid.cfg`): a lock that changes hands
  between three file calls of a waiter is reported as malformed state.
* *Client timed out* (`GdbSessionTimeout.cfg`): a client ended after a time-out
  is not reported to the session's listener, which leaves a session that can
  neither be stopped nor connected again.
* *Shutdown* (`GdbSessionShutdown.cfg`): `dispose` kills a server whose
  breakpoint insertion awaits its answer.
* *Erase unobserved* (`MCFirmwareErase.cfg`): the record stays verified over an
  erased flash when the observation after a successful erase throws.
* *Status read* (`MCFirmwareStatus.cfg`): `get` can show verified although the
  record did not count as verified at any time during the read.
* *Several images* (`MCFirmwareImages.cfg`): programming one of several
  configured images makes the record verified.
* *Pause unrecorded* (`PollingCapturePause.cfg`): `stopPollSample` appends the
  event of a pause (`polling-capture.ts:678`) before it checks that the target
  runs again (line 686).  If the append throws, `run` counts a lost sample; the
  next samples read the halted target as they find it, the close expects
  halted, and the record ends without `stateUnknown`.  No installation disturbs
  anything in this configuration.
* *Session replaced* (`PollingCaptureReopened.cfg`): `closeAndReconcileTarget`
  (line 740) takes the session that is open without comparing its token.  If
  another operation closed the capture's own, which left the target in another
  state, and one was opened again, that other state is what the close preserves.
* *Live capture sealed* (`PollingCaptureOrphan.cfg`): `reconcileOrphan` (line
  496) does not ask whether the controller lives.  The monitor of another server
  ends the journal of a capture that runs and seals it; what the job puts into
  the package after that, here a sample, is in no file.
* *Resume untold* (`HelperCommandsResume.cfg`): the final answer of a capture
  says `resumeIssued` of the resume before the start alone
  (`hss_helper.cpp:6152`), although a memory request (line 5970) resumed the
  target, and does not say that the state is unknown.

Met while modelling the captures, by reading; the models follow the code, and
the properties are stated so as to except them:

* `hss_stop` during a pending startup writes a `stopping` session without pid
  or owner token, which `validateSession` refuses: `HSS_STOP_PENDING_STARTUP`
  (`hss-operations.ts:1157`) is hardly reachable.
* A launcher that dies before pid and token are recorded: the settlement seals
  the package and then cannot write its `interrupted` session; the next one makes
  it `failed`.
* A crash between the terminal event of the package and the session record: the
  retry is refused by the package and the session becomes `failed` beside a
  package that ended otherwise.
* The monitor swallows an error of its settlement (`hss-operations.ts:2235`),
  and a live owner is released only by its own process.
* A memory request that was claimed and never answered makes every later
  settlement throw (`hss-helper-adapter.ts:589`); `ClosesUnlessStuck` excepts it.
* The quality event of `reconcileOrphan` counts every sample missing while the
  metadata gets none, which the reader of the package refuses, so the prefix
  that README.md:170 promises to retain is not readable.
* The catches in `finalize` (`polling-capture.ts:1058`, 1078) replace an earlier
  error and its `stateUnknown`.
* The final answer of a capture by the helper leaves read, stop and close
  crashes out of `stateUnknown`, which early exits include.
* A cancellation during a wait of a sequence is classified as failed
  (`debug-sequence.ts:391`, README.md:157); `refKey` (line 508) compares
  spellings, so that a restoration declared in another spelling is skipped.
* In `queuedWithTarget` (`direct-operations.ts`) a store that fails after the
  operation answers `writeIssued: false` of an operation that was issued.

Weaknesses no document promises to exclude, which the models exclude or excuse:
a pid taken again makes a dead process's records look live to others; a release
whose rename fails for good leaves a lease with a live pid; a process that dies,
or finds the store busy, between a change of the flash and the marker leaves
the record verified (the program marks after the change); `gdb_command` can
program the flash without touching the record; `tbreak`, `hbreak` and `watch`
count as raw commands; a server that ends uncleanly during a stop keeps its
owner record; a memory helper that outlives the wait for its exit at startup
keeps its owner record until the MCP process ends, also when it exits later; a
memory session that cannot be closed makes `dispose` reject before the GDB
Servers are ended; two projects on one probe do not know of each other's changes.

## 7. Not modelled

* The GDB client's command queue, the process manager's signals and the lock of
  `targets.json` are taken at their results (sections 2 and 3).
* `variable-access-router.ts` keeps no state; it chooses between the ways that
  `StructuredWrite`, `CaptureMemory` and `PollingCapture` model.  The window
  between its choice and the start of a capture is not modelled.
* `task-operations.ts` relabels answers.  The direct operations that leave the
  firmware alone are turns of the queue (`ProbeQueue`) without state.
* What other operations do to the target between two samples of a polling
  capture, other than closing and opening the memory session: a direct halt,
  reset or flash through the session of the capture is a turn of the queue
  whose own answer says what it did.
* The bytes of the JCAP format, bucket queries and the analysis of samples: pure
  functions of a file that `JcapPackage` shows to be the right one.
* Vendor output, ELF, SVD and symbol catalogs, registration, doctor, RTT,
  operation details, acceptance and release scripts: parsing, formatting, bounded
  stores or tooling without interaction worth a model.
