---------------------------- MODULE MemorySession ----------------------------
(***************************************************************************)
(* The persistent native memory session of one target                      *)
(* (memory-session.ts, its callers in direct-operations.ts and the start   *)
(* of memory_session in hss_helper.cpp).  One MCP process keeps one helper *)
(* process connected to the Probe between memory operations, and owns the  *)
(* Probe as long as that helper runs.  Operations take turns in the queue, *)
(* but the helper may exit or write rubbish at any await, the idle timer   *)
(* asks for a turn of its own, the shutdown closes the session without     *)
(* one, and the MCP process may die between any two steps.  A foreign      *)
(* process uses the Probe when the queue finds it without a live owner.    *)
(*                                                                         *)
(* Session n is opened under owner token n.  ProbeQueue is about the queue *)
(* itself: here one operation holds its slot, in no particular order.      *)
(***************************************************************************)
EXTENDS Naturals, FiniteSets

CONSTANTS MaxSessions,    (* bound on the owners claimed                   *)
          MaxGenerations, (* bound on the configurations of the target     *)
          MaxWaiting,     (* bound on the operations waiting for the queue *)
          MaxFaults,      (* bound on what goes wrong                      *)
          Faults          (* "hang": a killed helper does not exit;        *)
                          (* "update", "release": owner.json cannot be     *)
                          (*   updated or removed                          *)

ASSUME SessionBoundsOK ==
  /\ {MaxSessions, MaxWaiting, MaxFaults} \subseteq Nat
  /\ MaxGenerations \in Nat \ {0}
  /\ Faults \subseteq {"hang", "update", "release"}

VARIABLES
  up,         (* does the MCP process run?                                 *)
  generation, (* the generation of the target in the store                 *)
  opened,     (* owner tokens made so far                                  *)
  owner,      (* owner.json: its token and whether the helper's pid is in  *)
              (* it                                                        *)
  helper,     (* the helper processes                                      *)
  seen,       (* what the MCP process has been told of each helper's exit: *)
              (* nothing, the exit event, or the close event too           *)
  poisoned,   (* sessions that take no further request                     *)
  bound,      (* the generation each session was opened for                *)
  active,     (* MemorySessionManager.active, or 0                         *)
  timer,      (* the session the idle timer is armed for, or 0             *)
  fired,      (* idle callbacks that wait for the queue                    *)
  waiting,    (* operations that wait for the queue                        *)
  op,         (* the operation in the queue's slot                         *)
  closer,     (* session.close(), as called by the operation and by the    *)
              (* shutdown                                                  *)
  line,       (* the request each of the two awaits                        *)
  shut,       (* MemorySessionManager.dispose: "open", "closing" or "done" *)
  faults      (* what went wrong, and with which session                   *)

manager == <<active, timer>>
process == <<helper, seen, poisoned, bound>>
queued == <<fired, waiting>>
calls == <<closer, line>>
mcp == <<up, generation, opened>>
rest == <<mcp, shut, faults>>
vars == <<mcp, owner, process, manager, queued, op, calls, shut, faults>>

Sessions == 1 .. MaxSessions
Actors == {"op", "shut"}
Tools == {"memory", "direct", "configure"}
Commands == {"write", "reset", "resume"}

NoOwner == [token |-> 0, recorded |-> FALSE]
NoLine == [session |-> 0, kind |-> "none", reply |-> "none"]
NoCloser == [session |-> 0, at |-> "none", failed |-> FALSE]

(* The operation: its turn's position, the session it works on, what       *)
(* follows the session's close, its command; issued is what the command    *)
(* did to the target, reported what its result says.                       *)
NoOp == [tool |-> "none", at |-> "none", session |-> 0, next |-> "none",
         command |-> "none", issued |-> FALSE, reported |-> FALSE]

Request == [tool : Tools, generation : 1 .. MaxGenerations,
            required : 0 .. MaxSessions]

Hung(n) == <<"hang", n>> \in faults
Fault(kind, n) == /\ kind \in Faults
                  /\ Cardinality(faults) < MaxFaults
                  /\ faults' = faults \cup {<<kind, n>>}

Alive(n) == helper[n] \in {"gated", "activated", "connected"}

(* ownerRecordLive: the MCP process or the recorded helper runs.           *)
OwnerLive == /\ owner # NoOwner
             /\ \/ up
                \/ owner.recorded /\ Alive(owner.token)

IsAlive(n) == seen[n] = "running"
IsReusable(n) == IsAlive(n) /\ n \notin poisoned

(* From the claim to the activation, and after a close that is followed by *)
(* a claim, the code does not yield: no event reaches the MCP process.     *)
Yields ==
  up /\ op.at \notin {"claim", "claimed", "spawned", "recorded", "observed"}

Init == /\ up = TRUE /\ generation = 1 /\ opened = 0 /\ owner = NoOwner
        /\ helper = [n \in Sessions |-> "none"]
        /\ seen = [n \in Sessions |-> "running"]
        /\ poisoned = {}
        /\ bound = [n \in Sessions |-> 0]
        /\ active = 0 /\ timer = 0 /\ fired = {} /\ waiting = {}
        /\ op = NoOp
        /\ closer = [a \in Actors |-> NoCloser]
        /\ line = [a \in Actors |-> NoLine]
        /\ shut = "open" /\ faults = {}

-----------------------------------------------------------------------------
(* The owner record.                                                       *)
ReleaseOwner(n) ==
  IF owner.token # n THEN UNCHANGED <<owner, faults>>
  ELSE \/ owner' = NoOwner /\ UNCHANGED faults
       \/ Fault("release", n) /\ UNCHANGED owner

(* Variants of FinalizeExited: the session is not compared with the active *)
(* one; the timer stays armed; the owner is not given back.                *)
FinalizeAny(n) == active' = 0 /\ timer' = 0 /\ ReleaseOwner(n)

FinalizeArmed(n) ==
  IF active # n THEN UNCHANGED <<owner, manager, faults>>
  ELSE active' = 0 /\ ReleaseOwner(n) /\ UNCHANGED timer

FinalizeOwned(n) ==
  IF active # n THEN UNCHANGED <<owner, manager, faults>>
  ELSE active' = 0 /\ timer' = 0 /\ UNCHANGED <<owner, faults>>

(* finalizeExited: whoever comes first retires the active session.         *)
FinalizeExited(n) ==
  IF active # n THEN UNCHANGED <<owner, manager, faults>>
  ELSE active' = 0 /\ timer' = 0 /\ ReleaseOwner(n)

(* assertOwnerReleased, and a variant that takes it for granted.           *)
AssumedReleased(o) == TRUE
Released(o) == o = NoOwner

(* Variant: the timer is stopped, and not started again.                   *)
StopIdle(n) == timer' = 0
ScheduleIdle(n) == timer' = n

(* localOwnerForTarget: the token this process may close, or 0.            *)
LocalOwner(g) == IF active # 0 /\ bound[active] = g THEN active ELSE 0

-----------------------------------------------------------------------------
(* Requests.  A request is written to the pipe, the helper serves it, its  *)
(* reply is read; or it is rejected: it timed out, the pipe failed, the    *)
(* session was poisoned for another reason, or the helper has exited.      *)
Send(a, n, kind) ==
  line' = [line EXCEPT ![a] = [session |-> n, kind |-> kind, reply |-> "none"]]

Answered(a) == /\ line[a].reply # "none"
               /\ line' = [line EXCEPT ![a] = NoLine]

Rejected(a) == /\ line[a] # NoLine
               /\ line' = [line EXCEPT ![a] = NoLine]

PoisonUnlessClosed(n) == poisoned' = IF seen[n] = "closed" THEN poisoned
                                     ELSE poisoned \cup {n}

(* The helper: it connects after its activation, serves requests in the    *)
(* order they are written, and ends.  A command it refuses has not touched *)
(* the target, one that failed has, and its reply says so.                 *)
HelperConnects(n) ==
  /\ helper[n] = "activated"
  /\ helper' = [helper EXCEPT ![n] = "connected"]
  /\ UNCHANGED <<rest, owner, seen, poisoned, bound, manager, queued, op,
                 calls>>

Serve(a, reply) ==
  /\ line[a].reply = "none"
  /\ line[a] # NoLine
  /\ helper[line[a].session] = "connected"
  /\ line' = [line EXCEPT ![a].reply = reply]

HelperServes ==
  /\ \/ \E a \in Actors : /\ line[a].kind \in {"state", "close"}
                          /\ Serve(a, "ok")
                          /\ UNCHANGED op
     \/ /\ line["op"].kind \in Commands
        /\ \/ /\ \E reply \in {"ok", "failed"} : Serve("op", reply)
              /\ op' = [op EXCEPT !.issued = TRUE]
           \/ Serve("op", "refused") /\ UNCHANGED op
  /\ UNCHANGED <<rest, owner, process, manager, queued, closer>>

HelperExits(n) ==
  /\ Alive(n)
  /\ helper' = [helper EXCEPT ![n] = "dead"]
  /\ UNCHANGED <<rest, owner, seen, poisoned, bound, manager, queued, op,
                 calls>>

(* A helper that was told to end, or whose pipe was closed, ends unless it *)
(* hangs.                                                                  *)
EndedHelperExits(n) == /\ n \in poisoned \/ ~up
                       /\ ~Hung(n)
                       /\ HelperExits(n)

HelperHangs(n) ==
  /\ n \in poisoned /\ helper[n] = "connected"
  /\ Fault("hang", n)
  /\ UNCHANGED <<mcp, owner, process, manager, queued, op, calls, shut>>

(* The exit event sets exitCode; the close event, which follows when the   *)
(* pipes are drained, rejects what is pending and runs the listener.       *)
ExitEvent(n) ==
  /\ Yields
  /\ helper[n] = "dead" /\ seen[n] = "running"
  /\ seen' = [seen EXCEPT ![n] = "exited"]
  /\ UNCHANGED <<rest, owner, helper, poisoned, bound, manager, queued, op,
                 calls>>

CloseEvent(n) ==
  /\ Yields
  /\ seen[n] = "exited"
  /\ seen' = [seen EXCEPT ![n] = "closed"]
  /\ FinalizeExited(n)
  /\ UNCHANGED <<mcp, helper, poisoned, bound, queued, op, calls, shut>>

(* Output that is malformed, too long or answers no request.               *)
UnboundOutput(n) ==
  /\ Yields
  /\ helper[n] = "connected" /\ active = n /\ n \notin poisoned
  /\ poisoned' = poisoned \cup {n}
  /\ UNCHANGED <<rest, owner, helper, seen, bound, manager, queued, op, calls>>

-----------------------------------------------------------------------------
(* session.close(): a close request unless the session is poisoned, then   *)
(* the helper is killed and its exit awaited.  A failed close request is   *)
(* thrown even if the exit is confirmed.                                   *)
Calls(a, n, at, failed) ==
  closer' = [closer EXCEPT ![a] = [session |-> n, at |-> at, failed |-> failed]]

Await(a, n, failed) == Calls(a, n, "waiting", failed)

CloseSession(a, n) ==
  \/ /\ n \in poisoned
     /\ Await(a, n, FALSE)
     /\ UNCHANGED <<poisoned, line>>
  \/ /\ n \notin poisoned                       \* not usable, or replaced files
     /\ poisoned' = poisoned \cup {n}
     /\ Await(a, n, TRUE)
     /\ UNCHANGED line
  \/ /\ IsReusable(n)
     /\ Send(a, n, "close")
     /\ Calls(a, n, "asking", FALSE)
     /\ UNCHANGED poisoned

CloseAsked(a) ==
  /\ Yields
  /\ closer[a].at = "asking"
  /\ \/ Answered(a) /\ Await(a, closer[a].session, FALSE)
     \/ Rejected(a) /\ Await(a, closer[a].session, TRUE)
  /\ poisoned' = poisoned \cup {closer[a].session}
  /\ UNCHANGED <<rest, owner, helper, seen, bound, manager, queued, op>>

(* terminateAndWait returned: has the exit been confirmed?  Variant: a     *)
(* helper that was killed is taken for dead.                               *)
KillConfirmed(a) == closer[a].at = "waiting"
ExitConfirmed(a) == closer[a].at = "waiting" /\ ~IsAlive(closer[a].session)
ExitUnconfirmed(a) == /\ closer[a].at = "waiting"
                      /\ IsAlive(closer[a].session)
                      /\ Hung(closer[a].session)

Closed(a) == closer' = [closer EXCEPT ![a] = NoCloser]

-----------------------------------------------------------------------------
(* Operations: requests arrive, wait, and are refused or given their turn. *)
(* The local owner is read before the wait and required after it.          *)
Arrive(tool) ==
  /\ Yields
  /\ Cardinality(waiting) < MaxWaiting
  /\ tool = "configure" => generation < MaxGenerations
  /\ waiting' = waiting \cup {[tool |-> tool, generation |-> generation,
                               required |-> LocalOwner(generation)]}
  /\ UNCHANGED <<rest, owner, process, manager, fired, op, calls>>

Slot == Yields /\ op = NoOp

(* runExclusive's checks, requireCurrent, and probeFor's of its target.    *)
Admissible(w) ==
  /\ w.generation = generation
  /\ IF w.required = 0 THEN owner = NoOwner ELSE owner.token = w.required
  /\ w.tool = "memory" /\ active # 0 => bound[active] = generation

Refuse(w) ==
  /\ Slot /\ w \in waiting /\ ~Admissible(w)
  /\ waiting' = waiting \ {w}
  /\ UNCHANGED <<rest, owner, process, manager, fired, op, calls>>

Turn(w) == /\ Slot /\ w \in waiting /\ Admissible(w)
           /\ waiting' = waiting \ {w}
           /\ UNCHANGED <<rest, owner, helper, seen, bound, fired>>

At(at) == op.at = at
Goto(at) == op' = [op EXCEPT !.at = at]
Working(tool, at, n, next) ==
  op' = [NoOp EXCEPT !.tool = tool, !.at = at, !.session = n, !.next = next]
Continue(at, n, next) == Working(op.tool, at, n, next)

(* probeFor: the session is used again, replaced or opened.                *)
Reuse(w) ==
  /\ w.tool = "memory" /\ active # 0 /\ IsReusable(active)
  /\ Turn(w)
  /\ ScheduleIdle(active)
  /\ Working("memory", "ready", active, "none")
  /\ UNCHANGED <<poisoned, active, calls>>

Replace(w) ==
  /\ w.tool = "memory" /\ active # 0 /\ ~IsReusable(active)
  /\ opened < MaxSessions
  /\ Turn(w)
  /\ CloseSession("op", active)
  /\ timer' = 0
  /\ Working("memory", "closing", active, "claim")
  /\ UNCHANGED active

Open(w) ==
  /\ w.tool = "memory" /\ active = 0
  /\ opened < MaxSessions
  /\ Turn(w)
  /\ Working("memory", "claim", 0, "none")
  /\ UNCHANGED <<poisoned, manager, calls>>

ClaimOwner ==
  /\ up /\ At("claim")
  /\ IF OwnerLive
     THEN op' = NoOp /\ UNCHANGED <<opened, owner, bound>>
     ELSE /\ opened' = opened + 1
          /\ owner' = [token |-> opened + 1, recorded |-> FALSE]
          /\ bound' = [bound EXCEPT ![opened + 1] = generation]
          /\ op' = [op EXCEPT !.at = "claimed", !.session = opened + 1]
  /\ UNCHANGED <<up, generation, helper, seen, poisoned, manager, queued,
                 calls, shut, faults>>

(* No helper fits: the owner is given back, and the operation fails or     *)
(* falls back to a connection of its own.                                  *)
NoSession ==
  /\ up /\ At("claimed")
  /\ ReleaseOwner(op.session)
  /\ \/ op' = NoOp
     \/ owner' = NoOwner /\ Goto("using")
  /\ UNCHANGED <<mcp, process, manager, queued, calls, shut>>

(* Variant: the helper connects without waiting for its activation.        *)
SpawnUngated ==
  /\ up /\ At("claimed")
  /\ helper' = [helper EXCEPT ![op.session] = "activated"]
  /\ Goto("spawned")
  /\ UNCHANGED <<rest, owner, seen, poisoned, bound, manager, queued, calls>>

Spawn ==
  /\ up /\ At("claimed")
  /\ helper' = [helper EXCEPT ![op.session] = "gated"]
  /\ Goto("spawned")
  /\ UNCHANGED <<rest, owner, seen, poisoned, bound, manager, queued, calls>>

(* Startup failed: the helper is killed, and its exit awaited.             *)
AbortStartup(n) ==
  /\ poisoned' = poisoned \cup {n}
  /\ Await("op", n, TRUE)
  /\ Continue("closing", n, "abandon")

(* onStarted: the helper's pid is recorded before the helper is activated. *)
RecordHelper ==
  /\ up /\ At("spawned")
  /\ \/ /\ owner' = [owner EXCEPT !.recorded = TRUE]
        /\ Goto("recorded")
        /\ UNCHANGED <<poisoned, closer, faults>>
     \/ /\ Fault("update", op.session)
        /\ AbortStartup(op.session)
        /\ UNCHANGED owner
  /\ UNCHANGED <<mcp, helper, seen, bound, manager, queued, line, shut>>

Activate ==
  /\ up /\ At("recorded")
  /\ helper' = [helper EXCEPT ![op.session] =
                  IF @ = "gated" THEN "activated" ELSE @]
  /\ Goto("opening")
  /\ UNCHANGED <<rest, owner, seen, poisoned, bound, manager, queued, calls>>

StartupFails ==
  /\ Yields /\ At("opening")
  /\ AbortStartup(op.session)
  /\ UNCHANGED <<rest, owner, helper, seen, bound, manager, queued, line>>

(* The helper is ready: the owner record is marked active, the session     *)
(* becomes the active one.  If the record cannot be updated it is closed.  *)
Opened ==
  /\ Yields /\ At("opening")
  /\ helper[op.session] = "connected"
  /\ \/ /\ active' = op.session
        /\ ScheduleIdle(op.session)
        /\ Goto("ready")
        /\ UNCHANGED <<poisoned, calls, faults>>
     \/ /\ Fault("update", op.session)
        /\ CloseSession("op", op.session)
        /\ Continue("closing", op.session, "abandon")
        /\ UNCHANGED manager
  /\ UNCHANGED <<mcp, owner, helper, seen, bound, queued, shut>>

-----------------------------------------------------------------------------
(* Commands of a memory operation.  What the helper did to the target must *)
(* be in the command's result, whether it answers or not: a request that   *)
(* was handed to the pipe counts as issued.                                *)
Command(command) ==
  /\ Yields /\ At("ready")
  /\ \/ /\ IsReusable(op.session)
        /\ Send("op", op.session, command)
        /\ op' = [op EXCEPT !.at = "asking", !.command = command,
                            !.issued = FALSE, !.reported = FALSE]
        /\ UNCHANGED poisoned
     \/ /\ op' = [op EXCEPT !.at = "failing", !.command = command,
                            !.issued = FALSE, !.reported = FALSE]
        /\ poisoned' = IF IsAlive(op.session) THEN poisoned \cup {op.session}
                       ELSE poisoned
        /\ UNCHANGED line
  /\ UNCHANGED <<rest, owner, helper, seen, bound, manager, queued, closer>>

(* withDispatchFact: a pending request was handed to the pipe, and its      *)
(* rejection says so.  Variant: the rejection does not carry that fact.     *)
Undispatched == FALSE
Dispatched == TRUE

(* resetPersistentMemorySession: a reset that left the target halted is    *)
(* followed by a resume, whose failure alone is then reported.             *)
ResumeAfterReset ==
  /\ line["op"].kind = "reset" /\ line["op"].reply = "failed"
  /\ \/ /\ IsReusable(op.session)
        /\ Send("op", op.session, "resume")
        /\ op' = [op EXCEPT !.command = "resume"]
        /\ UNCHANGED poisoned
     \/ /\ Answered("op")
        /\ op' = [op EXCEPT !.at = "failing", !.command = "resume"]
        /\ poisoned' = IF IsAlive(op.session) THEN poisoned \cup {op.session}
                       ELSE poisoned

CommandEnds ==
  /\ Yields /\ At("asking")
  /\ \/ /\ line["op"].reply \in {"ok", "failed"} /\ Answered("op")
        /\ op' = [op EXCEPT !.at = IF line["op"].reply = "ok" THEN "ready"
                                   ELSE "failing",
                            !.reported = TRUE]
        /\ UNCHANGED poisoned
     \/ /\ line["op"].reply = "refused" /\ Answered("op")
        /\ op' = [op EXCEPT !.at = "failing",
                            !.reported = op.command = "resume"]
        /\ UNCHANGED poisoned
     \/ ResumeAfterReset
     \/ /\ Rejected("op")
        /\ PoisonUnlessClosed(op.session)
        /\ op' = [op EXCEPT !.at = "failing", !.reported = Dispatched]
  /\ UNCHANGED <<rest, owner, helper, seen, bound, manager, queued, closer>>

(* The operation has its answer, or has made its own use of the Probe.     *)
Finish ==
  /\ up /\ op.at \in {"ready", "using", "retired"}
  /\ op' = NoOp
  /\ generation' \in IF op.tool = "configure" /\ At("using")
                     THEN {generation, generation + 1} ELSE {generation}
  /\ UNCHANGED <<up, opened, owner, process, manager, queued, calls, shut,
                 faults>>

(* An operation that failed: retireIfUnusableForTarget, and some tools     *)
(* close a session that is still usable, to observe the target without it. *)
Retire ==
  /\ Yields /\ At("failing")
  /\ \/ /\ active = 0 /\ Released(owner)
        /\ Continue("retired", 0, "none")
        /\ UNCHANGED <<poisoned, timer, calls>>
     \/ /\ active # 0 => IsReusable(active)
        /\ active = 0 => ~Released(owner)
        /\ op' = NoOp
        /\ UNCHANGED <<poisoned, timer, calls>>
     \/ /\ active # 0 /\ ~IsReusable(active)
        /\ CloseSession("op", active)
        /\ timer' = 0
        /\ Continue("closing", active, "retired")
     \/ /\ active # 0 /\ IsReusable(active)
        /\ Send("op", active, "state")
        /\ Continue("observing", active, "using")
        /\ UNCHANGED <<poisoned, timer, closer>>
  /\ UNCHANGED <<rest, owner, helper, seen, bound, active, queued>>

-----------------------------------------------------------------------------
(* closeForTarget, before another use of the Probe or a configuration: the *)
(* target's state is observed, then the session is closed, if it is still  *)
(* the active one.                                                         *)
UseDirectly(w) ==
  /\ w.tool # "memory" /\ LocalOwner(generation) = 0
  /\ Turn(w)
  /\ Working(w.tool, "using", 0, "none")
  /\ UNCHANGED <<poisoned, manager, calls>>

CloseForTarget(w) ==
  /\ w.tool # "memory" /\ LocalOwner(generation) # 0
  /\ Turn(w)
  /\ IF IsReusable(active)
     THEN /\ Send("op", active, "state")
          /\ Working(w.tool, "observing", active, "using")
     ELSE Working(w.tool, "observed", active, "using") /\ UNCHANGED line
  /\ UNCHANGED <<poisoned, manager, closer>>

StateObserved ==
  /\ Yields /\ At("observing")
  /\ \/ Answered("op") /\ UNCHANGED poisoned
     \/ Rejected("op") /\ PoisonUnlessClosed(op.session)
  /\ Goto("observed")
  /\ UNCHANGED <<rest, owner, helper, seen, bound, manager, queued, closer>>

CloseObserved ==
  /\ up /\ At("observed")
  /\ IF active # op.session
     THEN Goto("using") /\ UNCHANGED <<poisoned, timer, calls>>
     ELSE /\ CloseSession("op", active)
          /\ timer' = 0
          /\ Goto("closing")
  /\ UNCHANGED <<rest, owner, helper, seen, bound, active, queued>>

(* The close that an operation awaits has ended.  An abandoned startup     *)
(* gives the owner back when the exit is confirmed, and keeps it if not;   *)
(* otherwise a failed close ends the operation, and a retired session must *)
(* have left no owner.                                                     *)
ClosedForOperation ==
  /\ Yields /\ At("closing") /\ ExitConfirmed("op")
  /\ CASE op.next = "abandon" ->
            /\ ReleaseOwner(op.session)
            /\ op' = NoOp
            /\ UNCHANGED manager
       [] op.next # "abandon" /\ closer["op"].failed ->
            /\ op' = NoOp
            /\ UNCHANGED <<owner, manager, faults>>
       [] OTHER ->
            /\ FinalizeExited(op.session)
            /\ IF op.next = "none" \/ (op.next = "retired" /\ ~Released(owner'))
               THEN op' = NoOp ELSE Goto(op.next)
  /\ Closed("op")
  /\ UNCHANGED <<mcp, process, queued, line, shut>>

NotClosedForOperation ==
  /\ Yields /\ At("closing") /\ ExitUnconfirmed("op")
  /\ Closed("op")
  /\ op' = NoOp
  /\ UNCHANGED <<rest, owner, process, manager, queued, line>>

(* The idle timer asks the queue for a turn to close the session.          *)
TimerFires ==
  /\ Yields /\ timer # 0
  /\ fired' = fired \cup {timer}
  /\ timer' = 0
  /\ UNCHANGED <<rest, owner, process, active, waiting, op, calls>>

IdleTurn(n) ==
  /\ Slot /\ n \in fired
  /\ fired' = fired \ {n}
  /\ IF active = n
     THEN /\ CloseSession("op", n)
          /\ timer' = 0
          /\ Working("idle", "closing", n, "none")
     ELSE UNCHANGED <<poisoned, timer, op, calls>>
  /\ UNCHANGED <<rest, owner, helper, seen, bound, active, waiting>>

-----------------------------------------------------------------------------
(* dispose closes the session beside the queue; then the process exits.    *)
Dispose ==
  /\ Yields /\ shut = "open"
  /\ IF active = 0
     THEN shut' = "done" /\ UNCHANGED <<poisoned, timer, calls>>
     ELSE /\ shut' = "closing"
          /\ CloseSession("shut", active)
          /\ timer' = 0
  /\ UNCHANGED <<mcp, owner, helper, seen, bound, active, queued, op, faults>>

Disposed ==
  /\ Yields /\ shut = "closing"
  /\ \/ /\ ExitConfirmed("shut")
        /\ IF closer["shut"].failed THEN UNCHANGED <<owner, manager, faults>>
           ELSE FinalizeExited(closer["shut"].session)
     \/ ExitUnconfirmed("shut") /\ UNCHANGED <<owner, manager, faults>>
  /\ shut' = "done"
  /\ Closed("shut")
  /\ UNCHANGED <<mcp, process, queued, op, line>>

(* The MCP process ends, by itself or not: a helper that waits for its     *)
(* activation will not get it.                                             *)
Exit ==
  /\ up
  /\ up' = FALSE
  /\ active' = 0 /\ timer' = 0 /\ fired' = {} /\ waiting' = {}
  /\ op' = IF op.tool = "foreign" THEN op ELSE NoOp
  /\ closer' = [a \in Actors |-> NoCloser]
  /\ line' = [a \in Actors |-> NoLine]
  /\ seen' = [n \in Sessions |-> "running"] /\ poisoned' = {}
  /\ bound' = [n \in Sessions |-> 0] /\ shut' = "done"
  /\ UNCHANGED <<generation, opened, owner, helper, faults>>

(* Another MCP process uses the Probe, having removed an owner record that *)
(* is not live.                                                            *)
ForeignUse ==
  /\ op = NoOp /\ ~OwnerLive
  /\ owner' = NoOwner
  /\ op' = [NoOp EXCEPT !.tool = "foreign", !.at = "using"]
  /\ UNCHANGED <<rest, process, manager, queued, calls>>

ForeignEnds ==
  /\ op.tool = "foreign"
  /\ op' = NoOp
  /\ UNCHANGED <<rest, owner, process, manager, queued, calls>>

-----------------------------------------------------------------------------
Operation == \/ ClaimOwner \/ NoSession \/ Spawn \/ RecordHelper \/ Activate
             \/ StartupFails \/ Opened \/ CommandEnds \/ Finish \/ Retire
             \/ StateObserved \/ CloseObserved \/ ClosedForOperation
             \/ NotClosedForOperation \/ ForeignEnds

Next == \/ \E n \in Sessions : \/ HelperConnects(n) \/ HelperExits(n)
                                \/ HelperHangs(n)
        \/ \E n \in Sessions : ExitEvent(n) \/ CloseEvent(n) \/ UnboundOutput(n)
        \/ \E n \in Sessions : IdleTurn(n)
        \/ HelperServes
        \/ \E a \in Actors : CloseAsked(a)
        \/ \E tool \in Tools : Arrive(tool)
        \/ \E w \in waiting : \/ Refuse(w) \/ Reuse(w) \/ Replace(w) \/ Open(w)
                             \/ UseDirectly(w) \/ CloseForTarget(w)
        \/ \E command \in {"write", "reset"} : Command(command)
        \/ Operation \/ TimerFires \/ Dispose \/ Disposed \/ Exit \/ ForeignUse

Spec == Init /\ [][Next]_vars

(* The helper and the MCP process keep running: a helper that was killed,  *)
(* and does not hang, exits, events are delivered, requests end at their   *)
(* time-out at the latest, the idle timer fires.  A turn asked for in a    *)
(* queue of tickets comes although others are served.                      *)
Fairness ==
  /\ \A n \in Sessions : /\ WF_vars(EndedHelperExits(n))
                         /\ WF_vars(ExitEvent(n))
                         /\ WF_vars(CloseEvent(n))
                         /\ SF_vars(IdleTurn(n))
  /\ \A a \in Actors : WF_vars(CloseAsked(a))
  /\ WF_vars(Operation)
  /\ WF_vars(TimerFires)
  /\ WF_vars(Disposed)

FairSpec == Spec /\ Fairness

-----------------------------------------------------------------------------
TypeOK ==
  /\ up \in BOOLEAN /\ generation \in 1 .. MaxGenerations
  /\ opened \in 0 .. MaxSessions
  /\ owner \in [token : 0 .. MaxSessions, recorded : BOOLEAN]
  /\ helper \in
       [Sessions -> {"none", "gated", "activated", "connected", "dead"}]
  /\ seen \in [Sessions -> {"running", "exited", "closed"}]
  /\ poisoned \subseteq Sessions
  /\ bound \in [Sessions -> 0 .. MaxGenerations]
  /\ active \in 0 .. MaxSessions /\ timer \in {0, active}
  /\ fired \subseteq Sessions /\ waiting \subseteq Request
  /\ op \in [tool : Tools \cup {"none", "idle", "foreign"},
             at : {"none", "claim", "claimed", "spawned", "recorded", "opening",
                   "ready", "asking", "failing", "observing", "observed",
                   "closing", "using", "retired"},
             session : 0 .. MaxSessions,
             next : {"none", "claim", "abandon", "using", "retired"},
             command : Commands \cup {"none"},
             issued : BOOLEAN, reported : BOOLEAN]
  /\ closer \in [Actors -> [session : 0 .. MaxSessions,
                            at : {"none", "asking", "waiting"},
                            failed : BOOLEAN]]
  /\ line \in [Actors -> [session : 0 .. MaxSessions,
                          kind : Commands \cup {"none", "state", "close"},
                          reply : {"none", "ok", "failed", "refused"}]]
  /\ shut \in {"open", "closing", "done"}
  /\ faults \subseteq Faults \X Sessions

(* While a helper may reach the Probe, the owner record holds its pid: the *)
(* record outlives the MCP process as long as the helper does (claim,      *)
(* onStarted, activation, release after a confirmed exit).                 *)
OwnerCoversHelper ==
  \A n \in Sessions :
    helper[n] \in {"activated", "connected"}
      => owner = [token |-> n, recorded |-> TRUE]

(* Nobody else uses the Probe while a helper is connected to it, or about  *)
(* to be: neither this process's own direct connections nor another        *)
(* process.                                                                *)
NoInterleaving ==
  At("using") => \A n \in Sessions : helper[n] \notin {"activated", "connected"}

(* The manager does not lose sight of a helper: one that runs is the       *)
(* active session, or is being started or ended, or does not end.          *)
NoLostHelper ==
  \A n \in Sessions :
    up /\ Alive(n) => \/ active = n
                      \/ op.session = n /\ op.at # "using"
                      \/ Hung(n)

(* retireIfUnusableForTarget reports a session retired only when nobody    *)
(* will find its owner record: a test has it that it "never reports        *)
(* success while a stale memory owner remains".                            *)
RetiredMeansReleased == At("retired") => owner = NoOwner

(* The owner record stands exactly as long as it must.                     *)
HelperCovered == TypeOK /\ OwnerCoversHelper /\ RetiredMeansReleased

(* What a command did to the target is in its result, whatever became of   *)
(* its reply, except when a reset is followed by a resume.                 *)
WriteReported ==
  op.at \in {"ready", "failing"} /\ op.issued
    => op.reported \/ op.command = "resume"

(* The same of every command.                                              *)
CommandReported ==
  op.at \in {"ready", "failing"} /\ op.issued => op.reported

(* An idle session is closed, unless an operation uses it again, by the    *)
(* timer or by whoever comes first; only a helper that does not die stays. *)
IdleSessionCloses ==
  \A n \in Sessions :
    active = n ~> active # n \/ op.tool = "memory" \/ Hung(n)

(* The Probe is given back when its helper is dead, whichever way it died, *)
(* unless the record could not be removed or its death was not in time.    *)
OwnerGivenBack ==
  \A n \in Sessions :
    owner.token = n /\ helper[n] = "dead"
      ~> \/ owner.token # n \/ ~up
         \/ Hung(n) \/ <<"release", n>> \in faults
=============================================================================
