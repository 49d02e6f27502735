----------------------------- MODULE GdbSession -----------------------------
(***************************************************************************)
(* The GDB session of one target: the runtime record SessionOperations     *)
(* keeps beside a GDB Server process, a GDB client process and the probe's *)
(* owner record in the queue.  Operations run one at a time (the queue     *)
(* sees to that), but each awaits the client or the server several times,  *)
(* and at each await either process may exit, the target may stop, the     *)
(* handler of an earlier exit may run on, and the MCP server may shut      *)
(* down.                                                                   *)
(*                                                                         *)
(* Beside the program's state the module keeps what really happened: which *)
(* breakpoints reached the server (planted), whether the server may patch  *)
(* flash for them (flashOff), and how far a managed breakpoint got (story).*)
(***************************************************************************)
EXTENDS Naturals, FiniteSets

CONSTANTS MaxServers,   (* bound on the number of servers started            *)
          Faults        (* what may go wrong, beyond the processes' exits:   *)
                        (* "timeout": a command times out, and the client    *)
                        (*   is terminated for it;                           *)
                        (* "resume": the target, interrupted to insert a     *)
                        (*   breakpoint, does not resume;                    *)
                        (* "persist": an operation, or the exit handler,     *)
                        (*   cannot update the target store;                 *)
                        (* "shutdown": the MCP server is shut down           *)

ASSUME BoundsOK ==
  /\ MaxServers \in Nat
  /\ Faults \subseteq {"timeout", "resume", "persist", "shutdown"}

VARIABLES
  servers,   (* servers started so far; also the next owner token            *)
  server,    (* the server process: its number, or 0                         *)
  lastExit,  (* how the last server ended: "none", "clean", "failed" or      *)
             (* "killed"                                                     *)
  owner,     (* token of the owner record in the queue, or 0                 *)
  client,    (* is the GDB client connected?                                 *)
  seen,      (* the client's view of the target's execution state            *)
  reason,    (* the client's pending stop event: "none", "breakpoint", ...   *)
  mine,      (* has this client inserted breakpoints?                        *)
  rt,        (* the TargetRuntime record                                     *)
  op,        (* the operation in the queue's slot, with its locals           *)
  exits,     (* tokens whose exit handler awaits the target store            *)
  closing,   (* the shutdown: "open", "killing" or "closed"                  *)
  flashOff,  (* has the server been told not to use flash breakpoints?       *)
  planted,   (* may the server hold a breakpoint nobody saw removed?         *)
  story,     (* progress of a managed breakpoint: hit, deleted, list empty   *)
  lost       (* has the client gone without being disconnected: not since    *)
             (* its connection ("no"), by its own exit, or ended by us       *)

program == <<owner, rt, exits, closing>>
process == <<servers, server, lastExit>>
gdb == <<client, seen, reason, mine>>
facts == <<flashOff, planted, story, lost>>
vars == <<program, process, gdb, facts, op>>

State == {"running", "halted", "unknown"}
Modes == {"plain", "retain", "restore"}
Kinds == {"insert", "continue", "interrupt", "raw"}
Stories == {"none", "hit", "deleted", "empty"}

(* Evidence is bound to a server process and an owner token.               *)
Bound == [server : 0 .. MaxServers, token : 0 .. MaxServers]
NoBound == [server |-> 0, token |-> 0]
Current == [server |-> server, token |-> rt.token]

(* gdbManagedBreakpointLifecycle; known is FALSE when it is undefined.     *)
Lifecycle == [known : BOOLEAN, hit : BOOLEAN, deleted : BOOLEAN, empty : BOOLEAN]
NoLife == [known |-> FALSE, hit |-> FALSE, deleted |-> FALSE, empty |-> FALSE]
Armed == [NoLife EXCEPT !.known = TRUE]
Complete(life) == life.known /\ life.hit /\ life.deleted /\ life.empty

(* gdb* fields of TargetRuntime.                                           *)
Runtime == [token : 0 .. MaxServers, stopping : BOOLEAN, state : State,
            boundary : Bound, available : BOOLEAN, exited : BOOLEAN,
            natural : BOOLEAN, life : Lifecycle,
            phase : {"none", "inserted", "awaiting"},
            cleanup : BOOLEAN, cleaned : BOOLEAN, prevention : Bound,
            expectation : BOOLEAN]

(* Variant of NewRuntime: the evidence of an earlier cleanup is forgotten.  *)
StaleRuntime(token, s) ==
  [token |-> token, stopping |-> FALSE, state |-> "unknown",
   boundary |-> [server |-> s, token |-> token], available |-> TRUE,
   exited |-> FALSE, natural |-> FALSE, life |-> NoLife, phase |-> "none",
   cleanup |-> FALSE, prevention |-> NoBound, expectation |-> TRUE]

NewRuntime(token, s) ==
  [token |-> token, stopping |-> FALSE, state |-> "unknown",
   boundary |-> [server |-> s, token |-> token], available |-> TRUE,
   exited |-> FALSE, natural |-> FALSE, life |-> NoLife, phase |-> "none",
   cleanup |-> FALSE, cleaned |-> FALSE, prevention |-> NoBound,
   expectation |-> TRUE]

NoRuntime == [NewRuntime(0, 0) EXCEPT !.available = FALSE, !.expectation = FALSE]

Idle == [tool |-> "none", at |-> "none"]
Free == op = Idle /\ closing # "closed"
At(tool, at) == op.tool = tool /\ op.at = at /\ closing # "closed"
Goto(at) == op' = [op EXCEPT !.at = at]
Finish == op' = Idle

Init == /\ servers = 0 /\ server = 0 /\ lastExit = "none"
        /\ owner = 0 /\ rt = NoRuntime
        /\ client = FALSE /\ seen = "unknown" /\ reason = "none" /\ mine = FALSE
        /\ op = Idle /\ exits = {} /\ closing = "open"
        /\ flashOff = FALSE /\ planted = FALSE
        /\ story = "none" /\ lost = "no"

-----------------------------------------------------------------------------
(* A command forgets the pending stop event when it is dispatched.         *)
Dispatched == reason' = "none" /\ UNCHANGED <<client, seen, mine>>

(* What awaiting its end does to the client.  It answers, the target being *)
(* in state s afterwards, and an event that came before the command went   *)
(* out is forgotten; or it is gone: it exited, or the command timed out    *)
(* and terminateGdbProcess ended it, which nobody is told of.              *)
Answers(s) == /\ client
              /\ seen' = s
              /\ reason' \in IF s = seen THEN {reason, "none"}
                            ELSE IF s = "halted" THEN {"other"} ELSE {"none"}
              /\ UNCHANGED <<client, mine, lost>>

(* To a command that does not resume the target, which stays as it is or   *)
(* is lost sight of.                                                       *)
AnswersQuietly == Answers(seen) \/ Answers("unknown")

Gone == /\ client => "timeout" \in Faults
        /\ client' = FALSE
        /\ seen' = "unknown"
        /\ reason' = "none"
        /\ mine' = FALSE
        /\ lost' = IF client THEN "ended" ELSE lost

Disconnected == /\ client' = FALSE
                /\ seen' = "unknown"
                /\ reason' = "none"
                /\ mine' = FALSE

(* The server is terminated and waited for.                                *)
KillServer == /\ server' = 0
              /\ lastExit' = IF server = 0 THEN lastExit ELSE "killed"
              /\ flashOff' = FALSE
              /\ planted' = FALSE

-----------------------------------------------------------------------------
(* gdb_server_start: no owner, target observed running.  A server that is  *)
(* already there would be taken over.                                      *)
StartServer ==
  /\ Free
  /\ owner = 0
  /\ servers < MaxServers
  /\ servers' = servers + 1
  /\ server' = IF server = 0 THEN servers' ELSE server
  /\ lastExit' = IF server = 0 THEN "none" ELSE lastExit
  /\ op' = [tool |-> "start", at |-> "publish"]
  /\ UNCHANGED <<program, gdb, facts>>

(* The server is ready and the owner claimed, or it is stopped again: it   *)
(* has exited, shows no pid, or the claim fails.                           *)
Publish ==
  /\ At("start", "publish")
  /\ \/ /\ server # 0
        /\ owner' = servers
        /\ rt' = [NewRuntime(servers, server) EXCEPT !.stopping = rt.stopping]
        /\ lost' = "no"
        /\ UNCHANGED <<server, lastExit, flashOff, planted>>
     \/ KillServer /\ UNCHANGED <<owner, rt, lost>>
  /\ Finish
  /\ UNCHANGED <<servers, gdb, exits, closing, story>>

-----------------------------------------------------------------------------
(* Processes exit, and targets stop, when they please.                     *)
Unproven(r) == [r EXCEPT !.state = "unknown", !.available = FALSE,
                         !.expectation = FALSE, !.life = NoLife,
                         !.phase = "none", !.prevention = NoBound]

(* Variant of ClientLost: the exit is not remembered.                      *)
ClientForgotten(r) == Unproven(r)

(* trackedRuntimeFor's listener.                                           *)
ClientLost(r) == [Unproven(r) EXCEPT !.exited = TRUE]

ClientExit ==
  /\ client
  /\ closing # "closed"
  /\ Disconnected
  /\ rt' = ClientLost(rt)
  /\ story' = "none"
  /\ lost' = "exited"
  /\ UNCHANGED <<process, owner, exits, closing, op, flashOff, planted>>

(* The handler gdb_server_start subscribed: silent while a stop is under   *)
(* way, otherwise evidence is dropped at once and the rest is asynchronous.*)
ServerLost(r) == [Unproven(r) EXCEPT !.boundary = NoBound, !.natural = FALSE]

ServerExit ==
  /\ server # 0
  /\ server' = 0
  /\ lastExit' \in {"clean", "failed"}
  /\ flashOff' = FALSE
  /\ planted' = FALSE
  /\ story' = "none"
  /\ IF closing # "closed" /\ rt.token # 0 /\ ~rt.stopping
       THEN rt' = ServerLost(rt) /\ exits' = exits \cup {rt.token}
       ELSE UNCHANGED <<rt, exits>>
  /\ UNCHANGED <<servers, owner, closing, gdb, op, lost>>

(* Variant of ReleasedBy: whoever asks releases whatever owner there is.   *)
ReleasedByAny(token) == 0

(* releaseOwner removes the record only if it bears the token.             *)
ReleasedBy(token) == IF owner = token THEN 0 ELSE owner

(* The handler's asynchronous rest: memory is marked as no longer trusted; *)
(* if that cannot be persisted the owner record stays, as a gate.          *)
ExitHandled ==
  /\ closing # "closed"
  /\ \E token \in exits :
       /\ exits' = exits \ {token}
       /\ \/ /\ owner' = ReleasedBy(token)
             /\ rt' = [rt EXCEPT !.token = IF @ = token THEN 0 ELSE @]
          \/ "persist" \in Faults /\ UNCHANGED <<owner, rt>>
  /\ UNCHANGED <<closing, process, gdb, op, facts>>

(* The running target stops: at the managed breakpoint or otherwise.       *)
TargetStops ==
  /\ client
  /\ seen = "running"
  /\ seen' = "halted"
  /\ reason' \in {"other"} \cup (IF mine THEN {"breakpoint"} ELSE {})
  /\ story' = IF reason' = "breakpoint" THEN "hit" ELSE "none"
  /\ UNCHANGED <<client, mine, program, process, op, flashOff, planted, lost>>

-----------------------------------------------------------------------------
(* gdb_server_stop.                                                        *)
ExecutionState == IF client THEN seen ELSE rt.state

Recovering == ~client /\ rt.state = "unknown" /\ rt.exited

BoundaryMatches == rt.boundary # NoBound /\ rt.boundary.token = rt.token

NaturalExit == rt.natural \/ client \/ rt.exited

(* What the target is expected to be doing before the close, if anything.  *)
ExpectedBefore ==
  IF ExecutionState # "unknown" THEN ExecutionState
  ELSE IF ~Recovering /\ rt.expectation /\ BoundaryMatches THEN "running"
  ELSE "unknown"

(* The close may resume the target, which halted at a managed breakpoint.  *)
ResumeExpected == /\ NaturalExit
                  /\ ExecutionState = "halted"
                  /\ BoundaryMatches
                  /\ Complete(rt.life)

CleanupPending == rt.cleanup /\ ~rt.cleaned

StopRefused == \/ ExpectedBefore = "unknown" /\ ~Recovering
               \/ CleanupPending /\ (~client \/ ExecutionState # "halted")

StopServer ==
  /\ Free
  /\ owner # 0
  /\ rt.token = owner
  /\ rt' = [rt EXCEPT !.natural = NaturalExit,
                      !.stopping = IF StopRefused THEN @ ELSE TRUE]
  /\ op' = IF StopRefused THEN Idle
           ELSE [tool |-> "stop",
                 at |-> IF CleanupPending THEN "clear" ELSE "disconnect",
                 wait |-> NaturalExit, resume |-> ResumeExpected]
  /\ IF op'.tool = "stop" /\ CleanupPending THEN Dispatched ELSE UNCHANGED gdb
  /\ UNCHANGED <<owner, exits, closing, process, facts>>

(* Removing every breakpoint: confirmed, or not.                           *)
Cleared == /\ server # 0
           /\ seen = "halted"
           /\ Answers("halted")
           /\ planted' = FALSE

NotCleared == /\ Gone \/ AnswersQuietly
              /\ planted' \in {planted, FALSE}

StopClear ==
  /\ At("stop", "clear")
  /\ \/ /\ Cleared
        /\ rt' = [rt EXCEPT !.state = "halted", !.cleaned = TRUE]
        /\ Goto("disconnect")
     \/ /\ NotCleared
        /\ \E s \in {seen', "unknown"} :
             rt' = [rt EXCEPT !.state = s, !.stopping = FALSE]
        /\ Finish
  /\ story' = IF seen' = "halted" THEN story ELSE "none"
  /\ UNCHANGED <<owner, exits, closing, process, flashOff>>

StopDisconnect ==
  /\ At("stop", "disconnect")
  /\ Disconnected
  /\ Goto(IF op.wait THEN "await" ELSE "kill")
  /\ UNCHANGED <<program, process, facts>>

(* A server that had a client is given the time to end by itself; it must  *)
(* end, and end cleanly.                                                   *)
StopAwait ==
  /\ At("stop", "await")
  /\ IF server = 0 /\ lastExit = "clean"
       THEN Goto("kill") /\ UNCHANGED rt
       ELSE Finish /\ rt' = [rt EXCEPT !.stopping = FALSE]
  /\ UNCHANGED <<owner, exits, closing, process, gdb, facts>>

Released(r) == [NoRuntime EXCEPT !.state = r.state, !.stopping = r.stopping]

StopKill ==
  /\ At("stop", "kill")
  /\ \/ /\ KillServer
        /\ rt' = Released(rt)
        /\ owner' = IF rt.token # 0 THEN ReleasedBy(rt.token) ELSE owner
        /\ Goto("observe")
     \/ /\ UNCHANGED <<server, lastExit, flashOff, planted, owner>>
        /\ rt' = [rt EXCEPT !.stopping = FALSE]
        /\ Finish
  /\ UNCHANGED <<servers, exits, closing, gdb, story, lost>>

StopObserve ==
  /\ At("stop", "observe")
  /\ \E s \in State : rt' = [rt EXCEPT !.state = s, !.stopping = FALSE]
  /\ Finish
  /\ UNCHANGED <<owner, exits, closing, process, gdb, facts>>

-----------------------------------------------------------------------------
(* gdb_connect.  The target must be expected to run: by the last state the *)
(* session saw, or by the observation made before the server started.      *)
AttachBoundary == /\ rt.available
                  /\ rt.boundary # NoBound
                  /\ rt.boundary = Current
                  /\ server # 0

Connect ==
  /\ Free
  /\ owner # 0
  /\ rt.state = "running" \/ AttachBoundary
  /\ rt' = [rt EXCEPT !.available = FALSE, !.exited = FALSE]
  /\ \E mode \in Modes : op' = [tool |-> "connect", at |-> "attach", mode |-> mode]
  /\ UNCHANGED <<owner, exits, closing, process, gdb, facts>>

(* The client is there, the target in state s: a new connection, or the    *)
(* one there was.                                                          *)
Attached(s) == \/ client /\ Answers(s) /\ s = seen
               \/ /\ ~client
                  /\ server # 0
                  /\ client' = TRUE
                  /\ seen' = s
                  /\ reason' \in (IF s = "halted" THEN {"other", "none"} ELSE {"none"})
                  /\ mine' = FALSE
                  /\ lost' = "no"

ConnectFails ==
  /\ At("connect", "attach")
  /\ Gone \/ Answers(seen)        (* symbols not loaded: the client stays *)
  /\ rt' = [rt EXCEPT !.state = seen']
  /\ story' = IF client' THEN story ELSE "none"
  /\ Finish
  /\ UNCHANGED <<owner, exits, closing, process, flashOff, planted>>

(* Before the command to disable flash breakpoints is dispatched, the old  *)
(* evidence goes.                                                          *)
ConnectAttached ==
  /\ At("connect", "attach")
  /\ \E s \in State :
       /\ Attached(s)
       /\ LET proceed == \/ s = "running"
                         \/ s = "halted" /\ op.mode # "plain"
          IN \/ /\ proceed
                /\ reason' = "none"
                /\ rt' = [rt EXCEPT !.state = s, !.expectation = FALSE,
                                    !.prevention = NoBound]
                /\ op' = [op EXCEPT !.at = "prevent"]
             \/ /\ s # "running"    (* a fault, or a halt nobody asked for  *)
                /\ rt' = [rt EXCEPT !.state = s, !.expectation = FALSE]
                /\ Finish
  /\ UNCHANGED <<owner, exits, closing, process, flashOff, planted, story>>

(* The artifact changed while its symbols were loaded: a client of a       *)
(* running target is disconnected again, any other one is kept.            *)
ConnectStale ==
  /\ At("connect", "attach")
  /\ client \/ server # 0
  /\ rt' = [rt EXCEPT !.state = "running", !.expectation = FALSE]
  /\ client => seen = "running"
  /\ Disconnected
  /\ story' = "none"
  /\ lost' = "no"
  /\ Finish
  /\ UNCHANGED <<owner, exits, closing, process, flashOff, planted>>

(* disableGdbFlashBreakpoints: evidence only when the answer, the state    *)
(* and the identity of server and owner all fit.                           *)
Prevent ==
  /\ At("connect", "prevent")
  /\ \/ /\ Answers(rt.state)
        /\ seen = rt.state
        /\ server # 0 /\ rt.token # 0
        /\ flashOff' = TRUE
        /\ rt' = [rt EXCEPT !.prevention = Current]
        /\ IF op.mode = "restore" /\ seen = "halted" THEN Goto("resume") ELSE Finish
     \/ /\ Gone \/ AnswersQuietly
        /\ flashOff' \in {flashOff, server # 0}
        /\ rt' = [rt EXCEPT !.state = seen']
        /\ Finish
  /\ story' = IF seen' = seen THEN story ELSE "none"
  /\ UNCHANGED <<owner, exits, closing, process, planted>>

Resume ==
  /\ At("connect", "resume") \/ At("abort", "resume")
  /\ Gone \/ \E s \in State : Answers(s)
  /\ rt' = IF seen' = "running" /\ op.tool = "abort"
             THEN [rt EXCEPT !.state = "running", !.life = NoLife, !.phase = "none"]
             ELSE [rt EXCEPT !.state = seen']
  /\ story' = IF seen' = seen THEN story ELSE "none"
  /\ Finish
  /\ UNCHANGED <<owner, exits, closing, process, flashOff, planted>>

-----------------------------------------------------------------------------
(* gdb_command.  Insertions need evidence that this very server does not   *)
(* use flash breakpoints; a raw command, which may change that, ends the   *)
(* evidence before it is sent.                                             *)
Confirmed == server # 0 /\ rt.prevention # NoBound /\ rt.prevention = Current

(* Variant of KeepsPrevention: evidence survives a raw command.            *)
AlwaysKeepsPrevention(kind) == kind \in Kinds

KeepsPrevention(kind) == kind \in {"insert", "interrupt"}
KeepsPhase(kind) == kind \in {"insert", "continue"}

Command ==
  /\ Free
  /\ owner # 0
  /\ client
  /\ \E kind \in Kinds :
       /\ kind = "insert" => Confirmed
       /\ IF kind = "interrupt" /\ seen = "running" THEN UNCHANGED gdb ELSE Dispatched
       /\ rt' = [rt EXCEPT
                   !.prevention = IF KeepsPrevention(kind) THEN @ ELSE NoBound,
                   !.phase = IF KeepsPhase(kind) THEN @ ELSE "none"]
       /\ op' = [tool |-> "command", at |-> "send", kind |-> kind,
                 before |-> seen, phase |-> rt.phase]
  /\ UNCHANGED <<owner, exits, closing, process, facts>>

(* The command reaches the server.  A raw one may do anything, and insert  *)
(* breakpoints too, which planted does not count.                          *)
Send ==
  /\ At("command", "send")
  /\ client /\ server # 0
  /\ IF op.kind = "insert"
       THEN planted' = TRUE /\ mine' = TRUE /\ UNCHANGED flashOff
     ELSE IF op.kind = "raw"
       THEN flashOff' \in BOOLEAN /\ mine' \in BOOLEAN /\ UNCHANGED planted
     ELSE UNCHANGED <<planted, mine, flashOff>>
  /\ Goto("reply")
  /\ UNCHANGED <<program, process, client, seen, reason, story, lost>>

(* Variant of AfterInsertion: an earlier cleanup still counts.             *)
AfterInsertionOnly(r) == [r EXCEPT !.cleanup = TRUE]

AfterInsertion(r) == [r EXCEPT !.cleanup = TRUE, !.cleaned = FALSE]

(* insertBreakpointWhileRunning halts the target for the insertion; when   *)
(* it cannot resume it, its answer leaves commandDispatched out.           *)
NotResumed == /\ "resume" \in Faults
              /\ op.kind = "insert" /\ op.before = "running" /\ seen' # "running"

(* The answer, or the end of the client; sent is commandDispatched.        *)
Reply ==
  /\ At("command", "reply") \/ At("command", "send")
  /\ \E success \in BOOLEAN, resumed \in BOOLEAN :
       /\ success => op.at = "reply" /\ client
       /\ \/ ~success /\ Gone
          \/ \E s \in State : Answers(s)
       /\ seen = "halted" /\ seen' = "running" =>
            op.at = "reply" /\ op.kind \in {"continue", "raw"}
       /\ ~resumed => NotResumed /\ ~success
       /\ LET sent == op.at = "reply" /\ resumed
              r == IF op.kind = "insert" /\ sent THEN AfterInsertion(rt) ELSE rt
          IN /\ rt' = [r EXCEPT !.life = NoLife, !.state = seen',
                                !.expectation = FALSE]
             /\ op' = [tool |-> "command", at |-> "persist", kind |-> op.kind,
                       before |-> op.before, phase |-> op.phase,
                       sent |-> sent, success |-> success]
       /\ story' = IF op.kind = "raw" \/ seen' # seen THEN "none"
                   ELSE IF op.kind = "insert" /\ story # "none" THEN "hit"
                   ELSE story
  /\ UNCHANGED <<owner, exits, closing, process, flashOff, planted>>

(* The life cycle and the phase after an update that took its time: the    *)
(* state and the boundary are read again.                                  *)
AfterCommand(r) ==
  LET inserted == op.kind = "insert" /\ op.sent
      as(before, after) == op.before = before /\ r.state = after /\ BoundaryMatches
  IN IF inserted /\ as("running", "running")
       THEN [r EXCEPT !.life = Armed, !.phase = "none"]
     ELSE IF inserted /\ as("halted", "halted") THEN [r EXCEPT !.phase = "inserted"]
     ELSE IF inserted THEN [r EXCEPT !.phase = "none"]
     ELSE IF op.kind # "continue" THEN r
     ELSE [r EXCEPT !.phase = IF op.phase = "inserted" /\ op.sent
                                  /\ as("halted", "running")
                              THEN "awaiting" ELSE "none"]

CommandPersist ==
  /\ At("command", "persist")
  /\ \/ rt' = IF op.success THEN AfterCommand(rt) ELSE [rt EXCEPT !.phase = "none"]
     \/ "persist" \in Faults /\ UNCHANGED rt
  /\ Finish
  /\ UNCHANGED <<owner, exits, closing, process, gdb, facts>>

-----------------------------------------------------------------------------
(* gdb_breakpoint_list and gdb_backtrace: questions, which must leave the  *)
(* target as they found it.  An empty list counts for a managed breakpoint *)
(* once a deletion was sent.                                               *)
Ask ==
  /\ Free
  /\ owner # 0
  /\ client
  /\ \/ /\ seen # "unknown" /\ rt.state = seen
        /\ op' = [tool |-> "list", at |-> "reply", before |-> seen]
     \/ /\ seen = "halted"
        /\ op' = [tool |-> "backtrace", at |-> "reply", before |-> seen]
  /\ Dispatched
  /\ UNCHANGED <<program, process, facts>>

Listed(r, empty) ==
  IF r.life.deleted THEN [r EXCEPT !.life.empty = r.state = "halted" /\ empty]
  ELSE r

ToldList(empty) == IF story \in {"deleted", "empty"}
                  THEN (IF empty THEN "empty" ELSE "deleted") ELSE story

Asked ==
  /\ At("list", "reply") \/ At("backtrace", "reply")
  /\ \/ /\ op.tool = "list" /\ seen = op.before /\ Answers(seen)
        /\ \E empty \in BOOLEAN :
             /\ rt' = Listed([rt EXCEPT !.state = seen'], empty)
             /\ story' = ToldList(empty)
     \/ /\ Gone \/ AnswersQuietly
        /\ \E s \in {seen', "unknown"} :
             rt' = [rt EXCEPT !.state = IF op.tool = "list" THEN s ELSE seen']
        /\ story' = IF seen' = seen THEN story ELSE "none"
  /\ Finish
  /\ UNCHANGED <<owner, exits, closing, process, flashOff, planted>>

-----------------------------------------------------------------------------
(* gdb_breakpoint_delete, of a halted target.                              *)
Delete ==
  /\ Free
  /\ owner # 0
  /\ client
  /\ seen = "halted" /\ rt.state = "halted"
  /\ op' = [tool |-> "delete", at |-> "reply"]
  /\ Dispatched
  /\ UNCHANGED <<program, process, facts>>

DeleteReply ==
  /\ At("delete", "reply")
  /\ \E sent \in BOOLEAN, result \in {"failed", "unconfirmed", "confirmed"} :
       /\ IF result = "failed" THEN Gone \/ AnswersQuietly
          ELSE sent /\ seen = "halted" /\ Answers("halted")
       /\ op' = IF sent THEN [tool |-> "delete", at |-> "persist", result |-> result]
                ELSE Idle
  /\ rt' = [rt EXCEPT !.state = seen', !.expectation = FALSE]
  /\ story' = IF seen' = seen THEN story ELSE "none"
  /\ UNCHANGED <<owner, exits, closing, process, flashOff, planted>>

Deleted(r) == IF r.life.hit THEN [r EXCEPT !.life.deleted = TRUE, !.life.empty = FALSE]
              ELSE r

DeletePersist ==
  /\ At("delete", "persist")
  /\ \/ /\ rt' = CASE op.result = "confirmed" -> Deleted(rt)
                   [] op.result = "unconfirmed" -> [rt EXCEPT !.state = "unknown"]
                   [] OTHER -> rt
        /\ story' = IF op.result = "confirmed" /\ story \in {"hit", "deleted", "empty"}
                      THEN "deleted" ELSE story
     \/ "persist" \in Faults /\ UNCHANGED <<rt, story>>
  /\ Finish
  /\ UNCHANGED <<owner, exits, closing, process, gdb, flashOff, planted,
                 lost>>

-----------------------------------------------------------------------------
(* gdb_wait: consumes the client's stop event, and takes the life cycle of *)
(* a managed breakpoint further only if the target stopped at a breakpoint.*)
(* Variant of BreakpointStop: any stop will do.                            *)
AnyStop(event) == TRUE

BreakpointStop(event) == event = "breakpoint"

Ended(r, s) == [r EXCEPT !.state = s, !.life = NoLife, !.phase = "none"]

Wait ==
  /\ Free
  /\ owner # 0
  /\ client
  /\ CASE seen = "unknown" -> rt' = Ended(rt, rt.state) /\ UNCHANGED op
       [] seen = "halted" /\ ~rt.life.known /\ rt.phase # "awaiting" ->
            rt' = [rt EXCEPT !.state = "halted"] /\ UNCHANGED op
       [] OTHER ->
            /\ op' = [tool |-> "wait", at |-> "reply", phase |-> rt.phase]
            /\ UNCHANGED rt
  /\ UNCHANGED <<owner, exits, closing, process, gdb, facts>>

Stopped(r, event) ==
  LET stopped == [r EXCEPT !.state = "halted", !.phase = "none"]
  IN IF ~BreakpointStop(event) THEN Ended(r, "halted")
     ELSE IF r.life.known THEN [stopped EXCEPT !.life.hit = TRUE]
     ELSE IF op.phase = "awaiting" /\ BoundaryMatches
          THEN [stopped EXCEPT !.life = [Armed EXCEPT !.hit = TRUE]]
     ELSE Ended(r, "halted")

WaitReply ==
  /\ At("wait", "reply")
  /\ \/ /\ ~client \/ seen = "unknown"
        /\ rt' = Ended(rt, seen)
        /\ UNCHANGED reason
     \/ /\ seen = "halted"
        /\ rt' = Stopped(rt, reason)
        /\ reason' = "none"
     \/ /\ seen = "running"
        /\ rt' = [rt EXCEPT !.state = "running",
                            !.phase = IF op.phase = "awaiting" THEN @ ELSE "none"]
        /\ UNCHANGED reason
  /\ Finish
  /\ UNCHANGED <<owner, exits, closing, process, client, seen, mine, facts>>

-----------------------------------------------------------------------------
(* gdb_managed_breakpoint_abort: halt the target if it runs, remove every  *)
(* breakpoint, let it run again.                                           *)
Abort ==
  /\ Free
  /\ owner # 0
  /\ client
  /\ seen # "unknown"
  /\ rt.cleanup \/ rt.phase # "none" \/ rt.life.known
  /\ op' = [tool |-> "abort", at |-> IF seen = "running" THEN "interrupt" ELSE "clear",
            before |-> seen]
  /\ IF seen = "halted" THEN Dispatched ELSE UNCHANGED gdb
  /\ UNCHANGED <<program, process, facts>>

(* interruptRunningTarget: the target halts; or it had stopped before, did *)
(* not stop in time or for another reason, or the client is gone.          *)
Interrupted == Answers("halted")
InterruptFails == Gone \/ AnswersQuietly

AbortInterrupt ==
  /\ At("abort", "interrupt")
  /\ \/ Interrupted /\ Goto("clear")
     \/ InterruptFails /\ Finish
  /\ rt' = [rt EXCEPT !.state = seen']
  /\ story' = IF seen' = seen THEN story ELSE "none"
  /\ UNCHANGED <<owner, exits, closing, process, flashOff, planted>>

AbortClear ==
  /\ At("abort", "clear")
  /\ \/ /\ Cleared
        /\ LET cleaned == [rt EXCEPT !.state = "halted", !.cleaned = TRUE]
           IN IF op.before = "running" THEN Goto("resume") /\ rt' = cleaned
              ELSE Finish /\ rt' = Ended(cleaned, "halted")
     \/ NotCleared /\ Finish /\ rt' = [rt EXCEPT !.state = seen']
  /\ story' = IF seen' = seen THEN story ELSE "none"
  /\ UNCHANGED <<owner, exits, closing, process, flashOff>>

-----------------------------------------------------------------------------
(* McpServer.dispose, which does not go through the queue: if the target   *)
(* is known to run and no breakpoint is known to need cleaning up, the     *)
(* client is disconnected and the server killed.                           *)
CanSafelyDispose == server = 0 \/ (~CleanupPending /\ ExecutionState = "running")

ShutdownBegins ==
  /\ "shutdown" \in Faults
  /\ closing = "open"
  /\ CanSafelyDispose
  /\ rt' = [rt EXCEPT !.stopping = TRUE]
  /\ Disconnected
  /\ story' = "none"
  /\ closing' = "killing"
  /\ UNCHANGED <<owner, exits, process, op, flashOff, planted,
                 lost>>

ShutdownKills ==
  /\ closing = "killing"
  /\ KillServer
  /\ owner' = IF rt.token # 0 THEN ReleasedBy(rt.token) ELSE owner
  /\ rt' = [rt EXCEPT !.token = 0, !.stopping = FALSE]
  /\ closing' = "closed"
  /\ UNCHANGED <<servers, exits, gdb, op, story, lost>>

-----------------------------------------------------------------------------
Starting == StartServer \/ Publish
Stopping == StopServer \/ StopClear \/ StopDisconnect \/ StopAwait \/ StopKill
            \/ StopObserve
Connecting == Connect \/ ConnectFails \/ ConnectAttached \/ ConnectStale
              \/ Prevent \/ Resume
Commanding == Command \/ Send \/ Reply \/ CommandPersist
Managing == Ask \/ Asked \/ Delete \/ DeleteReply \/ DeletePersist \/ Wait
            \/ WaitReply \/ Abort \/ AbortInterrupt \/ AbortClear
Environment == ClientExit \/ ServerExit \/ ExitHandled \/ TargetStops
Disposing == ShutdownBegins \/ ShutdownKills

Next == Starting \/ Stopping \/ Connecting \/ Commanding \/ Managing
        \/ Environment \/ Disposing

Spec == Init /\ [][Next]_vars

-----------------------------------------------------------------------------
(* Every variable has its type.                                            *)
TypeOK ==
  /\ servers \in 0 .. MaxServers /\ server \in 0 .. servers
  /\ owner \in 0 .. servers
  /\ lastExit \in {"none", "clean", "failed", "killed"}
  /\ client \in BOOLEAN /\ seen \in State /\ mine \in BOOLEAN
  /\ reason \in {"none", "breakpoint", "other"}
  /\ rt \in Runtime
  /\ op.tool \in {"none", "start", "stop", "connect", "command", "list",
                  "backtrace", "delete", "wait", "abort"}
  /\ exits \subseteq 1 .. servers
  /\ closing \in {"open", "killing", "closed"}
  /\ flashOff \in BOOLEAN /\ planted \in BOOLEAN
  /\ story \in Stories /\ lost \in {"no", "exited", "ended"}

(* A breakpoint reaches a server only while that server has been told not  *)
(* to patch flash memory for breakpoints: the check made before the        *)
(* command is sent still holds when it is sent, whatever processes were    *)
(* restarted and commands sent in between.                                 *)
BreakpointsUnderPrevention ==
  [][op.tool = "command" /\ op.at = "send" /\ op.kind = "insert"
     /\ op'.at = "reply" => flashOff]_vars

(* A server that may still hold a breakpoint is never killed: only a       *)
(* server that ends by itself removes them.                                *)
Killed == server # 0 /\ server' = 0 /\ lastExit' = "killed"
NeverKilledWithBreakpoints == [][Killed => ~planted]_vars

(* ... at least by no operation, and not as long as no shutdown has begun. *)
OperationsKillNoBreakpoints == [][Killed /\ closing = "open" => ~planted]_vars

(* gdb_server_stop lets the client and the server go only when every       *)
(* breakpoint the session inserted is known to have been removed.          *)
StopLeavesNoBreakpoint ==
  op.tool = "stop" /\ op.at \in {"disconnect", "await", "kill"} => ~planted

(* A stop expects the server's end to resume a halted target only if the   *)
(* target really halted at a managed breakpoint which was then deleted     *)
(* and seen to be gone, and has not run since.                             *)
ManagedResumeJustified ==
  [][op = Idle /\ op'.tool = "stop" /\ op'.resume /\ server # 0
     => story = "empty"]_vars

(* While a server runs, other than during its start, the probe has an      *)
(* owner: a late exit handler never releases the owner of a newer server.  *)
OwnedWhileServerRuns == server # 0 /\ op.tool # "start" => owner # 0

(* A client that is gone without a disconnect leaves a session that can be *)
(* stopped, as long as no breakpoint waits to be cleaned up.               *)
CanBeStopped ==
  Free /\ owner # 0 /\ rt.token = owner /\ server # 0 /\ ~CleanupPending
    => ~StopRefused
LostClientRecoverable == lost # "no" => CanBeStopped

(* ... at least if the client went by itself, before any shutdown.         *)
ExitedClientRecoverable == lost = "exited" /\ closing = "open" => CanBeStopped

(* What holds of a session whatever events arrive late: its types, its     *)
(* owner, and that it can be ended when its client has gone.               *)
SessionSound == TypeOK /\ OwnedWhileServerRuns /\ ExitedClientRecoverable

(* What no step does with a breakpoint: plant it where it would be patched *)
(* into flash memory, or leave it there by killing its server.             *)
BreakpointSteps == BreakpointsUnderPrevention /\ OperationsKillNoBreakpoints
=============================================================================
