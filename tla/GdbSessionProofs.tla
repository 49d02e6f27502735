-------------------------- MODULE GdbSessionProofs --------------------------
(***************************************************************************)
(* The GDB session (GdbSession): it stays owned while its server runs, a   *)
(* stop leaves no breakpoint behind, and nothing is resumed or patched     *)
(* into flash memory on evidence that no longer holds.                     *)
(*                                                                         *)
(* An operation awaits the client or the server several times, so what the *)
(* proof carries are facts about the record, the processes and the place   *)
(* of the operation together: evidence names the server it was got from    *)
(* and server numbers only grow; a breakpoint that may be planted is       *)
(* marked for cleanup unless its insertion is still being awaited; what    *)
(* the life cycle of a managed breakpoint says happened to the target as   *)
(* long as that is seen halted.                                            *)
(***************************************************************************)
EXTENDS GdbSession, TLAPS

(* The operation and its locals, at each place.                            *)
IdleOps == [tool : {"none"}, at : {"none"}]
StartOps == [tool : {"start"}, at : {"publish"}]
StopOps == [tool : {"stop"}, at : {"clear", "disconnect", "await", "kill", "observe"},
            wait : BOOLEAN, resume : BOOLEAN]
ConnectOps == [tool : {"connect"}, at : {"attach", "prevent", "resume"}, mode : Modes]
Phases == {"none", "inserted", "awaiting"}
SendOps == [tool : {"command"}, at : {"send", "reply"}, kind : Kinds, before : State,
            phase : Phases]
SentOps == [tool : {"command"}, at : {"persist"}, kind : Kinds, before : State,
            phase : Phases, sent : BOOLEAN, success : BOOLEAN]
AskOps == [tool : {"list", "backtrace"}, at : {"reply"}, before : State]
DeleteOps == [tool : {"delete"}, at : {"reply"}]
DeletedOps == [tool : {"delete"}, at : {"persist"},
               result : {"failed", "unconfirmed", "confirmed"}]
WaitOps == [tool : {"wait"}, at : {"reply"}, phase : Phases]
AbortOps == [tool : {"abort"}, at : {"interrupt", "clear", "resume"},
             before : State \ {"unknown"}]
Ops == IdleOps \cup StartOps \cup StopOps \cup ConnectOps \cup SendOps \cup SentOps \cup AskOps
       \cup DeleteOps \cup DeletedOps \cup WaitOps \cup AbortOps

Inserting(at) == op.tool = "command" /\ op.at = at /\ op.kind = "insert"
Live == server # 0

(* Types; and every token and every server named has been handed out.      *)
ProgramTyped ==
  /\ owner \in 0 .. servers /\ rt \in Runtime /\ rt.token <= servers
  /\ rt.prevention.server <= servers
  /\ exits \subseteq 1 .. servers /\ closing \in {"open", "killing", "closed"}
ProcessTyped ==
  /\ servers \in 0 .. MaxServers /\ server \in 0 .. servers
  /\ lastExit \in {"none", "clean", "failed", "killed"}
ClientTyped ==
  /\ client \in BOOLEAN /\ seen \in State /\ mine \in BOOLEAN
  /\ reason \in {"none", "breakpoint", "other"}
  /\ ~client => seen = "unknown" /\ reason = "none" /\ ~mine
FactsTyped ==
  /\ flashOff \in BOOLEAN /\ planted \in BOOLEAN
  /\ story \in Stories /\ lost \in {"no", "exited", "ended"}
Typed == ProgramTyped /\ ProcessTyped /\ ClientTyped /\ FactsTyped /\ op \in Ops

(* A server that is being started has a number nobody has yet, and the     *)
(* handler of an exit only ever releases an owner whose server is gone.    *)
OwnerInv ==
  /\ op.tool = "start" =>
       owner = 0 /\ servers # 0 /\ servers \notin exits /\ rt.token # servers /\ ~planted
  /\ op.tool # "start" => OwnedWhileServerRuns
  /\ \A token \in exits : token = owner => ~Live
  /\ op.tool = "stop" /\ op.at = "observe" => ~Live
  /\ planted => Live

(* What may be planted is marked, or its insertion is being awaited; this, *)
(* of what follows, takes a target that resumes after an insertion.        *)
PlantedInv ==
  /\ planted => CleanupPending \/ Inserting("reply")
  /\ StopLeavesNoBreakpoint

(* The evidence that flash memory is not patched names its server.         *)
PreventionInv ==
  /\ Live /\ rt.prevention.server = server => flashOff
  /\ Live /\ Inserting("send") => flashOff
  /\ op.tool = "command" /\ op.at = "send" /\ op.kind = "raw" => rt.prevention = NoBound

(* A client that exited has left the record so that it can be stopped.     *)
LostInv ==
  lost = "exited" /\ closing = "open" /\ owner # 0 /\ Live =>
    ~client /\ rt.state = "unknown" /\ rt.exited /\ ~rt.available

(* The life cycle of a managed breakpoint has its order.                   *)
OrderInv ==
  /\ rt.life.empty => rt.life.deleted
  /\ rt.life.deleted => rt.life.hit
  /\ rt.life.hit => rt.life.known

(* Whoever has evidence no longer expects what was observed before it.     *)
RecordEvidence == rt.prevention # NoBound \/ rt.life.known \/ rt.phase # "none"
OpEvidence ==
  \/ op.tool = "connect" /\ op.at # "attach"
  \/ op.tool = "command" /\ (op.kind = "insert" \/ op.phase # "none")
  \/ op.tool = "wait" /\ op.phase # "none"
EvidenceInv ==
  /\ RecordEvidence \/ OpEvidence => ~rt.expectation /\ ~rt.available
  /\ op.tool = "connect" => ~rt.available

(* While it has been hit the target does not run, nor is it made to.       *)
AtRest == /\ rt.state # "running" /\ (client => seen # "running")
          /\ client /\ rt.state = "halted" => seen = "halted"
HitInv ==
  rt.life.hit =>
    /\ AtRest
    /\ op.tool # "connect" /\ ~(op.tool = "stop" /\ op.at = "observe")
    /\ op.tool = "abort" => op.at = "clear" /\ op.before # "running"

(* A stop at a breakpoint that nobody has waited for yet is the managed    *)
(* one's, if there is one ...                                              *)
Managed == \/ rt.life.known \/ rt.phase # "none"
           \/ op.tool = "command" /\ op.kind \in {"insert", "continue"}
           \/ op.tool = "wait" /\ op.phase = "awaiting"
PendingInv ==
  /\ reason = "breakpoint" => seen = "halted"
  /\ Live /\ op.tool # "start" /\ Managed /\ reason = "breakpoint" => story # "none"
  /\ op.tool = "command" /\ op.kind \notin {"insert", "continue"} => rt.phase = "none"

(* ... and as long as the target is seen halted, what the life cycle says  *)
(* has happened.                                                           *)
Told == /\ rt.life.hit => story # "none"
        /\ rt.life.deleted => story \in {"deleted", "empty"}
        /\ rt.life.empty => story = "empty"
StoryInv == Live /\ op.tool # "start" /\ ExecutionState = "halted" => Told

LifeInv == OrderInv /\ EvidenceInv /\ HitInv /\ PendingInv /\ StoryInv

IInv == Typed /\ OwnerInv /\ PreventionInv /\ LostInv /\ LifeInv
-----------------------------------------------------------------------------
(* The place of an operation tells which operation it is.                  *)
LEMMA OpKinds ==
  ASSUME op \in Ops
  PROVE  /\ op.tool = "none" => op \in IdleOps
         /\ op.tool = "start" => op \in StartOps
         /\ op.tool = "stop" => op \in StopOps
         /\ op.tool = "connect" => op \in ConnectOps
         /\ op.tool = "command" /\ op.at \in {"send", "reply"} => op \in SendOps
         /\ op.tool = "command" /\ op.at = "persist" => op \in SentOps
         /\ op.tool \in {"list", "backtrace"} => op \in AskOps
         /\ op.tool = "delete" /\ op.at = "persist" => op \in DeletedOps
         /\ op.tool = "wait" => op \in WaitOps
         /\ op.tool = "abort" => op \in AbortOps
BY DEF Ops, IdleOps, StartOps, StopOps, ConnectOps, SendOps, SentOps, AskOps, DeleteOps,
       DeletedOps, WaitOps, AbortOps

LEMMA GotoEffect ==
  ASSUME op \in Ops, NEW at, Goto(at)
  PROVE  /\ op \in StopOps /\ at \in {"clear", "disconnect", "await", "kill", "observe"} =>
              op' \in StopOps /\ op'.at = at /\ op'.tool = "stop"
         /\ op \in ConnectOps /\ at \in {"prevent", "resume"} =>
              op' \in ConnectOps /\ op'.at = at /\ op'.tool = "connect"
         /\ op \in SendOps /\ at = "reply" =>
              /\ op' \in SendOps /\ op'.at = at /\ op'.kind = op.kind /\ op'.phase = op.phase
              /\ op'.tool = "command"
         /\ op \in AbortOps /\ at \in {"clear", "resume"} =>
              op' \in AbortOps /\ op'.at = at /\ op'.before = op.before /\ op'.tool = "abort"
<1>1. op' = [op EXCEPT !.at = at]
  BY DEF Goto
<1>2. CASE op \in StopOps
  BY <1>1, <1>2 DEF StopOps, ConnectOps, SendOps, AbortOps
<1>3. CASE op \in ConnectOps
  BY <1>1, <1>3 DEF StopOps, ConnectOps, SendOps, AbortOps
<1>4. CASE op \in SendOps
  BY <1>1, <1>4 DEF StopOps, ConnectOps, SendOps, AbortOps
<1>5. CASE op \in AbortOps
  BY <1>1, <1>5 DEF StopOps, ConnectOps, SendOps, AbortOps
<1>. QED
  BY <1>2, <1>3, <1>4, <1>5

LEMMA FinishEffect ==
  ASSUME Finish
  PROVE  op' \in IdleOps /\ op'.tool = "none" /\ op'.at = "none"
BY DEF Finish, Idle, IdleOps

LEMMA FreeIsIdle ==
  ASSUME Free
  PROVE  op.tool = "none" /\ op.at = "none" /\ op \in IdleOps
BY DEF Free, Idle, IdleOps

(* What awaiting an answer does to the client.                             *)
LEMMA AnswersEffect ==
  ASSUME ClientTyped, NEW s \in State, Answers(s)
  PROVE  /\ ClientTyped' /\ client /\ client' /\ seen' = s /\ (mine' <=> mine) /\ lost' = lost
         /\ reason' = "breakpoint" => reason = "breakpoint" /\ s = seen
BY DEF ClientTyped, Answers, State

LEMMA GoneEffect ==
  ASSUME ClientTyped, Gone
  PROVE  /\ ClientTyped' /\ ~client' /\ seen' = "unknown" /\ reason' = "none"
         /\ lost' \in {lost, "ended"} /\ (lost' = "exited" => lost = "exited" /\ ~client)
BY DEF ClientTyped, Gone, State

LEMMA DisconnectedEffect ==
  ASSUME Disconnected
  PROVE  ClientTyped' /\ ~client' /\ seen' = "unknown" /\ reason' = "none"
BY DEF ClientTyped, Disconnected, State

LEMMA DispatchedEffect ==
  ASSUME ClientTyped, Dispatched
  PROVE  ClientTyped' /\ reason' = "none" /\ UNCHANGED <<client, seen, mine>>
BY DEF ClientTyped, Dispatched

LEMMA QuietlyEffect ==
  ASSUME ClientTyped, AnswersQuietly
  PROVE  /\ ClientTyped' /\ client /\ client' /\ seen' \in {seen, "unknown"} /\ lost' = lost
         /\ reason' = "breakpoint" => reason = "breakpoint" /\ seen' = seen
<1>1. PICK s \in {seen, "unknown"} : Answers(s)
  BY DEF AnswersQuietly
<1>2. s \in State
  BY DEF ClientTyped, State
<1>. QED
  BY <1>1, <1>2, AnswersEffect

LEMMA NoRuntimeTyped ==
  /\ NoRuntime \in Runtime /\ NoRuntime.token = 0 /\ NoRuntime.prevention = NoBound
  /\ NoRuntime.life = NoLife /\ NoRuntime.phase = "none" /\ ~NoRuntime.cleanup
  /\ ~NoRuntime.available /\ ~NoRuntime.expectation
<1>1. NewRuntime(0, 0) \in Runtime
  BY BoundsOK DEF NewRuntime, Runtime, State, Bound, NoBound, NoLife, Lifecycle
<1>. QED
  BY <1>1 DEF NoRuntime, NewRuntime, Runtime

LEMMA NewRuntimeTyped ==
  ASSUME NEW token \in 0 .. MaxServers, NEW s \in 0 .. MaxServers
  PROVE  /\ NewRuntime(token, s) \in Runtime /\ NewRuntime(token, s).token = token
         /\ NewRuntime(token, s).prevention = NoBound
         /\ NewRuntime(token, s).life = NoLife /\ NewRuntime(token, s).phase = "none"
         /\ ~NewRuntime(token, s).cleanup
BY BoundsOK DEF NewRuntime, Runtime, State, Bound, NoBound, NoLife, Lifecycle
-----------------------------------------------------------------------------
(* What the steps of the operations do to the record, field by field.      *)
Frame == UNCHANGED <<servers, server, lastExit, owner, exits, closing>>
Keeps == rt' \in Runtime /\ rt'.token = rt.token
Trusts == rt'.prevention = rt.prevention
Marked == (rt'.cleanup <=> rt.cleanup) /\ (rt'.cleaned <=> rt.cleaned)
Tells == rt'.life = rt.life /\ rt'.phase = rt.phase
Forgets == rt'.life = NoLife /\ rt'.phase = "none"
Expects == (rt'.expectation => rt.expectation) /\ (rt'.available => rt.available)
Exited == rt'.exited <=> rt.exited

LEMMA StopServerEffect ==
  ASSUME Typed, StopServer
  PROVE  /\ Frame /\ Keeps /\ Trusts /\ Marked /\ Tells /\ Expects /\ Exited
         /\ rt'.state = rt.state /\ facts' = facts /\ op.tool = "none"
         /\ \/ op' \in IdleOps /\ op'.tool = "none" /\ UNCHANGED gdb
            \/ /\ op' \in StopOps /\ op'.tool = "stop" /\ ~StopRefused
               /\ op'.at = (IF CleanupPending THEN "clear" ELSE "disconnect")
               /\ op'.resume = ResumeExpected
               /\ IF CleanupPending THEN Dispatched ELSE UNCHANGED gdb
<1>0. rt \in Runtime
  BY DEF Typed, ProgramTyped
<1>1. PICK natural \in BOOLEAN, stopping \in BOOLEAN :
        rt' = [rt EXCEPT !.natural = natural, !.stopping = stopping]
  <2>1. NaturalExit \in BOOLEAN
    BY <1>0 DEF NaturalExit, Runtime, Typed, ClientTyped
  <2>2. (IF StopRefused THEN rt.stopping ELSE TRUE) \in BOOLEAN
    BY <1>0 DEF Runtime
  <2>3. rt' = [rt EXCEPT !.natural = NaturalExit,
                         !.stopping = IF StopRefused THEN rt.stopping ELSE TRUE]
    BY DEF StopServer
  <2>. QED
    BY <2>1, <2>2, <2>3, Zenon
<1>2. /\ Keeps /\ Trusts /\ Marked /\ Tells /\ Expects /\ Exited /\ rt'.state = rt.state
  BY <1>0, <1>1 DEF Keeps, Trusts, Marked, Tells, Expects, Exited, Runtime
<1>3. Frame /\ facts' = facts /\ op.tool = "none"
  BY FreeIsIdle DEF StopServer, Frame, process, facts
<1>4. CASE StopRefused
  BY <1>2, <1>3, <1>4, FinishEffect DEF StopServer, Finish, Idle
<1>5. CASE ~StopRefused
  <2>1. NaturalExit \in BOOLEAN /\ ResumeExpected \in BOOLEAN
    BY <1>0 DEF NaturalExit, Runtime, Typed, ClientTyped, ResumeExpected
  <2>2. op' = [tool |-> "stop", at |-> IF CleanupPending THEN "clear" ELSE "disconnect",
               wait |-> NaturalExit, resume |-> ResumeExpected]
    BY <1>5, Zenon DEF StopServer
  <2>3. PICK at \in {"clear", "disconnect"} : at = IF CleanupPending THEN "clear" ELSE "disconnect"
    OBVIOUS
  <2>4. PICK wait \in BOOLEAN, resume \in BOOLEAN : wait = NaturalExit /\ resume = ResumeExpected
    BY <2>1, Zenon
  <2>5. op' = [tool |-> "stop", at |-> at, wait |-> wait, resume |-> resume]
    BY <2>2, <2>3, <2>4, Zenon
  <2>6. op' \in StopOps /\ op'.tool = "stop" /\ op'.at = at /\ op'.resume = resume
    BY <2>5 DEF StopOps
  <2>7. IF CleanupPending THEN Dispatched ELSE UNCHANGED gdb
    BY <2>6 DEF StopServer
  <2>8. op'.resume = ResumeExpected
    BY <2>4, <2>6, Zenon
  <2>. QED
    BY <1>2, <1>3, <1>5, <2>3, <2>6, <2>7, <2>8
<1>. QED
  BY <1>4, <1>5

LEMMA ClearedEffect ==
  ASSUME Typed, Cleared
  PROVE  /\ ClientTyped' /\ client /\ client' /\ seen = "halted" /\ seen' = "halted"
         /\ reason' = "breakpoint" => reason = "breakpoint"
         /\ planted' = FALSE /\ lost' = lost
BY AnswersEffect DEF Cleared, Typed, State

LEMMA NotClearedEffect ==
  ASSUME Typed, NotCleared
  PROVE  /\ ClientTyped' /\ (client' => client) /\ seen' \in {seen, "unknown"}
         /\ ~client' => seen' = "unknown" /\ reason' = "none"
         /\ reason' = "breakpoint" => reason = "breakpoint" /\ seen' = seen
         /\ planted' \in BOOLEAN /\ (planted' => planted)
         /\ lost' \in {lost, "ended"} /\ (lost' = "exited" => lost = "exited")
<1>1. planted' \in BOOLEAN /\ (planted' => planted)
  <2>1. planted' = planted \/ planted' = FALSE
    BY Zenon DEF NotCleared
  <2>2. planted \in BOOLEAN
    BY DEF Typed, FactsTyped
  <2>3. CASE planted' = planted
    BY <2>2, <2>3, Zenon
  <2>. QED
    BY <2>1, <2>3
<1>2. CASE Gone
  BY <1>1, <1>2, GoneEffect DEF Typed
<1>3. CASE AnswersQuietly
  BY <1>1, <1>3, QuietlyEffect DEF Typed
<1>. QED
  BY <1>2, <1>3 DEF NotCleared

LEMMA StopClearEffect ==
  ASSUME Typed, StopClear
  PROVE  /\ Frame /\ Keeps /\ Trusts /\ Tells /\ Expects /\ Exited /\ flashOff' = flashOff
         /\ op.tool = "stop" /\ op.at = "clear"
         /\ story' = (IF seen' = "halted" THEN story ELSE "none")
         /\ \/ /\ Cleared /\ rt'.state = "halted" /\ (rt'.cleanup <=> rt.cleanup) /\ rt'.cleaned
               /\ op' \in StopOps /\ op'.tool = "stop" /\ op'.at = "disconnect"
            \/ /\ NotCleared /\ rt'.state \in {seen', "unknown"} /\ Marked
               /\ op' \in IdleOps /\ op'.tool = "none"
<1>0. rt \in Runtime /\ op \in Ops /\ ClientTyped
  BY DEF Typed, ProgramTyped
<1>1. Frame /\ flashOff' = flashOff /\ op.tool = "stop" /\ op.at = "clear" /\ op \in StopOps
      /\ story' = (IF seen' = "halted" THEN story ELSE "none")
  BY <1>0, OpKinds DEF StopClear, Frame, process, At
<1>2. CASE Cleared /\ rt' = [rt EXCEPT !.state = "halted", !.cleaned = TRUE] /\ Goto("disconnect")
  <2>1. /\ Keeps /\ Trusts /\ Tells /\ Expects /\ Exited /\ rt'.state = "halted"
        /\ (rt'.cleanup <=> rt.cleanup) /\ rt'.cleaned
    BY <1>0, <1>2 DEF Keeps, Trusts, Tells, Expects, Exited, Runtime, State
  <2>. QED
    BY <1>0, <1>1, <1>2, <2>1, GotoEffect
<1>3. CASE /\ NotCleared /\ Finish
           /\ \E s \in {seen', "unknown"} : rt' = [rt EXCEPT !.state = s, !.stopping = FALSE]
  <2>1. PICK s \in {seen', "unknown"} : rt' = [rt EXCEPT !.state = s, !.stopping = FALSE]
    BY <1>3
  <2>2. s \in State
    BY <1>3, NotClearedEffect DEF ClientTyped, State
  <2>3. Keeps /\ Trusts /\ Tells /\ Expects /\ Exited /\ rt'.state = s /\ Marked
    BY <1>0, <2>1, <2>2 DEF Keeps, Trusts, Tells, Expects, Exited, Marked, Runtime
  <2>. QED
    BY <1>1, <1>3, <2>1, <2>3, FinishEffect
<1>. QED
  BY <1>2, <1>3 DEF StopClear

LEMMA StopOnEffect ==
  ASSUME Typed, StopDisconnect \/ StopAwait \/ StopObserve
  PROVE  /\ Frame /\ Keeps /\ Trusts /\ Tells /\ Expects /\ Exited /\ Marked
         /\ UNCHANGED <<flashOff, planted, story, lost>> /\ op.tool = "stop"
         /\ \/ /\ StopDisconnect /\ Disconnected /\ rt' = rt /\ op.at = "disconnect"
               /\ op' \in StopOps /\ op'.tool = "stop" /\ op'.at \in {"await", "kill"}
            \/ /\ StopAwait /\ UNCHANGED gdb /\ rt'.state = rt.state /\ op.at = "await"
               /\ \/ op' \in StopOps /\ op'.tool = "stop" /\ op'.at = "kill"
                  \/ op' \in IdleOps /\ op'.tool = "none"
            \/ /\ StopObserve /\ UNCHANGED gdb /\ op.at = "observe"
               /\ op' \in IdleOps /\ op'.tool = "none"
<1>0. rt \in Runtime /\ op \in Ops
  BY DEF Typed, ProgramTyped
<1>1. Frame /\ UNCHANGED <<flashOff, planted, story, lost>> /\ op.tool = "stop" /\ op \in StopOps
  BY <1>0, OpKinds DEF StopDisconnect, StopAwait, StopObserve, Frame, program, process, facts, At
<1>2. ASSUME rt' = rt
      PROVE  Keeps /\ Trusts /\ Tells /\ Expects /\ Exited /\ Marked
  BY <1>0, <1>2 DEF Keeps, Trusts, Tells, Expects, Exited, Marked
<1>3. CASE StopDisconnect
  <2>1. rt' = rt /\ Disconnected /\ op.at = "disconnect" /\ \E at \in {"await", "kill"} : Goto(at)
    BY <1>3 DEF StopDisconnect, program, At
  <2>. QED
    BY <1>0, <1>1, <1>2, <1>3, <2>1, GotoEffect
<1>4. CASE StopAwait
  <2>1. UNCHANGED gdb /\ op.at = "await"
    BY <1>4 DEF StopAwait, At
  <2>2. CASE Goto("kill") /\ rt' = rt
    BY <1>0, <1>1, <1>2, <1>4, <2>1, <2>2, GotoEffect
  <2>3. CASE Finish /\ rt' = [rt EXCEPT !.stopping = FALSE]
    <3>1. Keeps /\ Trusts /\ Tells /\ Expects /\ Exited /\ Marked /\ rt'.state = rt.state
      BY <1>0, <2>3 DEF Keeps, Trusts, Tells, Expects, Exited, Marked, Runtime
    <3>. QED
      BY <1>1, <1>4, <2>1, <2>3, <3>1, FinishEffect
  <2>. QED
    BY <1>4, <2>2, <2>3 DEF StopAwait
<1>5. CASE StopObserve
  <2>1. UNCHANGED gdb /\ op.at = "observe" /\ Finish
    BY <1>5 DEF StopObserve, At
  <2>2. PICK s \in State : rt' = [rt EXCEPT !.state = s, !.stopping = FALSE]
    BY <1>5 DEF StopObserve
  <2>3. Keeps /\ Trusts /\ Tells /\ Expects /\ Exited /\ Marked
    BY <1>0, <2>2 DEF Keeps, Trusts, Tells, Expects, Exited, Marked, Runtime
  <2>. QED
    BY <1>1, <1>5, <2>1, <2>3, FinishEffect
<1>. QED
  BY <1>3, <1>4, <1>5

LEMMA StopKillEffect ==
  ASSUME Typed, StopKill
  PROVE  /\ UNCHANGED <<servers, exits, closing, story, lost>> /\ UNCHANGED gdb
         /\ op.tool = "stop" /\ op.at = "kill" /\ rt' \in Runtime
         /\ \/ /\ KillServer /\ owner' \in {owner, 0} /\ Forgets
               /\ rt'.token = 0 /\ rt'.prevention = NoBound /\ ~rt'.cleanup
               /\ ~rt'.expectation /\ ~rt'.available
               /\ op' \in StopOps /\ op'.tool = "stop" /\ op'.at = "observe"
            \/ /\ UNCHANGED <<server, lastExit, flashOff, planted, owner>>
               /\ Keeps /\ Trusts /\ Tells /\ Expects /\ Exited /\ Marked /\ rt'.state = rt.state
               /\ op' \in IdleOps /\ op'.tool = "none"
<1>0. rt \in Runtime /\ op \in Ops
  BY DEF Typed, ProgramTyped
<1>1. /\ UNCHANGED <<servers, exits, closing, story, lost>> /\ UNCHANGED gdb
      /\ op.tool = "stop" /\ op.at = "kill" /\ op \in StopOps
  BY <1>0, OpKinds DEF StopKill, At
<1>2. CASE KillServer /\ rt' = Released(rt) /\ Goto("observe")
           /\ owner' = (IF rt.token # 0 THEN ReleasedBy(rt.token) ELSE owner)
  <2>1. rt' = [NoRuntime EXCEPT !.state = rt.state, !.stopping = rt.stopping]
    BY <1>2, Zenon DEF Released
  <2>2. /\ rt' \in Runtime /\ Forgets /\ rt'.token = 0 /\ rt'.prevention = NoBound
        /\ ~rt'.cleanup /\ ~rt'.expectation /\ ~rt'.available
    BY <1>0, <2>1, NoRuntimeTyped DEF Runtime, Forgets
  <2>3. owner' \in {owner, 0}
    BY <1>2 DEF ReleasedBy
  <2>. QED
    BY <1>0, <1>1, <1>2, <2>2, <2>3, GotoEffect
<1>3. CASE /\ UNCHANGED <<server, lastExit, flashOff, planted, owner>>
           /\ rt' = [rt EXCEPT !.stopping = FALSE] /\ Finish
  <2>1. /\ Keeps /\ Trusts /\ Tells /\ Expects /\ Exited /\ Marked /\ rt'.state = rt.state
    BY <1>0, <1>3 DEF Keeps, Trusts, Tells, Expects, Exited, Marked, Runtime
  <2>2. rt' \in Runtime
    BY <2>1 DEF Keeps
  <2>. QED
    BY <1>1, <1>3, <2>1, <2>2, FinishEffect
<1>. QED
  BY <1>2, <1>3 DEF StopKill
-----------------------------------------------------------------------------
LEMMA ConnectEffect ==
  ASSUME Typed, Connect
  PROVE  /\ Frame /\ Keeps /\ Trusts /\ Tells /\ Expects /\ Marked /\ UNCHANGED gdb /\ UNCHANGED facts
         /\ rt.state = "running" \/ rt.available
         /\ ~rt'.available /\ rt'.state = rt.state /\ op.tool = "none"
         /\ op' \in ConnectOps /\ op'.tool = "connect" /\ op'.at = "attach"
<1>0. rt \in Runtime /\ op \in Ops
  BY DEF Typed, ProgramTyped
<1>1. Frame /\ UNCHANGED gdb /\ UNCHANGED facts /\ (rt.state = "running" \/ rt.available)
      /\ op.tool = "none"
  BY FreeIsIdle DEF Connect, Frame, process, AttachBoundary
<1>2. rt' = [rt EXCEPT !.available = FALSE, !.exited = FALSE]
  BY DEF Connect
<1>3. Keeps /\ Trusts /\ Tells /\ Expects /\ Marked /\ ~rt'.available /\ rt'.state = rt.state
  BY <1>0, <1>2 DEF Keeps, Trusts, Tells, Expects, Marked, Runtime
<1>4. PICK mode \in Modes : op' = [tool |-> "connect", at |-> "attach", mode |-> mode]
  BY DEF Connect
<1>. QED
  BY <1>1, <1>3, <1>4 DEF ConnectOps

LEMMA AttachedEffect ==
  ASSUME Typed, NEW s \in State, Attached(s)
  PROVE  /\ client' /\ seen' = s /\ mine' \in BOOLEAN
         /\ reason' \in {"none", "breakpoint", "other"}
         /\ reason' = "breakpoint" => reason = "breakpoint" /\ seen' = seen
         /\ lost' = "no" \/ (lost' = lost /\ client /\ s = seen)
<1>1. CASE client /\ Answers(s) /\ s = seen
  BY <1>1, AnswersEffect DEF Typed, ClientTyped
<1>2. CASE ~(client /\ Answers(s) /\ s = seen)
  <2>1. /\ client' = TRUE /\ seen' = s /\ mine' = FALSE /\ lost' = "no"
        /\ reason' \in (IF s = "halted" THEN {"other", "none"} ELSE {"none"})
    BY <1>2, Zenon DEF Attached
  <2>. QED
    BY <2>1
<1>. QED
  BY <1>1, <1>2

LEMMA ConnectFailsEffect ==
  ASSUME Typed, ConnectFails
  PROVE  /\ Frame /\ Keeps /\ Trusts /\ Tells /\ Expects /\ Marked /\ Exited
         /\ UNCHANGED <<flashOff, planted>> /\ rt'.state = seen' /\ ClientTyped'
         /\ seen' \in {seen, "unknown"}
         /\ client' => client /\ seen' = seen
         /\ ~client' => seen' = "unknown" /\ reason' = "none"
         /\ reason' = "breakpoint" => reason = "breakpoint"
         /\ story' = (IF client' THEN story ELSE "none")
         /\ lost' \in {lost, "ended"}
         /\ op.tool = "connect" /\ op' \in IdleOps /\ op'.tool = "none"
<1>0. rt \in Runtime /\ ClientTyped
  BY DEF Typed, ProgramTyped
<1>1. Frame /\ UNCHANGED <<flashOff, planted>> /\ op.tool = "connect" /\ Finish
      /\ story' = (IF client' THEN story ELSE "none")
  BY DEF ConnectFails, Frame, process, At
<1>2. /\ ClientTyped' /\ seen' \in {seen, "unknown"} /\ (client' => client /\ seen' = seen)
      /\ ~client' => seen' = "unknown" /\ reason' = "none"
      /\ reason' = "breakpoint" => reason = "breakpoint"
      /\ lost' \in {lost, "ended"}
  <2>1. CASE Gone
    BY <1>0, <2>1, GoneEffect
  <2>2. CASE Answers(seen)
    BY <1>0, <2>2, AnswersEffect DEF ClientTyped
  <2>. QED
    BY <2>1, <2>2 DEF ConnectFails
<1>3. rt' = [rt EXCEPT !.state = seen'] /\ seen' \in State
  BY <1>2 DEF ConnectFails, ClientTyped
<1>4. Keeps /\ Trusts /\ Tells /\ Expects /\ Marked /\ Exited /\ rt'.state = seen'
  BY <1>0, <1>3 DEF Keeps, Trusts, Tells, Expects, Marked, Exited, Runtime
<1>. QED
  BY <1>1, <1>2, <1>4, FinishEffect

LEMMA ConnectAttachedEffect ==
  ASSUME Typed, ConnectAttached
  PROVE  /\ Frame /\ Keeps /\ Tells /\ Expects /\ Marked /\ Exited
         /\ UNCHANGED <<flashOff, planted, story>> /\ rt'.state = seen' /\ ClientTyped'
         /\ ~rt'.expectation /\ client'
         /\ reason' = "breakpoint" => reason = "breakpoint" /\ seen' = seen
         /\ lost' = "no" \/ (lost' = lost /\ client)
         /\ op.tool = "connect" /\ op.at = "attach"
         /\ \/ op' \in ConnectOps /\ op'.tool = "connect" /\ rt'.prevention = NoBound
            \/ op' \in IdleOps /\ op'.tool = "none" /\ Trusts
<1>0. rt \in Runtime /\ op \in Ops
  BY DEF Typed, ProgramTyped
<1>1. Frame /\ UNCHANGED <<flashOff, planted, story>> /\ op.tool = "connect" /\ op.at = "attach"
  BY DEF ConnectAttached, Frame, process, At
<1>2. PICK s \in State :
        /\ Attached(s)
        /\ \/ /\ rt' = [rt EXCEPT !.state = s, !.expectation = FALSE, !.prevention = NoBound]
              /\ op' = [op EXCEPT !.at = "prevent"]
           \/ rt' = [rt EXCEPT !.state = s, !.expectation = FALSE] /\ Finish
  BY DEF ConnectAttached
<1>3. /\ client' /\ seen' = s /\ mine' \in BOOLEAN /\ ClientTyped'
      /\ reason' = "breakpoint" => reason = "breakpoint" /\ seen' = seen
      /\ lost' = "no" \/ (lost' = lost /\ client)
  BY <1>2, AttachedEffect DEF ClientTyped
<1>4. CASE /\ rt' = [rt EXCEPT !.state = s, !.expectation = FALSE, !.prevention = NoBound]
           /\ op' = [op EXCEPT !.at = "prevent"]
  <2>1. NoBound \in Bound
    BY BoundsOK DEF NoBound, Bound
  <2>2. /\ Keeps /\ Tells /\ Expects /\ Marked /\ Exited /\ rt'.prevention = NoBound
        /\ rt'.state = s /\ ~rt'.expectation
    BY <1>0, <1>4, <2>1 DEF Keeps, Tells, Expects, Marked, Exited, Runtime
  <2>3. op' \in ConnectOps /\ op'.tool = "connect"
    BY <1>0, <1>1, <1>4, GotoEffect, OpKinds DEF Goto
  <2>. QED
    BY <1>1, <1>3, <2>2, <2>3
<1>5. CASE rt' = [rt EXCEPT !.state = s, !.expectation = FALSE] /\ Finish
  <2>1. /\ Keeps /\ Tells /\ Expects /\ Marked /\ Exited /\ Trusts
        /\ rt'.state = s /\ ~rt'.expectation
    BY <1>0, <1>5 DEF Keeps, Tells, Expects, Marked, Exited, Trusts, Runtime
  <2>. QED
    BY <1>1, <1>3, <1>5, <2>1, FinishEffect
<1>. QED
  BY <1>2, <1>4, <1>5

LEMMA ConnectStaleEffect ==
  ASSUME Typed, ConnectStale
  PROVE  /\ Frame /\ Keeps /\ Trusts /\ Tells /\ Expects /\ Marked /\ Exited
         /\ UNCHANGED <<flashOff, planted>> /\ rt'.state = "running" /\ Disconnected
         /\ story' = "none" /\ lost' = "no"
         /\ op.tool = "connect" /\ op' \in IdleOps /\ op'.tool = "none"
<1>0. rt \in Runtime
  BY DEF Typed, ProgramTyped
<1>1. rt' = [rt EXCEPT !.state = "running", !.expectation = FALSE]
  BY DEF ConnectStale
<1>2. /\ Keeps /\ Trusts /\ Tells /\ Expects /\ Marked /\ Exited /\ rt'.state = "running"
  BY <1>0, <1>1 DEF Keeps, Tells, Expects, Marked, Exited, Trusts, Runtime, State
<1>3. /\ Frame /\ UNCHANGED <<flashOff, planted>> /\ Disconnected /\ story' = "none"
      /\ lost' = "no" /\ op.tool = "connect" /\ Finish
  BY DEF ConnectStale, Frame, process, At
<1>. QED
  BY <1>2, <1>3, FinishEffect

LEMMA PreventEffect ==
  ASSUME Typed, Prevent
  PROVE  /\ Frame /\ Keeps /\ Tells /\ Expects /\ Marked /\ Exited /\ planted' = planted
         /\ rt'.state = seen' /\ ClientTyped' /\ (client' => client)
         /\ seen' \in {seen, "unknown"}
         /\ reason' = "breakpoint" => reason = "breakpoint" /\ seen' = seen
         /\ story' = (IF seen' = seen THEN story ELSE "none")
         /\ lost' \in {lost, "ended"}
         /\ ~client' => seen' = "unknown"
         /\ op.tool = "connect" /\ op.at = "prevent"
         /\ \/ rt'.prevention = Current /\ flashOff' = TRUE
            \/ Trusts /\ flashOff' \in BOOLEAN /\ (Live => flashOff' = flashOff \/ flashOff' = TRUE)
         /\ \/ op' \in ConnectOps /\ op'.tool = "connect"
            \/ op' \in IdleOps /\ op'.tool = "none"
<1>0. rt \in Runtime /\ op \in Ops /\ ClientTyped /\ flashOff \in BOOLEAN
  BY DEF Typed, ProgramTyped, FactsTyped
<1>1. /\ Frame /\ planted' = planted /\ op.tool = "connect" /\ op.at = "prevent"
      /\ op \in ConnectOps
      /\ story' = (IF seen' = seen THEN story ELSE "none")
  BY <1>0, OpKinds DEF Prevent, Frame, process, At
<1>2. CASE /\ Answers(rt.state) /\ seen = rt.state /\ flashOff' = TRUE
           /\ rt' = [rt EXCEPT !.prevention = Current]
           /\ Goto("resume") \/ Finish
  <2>1. Current \in Bound
    <3>1. rt.token \in 0 .. MaxServers
      BY <1>0 DEF Runtime
    <3>2. server \in 0 .. MaxServers
      BY BoundsOK DEF Typed, ProcessTyped
    <3>. QED
      BY <3>1, <3>2 DEF Current, Bound
  <2>2. /\ Keeps /\ Tells /\ Expects /\ Marked /\ Exited /\ rt'.prevention = Current
        /\ rt'.state = rt.state
    BY <1>0, <1>2, <2>1 DEF Keeps, Tells, Expects, Marked, Exited, Runtime
  <2>3. rt.state \in State
    BY <1>0 DEF Runtime
  <2>4. /\ ClientTyped' /\ client /\ client' /\ seen' = seen /\ lost' = lost
        /\ reason' = "breakpoint" => reason = "breakpoint"
    BY <1>0, <1>2, <2>3, AnswersEffect
  <2>5. \/ op' \in ConnectOps /\ op'.tool = "connect"
        \/ op' \in IdleOps /\ op'.tool = "none"
    BY <1>0, <1>1, <1>2, GotoEffect, FinishEffect
  <2>. QED
    BY <1>1, <1>2, <2>2, <2>4, <2>5
<1>3. CASE /\ Gone \/ AnswersQuietly
           /\ flashOff' \in {flashOff, server # 0}
           /\ rt' = [rt EXCEPT !.state = seen'] /\ Finish
  <2>1. /\ ClientTyped' /\ (client' => client) /\ seen' \in {seen, "unknown"}
        /\ reason' = "breakpoint" => reason = "breakpoint" /\ seen' = seen
        /\ lost' \in {lost, "ended"} /\ (~client' => seen' = "unknown")
    BY <1>0, <1>3, GoneEffect, QuietlyEffect
  <2>2. seen' \in State
    BY <2>1 DEF ClientTyped
  <2>3. Keeps /\ Tells /\ Expects /\ Marked /\ Exited /\ Trusts /\ rt'.state = seen'
    BY <1>0, <1>3, <2>2 DEF Keeps, Tells, Expects, Marked, Exited, Trusts, Runtime
  <2>4. (server # 0) \in BOOLEAN
    OBVIOUS
  <2>5. PICK is \in BOOLEAN : is = (server # 0)
    BY <2>4, Zenon
  <2>6. flashOff' = flashOff \/ flashOff' = is
    BY <1>3, <2>5, Zenon
  <2>7. flashOff' \in BOOLEAN
    <3>1. CASE flashOff' = flashOff
      <4>1. flashOff \in BOOLEAN
        BY DEF Typed, FactsTyped
      <4>. QED
        BY <3>1, <4>1, Zenon
    <3>2. CASE flashOff' = is
      <4>1. is \in BOOLEAN
        BY <2>5, Zenon
      <4>. QED
        BY <3>2, <4>1, Zenon
    <3>. QED
      BY <2>6, <3>1, <3>2, Zenon
  <2>8. Live => flashOff' = flashOff \/ flashOff' = TRUE
    BY <2>5, <2>6, Zenon DEF Live
  <2>. QED
    BY <1>1, <1>3, <2>1, <2>3, <2>7, <2>8, FinishEffect
<1>. QED
  BY <1>2, <1>3 DEF Prevent

LEMMA ResumeEffect ==
  ASSUME Typed, Resume
  PROVE  /\ Frame /\ Keeps /\ Trusts /\ Expects /\ Marked /\ Exited
         /\ UNCHANGED <<flashOff, planted>> /\ rt'.state = seen' /\ ClientTyped' /\ (client' => client)
         /\ reason' = "breakpoint" => reason = "breakpoint" /\ seen' = seen
         /\ story' = (IF seen' = seen THEN story ELSE "none")
         /\ lost' \in {lost, "ended"} /\ (~client' => seen' = "unknown")
         /\ op.tool \in {"connect", "abort"} /\ op.at = "resume" /\ op' \in IdleOps /\ op'.tool = "none"
         /\ Tells \/ Forgets
<1>0. rt \in Runtime /\ op \in Ops /\ ClientTyped
  BY DEF Typed, ProgramTyped
<1>1. /\ Frame /\ UNCHANGED <<flashOff, planted>> /\ op.tool \in {"connect", "abort"}
      /\ op.at = "resume" /\ Finish
      /\ story' = (IF seen' = seen THEN story ELSE "none")
  BY DEF Resume, Frame, process, At
<1>2. /\ ClientTyped' /\ (client' => client)
      /\ reason' = "breakpoint" => reason = "breakpoint" /\ seen' = seen
      /\ lost' \in {lost, "ended"} /\ (~client' => seen' = "unknown")
  BY <1>0, GoneEffect, AnswersEffect DEF Resume
<1>3. seen' \in State
  BY <1>2 DEF ClientTyped
<1>4. CASE rt' = [rt EXCEPT !.state = seen']
  <2>1. Keeps /\ Tells /\ Expects /\ Marked /\ Exited /\ Trusts /\ rt'.state = seen'
    BY <1>0, <1>3, <1>4 DEF Keeps, Tells, Expects, Marked, Exited, Trusts, Runtime
  <2>. QED
    BY <1>1, <1>2, <2>1, FinishEffect
<1>5. CASE seen' = "running" /\ rt' = [rt EXCEPT !.state = "running", !.life = NoLife, !.phase = "none"]
  <2>1. NoLife \in Lifecycle
    BY DEF NoLife, Lifecycle
  <2>2. Keeps /\ Forgets /\ Expects /\ Marked /\ Exited /\ Trusts /\ rt'.state = seen'
    BY <1>0, <1>3, <1>5, <2>1 DEF Keeps, Forgets, Expects, Marked, Exited, Trusts, Runtime
  <2>. QED
    BY <1>1, <1>2, <2>2, FinishEffect
<1>. QED
  BY <1>4, <1>5 DEF Resume
-----------------------------------------------------------------------------
LEMMA CommandEffect ==
  ASSUME Typed, Command
  PROVE  /\ Frame /\ Keeps /\ Expects /\ Marked /\ Exited /\ UNCHANGED facts
         /\ rt'.state = rt.state /\ rt'.life = rt.life /\ ClientTyped' /\ client
         /\ UNCHANGED <<client, seen, mine>> /\ reason' \in {reason, "none"}
         /\ op.tool = "none" /\ op' \in SendOps /\ op'.tool = "command" /\ op'.at = "send"
         /\ op'.phase = rt.phase /\ rt'.phase \in {rt.phase, "none"}
         /\ op'.kind \in {"insert", "continue"} => reason' = "none"
         /\ op'.kind \notin {"insert", "continue"} => rt'.phase = "none"
         /\ rt'.prevention = (IF op'.kind \in {"insert", "interrupt"} THEN rt.prevention ELSE NoBound)
         /\ op'.kind = "insert" => Confirmed
<1>0. rt \in Runtime /\ ClientTyped
  BY DEF Typed, ProgramTyped
<1>1. Frame /\ UNCHANGED facts /\ client /\ op.tool = "none"
  BY FreeIsIdle DEF Command, Frame, process
<1>2. PICK kind \in Kinds :
        /\ kind = "insert" => Confirmed
        /\ IF kind = "interrupt" /\ seen = "running" THEN UNCHANGED gdb ELSE Dispatched
        /\ rt' = [rt EXCEPT !.prevention = IF KeepsPrevention(kind) THEN rt.prevention ELSE NoBound,
                            !.phase = IF KeepsPhase(kind) THEN rt.phase ELSE "none"]
        /\ op' = [tool |-> "command", at |-> "send", kind |-> kind,
                  before |-> seen, phase |-> rt.phase]
  BY DEF Command
<1>3. PICK prevention \in Bound, phase \in Phases :
        /\ prevention = (IF KeepsPrevention(kind) THEN rt.prevention ELSE NoBound)
        /\ phase = (IF KeepsPhase(kind) THEN rt.phase ELSE "none")
  <2>1. (IF KeepsPrevention(kind) THEN rt.prevention ELSE NoBound) \in Bound
    BY <1>0, BoundsOK DEF Runtime, NoBound, Bound
  <2>2. (IF KeepsPhase(kind) THEN rt.phase ELSE "none") \in Phases
    BY <1>0 DEF Runtime, Phases
  <2>. QED
    BY <2>1, <2>2
<1>4. rt' = [rt EXCEPT !.prevention = prevention, !.phase = phase]
  BY <1>2, <1>3, Zenon
<1>5. /\ Keeps /\ Expects /\ Marked /\ Exited /\ rt'.state = rt.state /\ rt'.life = rt.life
      /\ rt'.prevention = prevention /\ rt'.phase = phase
  BY <1>0, <1>3, <1>4 DEF Keeps, Expects, Marked, Exited, Runtime, Phases
<1>6. /\ op' \in SendOps /\ op'.tool = "command" /\ op'.at = "send" /\ op'.kind = kind
      /\ op'.phase = rt.phase
  BY <1>0, <1>2 DEF SendOps, ClientTyped, Runtime, Phases
<1>7. /\ ClientTyped' /\ UNCHANGED <<client, seen, mine>> /\ reason' \in {reason, "none"}
      /\ kind \in {"insert", "continue"} => reason' = "none"
  BY <1>0, <1>2, DispatchedEffect DEF gdb, ClientTyped
<1>8. /\ prevention = (IF kind \in {"insert", "interrupt"} THEN rt.prevention ELSE NoBound)
      /\ phase \in {rt.phase, "none"}
      /\ kind \notin {"insert", "continue"} => phase = "none"
  BY <1>3 DEF KeepsPrevention, KeepsPhase
<1>. QED
  BY <1>1, <1>2, <1>5, <1>6, <1>7, <1>8

LEMMA SendEffect ==
  ASSUME Typed, Send
  PROVE  /\ Frame /\ rt' = rt /\ ClientTyped' /\ Live /\ client
         /\ UNCHANGED <<client, seen, reason, story, lost>>
         /\ op.tool = "command" /\ op.at = "send" /\ op' \in SendOps /\ op'.tool = "command"
         /\ op'.at = "reply" /\ op'.kind = op.kind /\ op'.phase = op.phase
         /\ planted' \in BOOLEAN /\ (planted' => planted \/ op.kind = "insert")
         /\ flashOff' \in BOOLEAN /\ (op.kind # "raw" => flashOff' = flashOff)
<1>0. op \in Ops /\ ClientTyped /\ planted \in BOOLEAN /\ flashOff \in BOOLEAN
  BY DEF Typed, FactsTyped
<1>1. /\ Frame /\ rt' = rt /\ Live /\ client /\ UNCHANGED <<client, seen, reason, story, lost>>
      /\ op.tool = "command" /\ op.at = "send" /\ Goto("reply") /\ op \in SendOps
  BY <1>0, OpKinds DEF Send, Frame, program, process, At, Live
<1>2. CASE op.kind = "insert"
  <2>1. planted' = TRUE /\ mine' = TRUE /\ flashOff' = flashOff
    BY <1>2, Zenon DEF Send
  <2>. QED
    BY <1>0, <1>1, <1>2, <2>1, GotoEffect DEF ClientTyped
<1>3. CASE op.kind = "raw"
  <2>1. flashOff' \in BOOLEAN /\ mine' \in BOOLEAN /\ planted' = planted
    BY <1>3 DEF Send
  <2>. QED
    BY <1>0, <1>1, <1>3, <2>1, GotoEffect DEF ClientTyped
<1>4. CASE op.kind \notin {"insert", "raw"}
  <2>1. planted' = planted /\ mine' = mine /\ flashOff' = flashOff
    BY <1>4 DEF Send
  <2>. QED
    BY <1>0, <1>1, <1>4, <2>1, GotoEffect DEF ClientTyped
<1>. QED
  BY <1>2, <1>3, <1>4

LEMMA ReplyEffect ==
  ASSUME Typed, Reply
  PROVE  /\ Frame /\ Keeps /\ Trusts /\ Expects /\ Exited /\ UNCHANGED <<flashOff, planted>>
         /\ rt'.state = seen' /\ rt'.life = NoLife /\ rt'.phase = rt.phase /\ ~rt'.expectation
         /\ ClientTyped' /\ (client' => client) /\ (~client' => seen' = "unknown")
         /\ reason' = "breakpoint" => reason = "breakpoint" /\ seen' = seen
         /\ op.kind \in {"insert", "continue"} /\ seen' = seen /\ story # "none" => story' # "none"
         /\ story' \in Stories
         /\ lost' \in {lost, "ended"}
         /\ op.tool = "command" /\ op.at \in {"send", "reply"} /\ op \in SendOps
         /\ op' \in SentOps /\ op'.tool = "command" /\ op'.at = "persist"
         /\ op'.kind = op.kind /\ op'.phase = op.phase
         /\ \/ Marked
            \/ rt'.cleanup /\ ~rt'.cleaned
         /\ op.at = "reply" /\ op.kind = "insert" /\ "resume" \notin Faults => rt'.cleanup /\ ~rt'.cleaned
<1>0. rt \in Runtime /\ op \in Ops /\ ClientTyped /\ story \in Stories
  BY DEF Typed, ProgramTyped, FactsTyped
<1>1. /\ Frame /\ UNCHANGED <<flashOff, planted>> /\ op.tool = "command"
      /\ op.at \in {"send", "reply"} /\ op \in SendOps
  BY <1>0, OpKinds DEF Reply, Frame, process, At
<1>2. PICK success \in BOOLEAN, resumed \in BOOLEAN :
        /\ (~success /\ Gone) \/ \E s \in State : Answers(s)
        /\ ~resumed => NotResumed /\ ~success
        /\ LET sent == op.at = "reply" /\ resumed
               r == IF op.kind = "insert" /\ sent THEN AfterInsertion(rt) ELSE rt
           IN /\ rt' = [r EXCEPT !.life = NoLife, !.state = seen', !.expectation = FALSE]
              /\ op' = [tool |-> "command", at |-> "persist", kind |-> op.kind,
                        before |-> op.before, phase |-> op.phase,
                        sent |-> sent, success |-> success]
        /\ story' = (IF op.kind = "raw" \/ seen' # seen THEN "none"
                     ELSE IF op.kind = "insert" /\ story # "none" THEN "hit"
                     ELSE story)
  BY DEF Reply
<1>3. /\ ClientTyped' /\ (client' => client) /\ (~client' => seen' = "unknown")
      /\ reason' = "breakpoint" => reason = "breakpoint" /\ seen' = seen
      /\ lost' \in {lost, "ended"}
  BY <1>0, <1>2, GoneEffect, AnswersEffect
<1>4. seen' \in State
  BY <1>3 DEF ClientTyped
<1>5. /\ op.kind \in {"insert", "continue"} /\ seen' = seen /\ story # "none" => story' # "none"
      /\ story' \in Stories
  BY <1>0, <1>2 DEF Stories
<1>6. (op.at = "reply" /\ resumed) \in BOOLEAN
  OBVIOUS
<1>7. PICK sent \in BOOLEAN : sent = (op.at = "reply" /\ resumed)
  BY <1>6, Zenon
<1>8. op' = [tool |-> "command", at |-> "persist", kind |-> op.kind, before |-> op.before,
             phase |-> op.phase, sent |-> sent, success |-> success]
  BY <1>2, <1>7, Zenon
<1>9. /\ op' \in SentOps /\ op'.tool = "command" /\ op'.at = "persist"
      /\ op'.kind = op.kind /\ op'.phase = op.phase
  BY <1>1, <1>8 DEF SentOps, SendOps
<1>10. PICK r : r = IF op.kind = "insert" /\ sent THEN AfterInsertion(rt) ELSE rt
  OBVIOUS
<1>11. rt' = [r EXCEPT !.life = NoLife, !.state = seen', !.expectation = FALSE]
  BY <1>2, <1>7, <1>10, Zenon
<1>12. /\ r \in Runtime /\ r.token = rt.token /\ r.prevention = rt.prevention
       /\ r.phase = rt.phase /\ (r.expectation <=> rt.expectation)
       /\ (r.available <=> rt.available) /\ (r.exited <=> rt.exited)
       /\ \/ (r.cleanup <=> rt.cleanup) /\ (r.cleaned <=> rt.cleaned)
          \/ r.cleanup /\ ~r.cleaned
       /\ op.kind = "insert" /\ sent => r.cleanup /\ ~r.cleaned
  BY <1>0, <1>10 DEF AfterInsertion, Runtime
<1>13. NoLife \in Lifecycle
  BY DEF NoLife, Lifecycle
<1>14. /\ rt' \in Runtime /\ rt'.token = r.token /\ rt'.prevention = r.prevention
       /\ rt'.phase = r.phase /\ rt'.life = NoLife /\ rt'.state = seen' /\ ~rt'.expectation
       /\ (rt'.available <=> r.available) /\ (rt'.exited <=> r.exited)
       /\ (rt'.cleanup <=> r.cleanup) /\ (rt'.cleaned <=> r.cleaned)
  BY <1>4, <1>11, <1>12, <1>13 DEF Runtime
<1>15. op.at = "reply" /\ "resume" \notin Faults => sent
  BY <1>2, <1>7 DEF NotResumed
<1>16. Keeps /\ Trusts /\ Expects /\ Exited /\ (Marked \/ (rt'.cleanup /\ ~rt'.cleaned))
  BY <1>12, <1>14 DEF Keeps, Trusts, Expects, Exited, Marked
<1>. QED
  BY <1>1, <1>3, <1>5, <1>9, <1>12, <1>14, <1>15, <1>16

(* A life cycle that begins was inserted, or awaited.                      *)
LEMMA PersistEffect ==
  ASSUME Typed, CommandPersist
  PROVE  /\ Frame /\ Keeps /\ Trusts /\ Expects /\ Exited /\ Marked
         /\ UNCHANGED gdb /\ UNCHANGED facts /\ rt'.state = rt.state
         /\ op.tool = "command" /\ op.at = "persist" /\ op' \in IdleOps /\ op'.tool = "none"
         /\ rt'.life = rt.life \/ (rt'.life = Armed /\ op.kind = "insert")
         /\ \/ rt'.phase \in {rt.phase, "none"}
            \/ op.kind = "insert"
            \/ op.kind = "continue" /\ op.phase # "none"
<1>0. rt \in Runtime /\ op \in Ops
  BY DEF Typed, ProgramTyped
<1>1. /\ Frame /\ UNCHANGED gdb /\ UNCHANGED facts /\ op.tool = "command" /\ op.at = "persist"
      /\ op' \in IdleOps /\ op'.tool = "none" /\ op \in SentOps
  BY <1>0, OpKinds, FinishEffect DEF CommandPersist, Frame, process, At
<1>2. Armed \in Lifecycle
  BY DEF Armed, NoLife, Lifecycle
<1>3. ASSUME NEW phase \in Phases, NEW r, r = [rt EXCEPT !.phase = phase]
      PROVE  /\ r \in Runtime /\ r.token = rt.token /\ r.prevention = rt.prevention
             /\ r.life = rt.life /\ r.phase = phase /\ r.state = rt.state
             /\ (r.expectation <=> rt.expectation) /\ (r.available <=> rt.available)
             /\ (r.exited <=> rt.exited)
             /\ (r.cleanup <=> rt.cleanup) /\ (r.cleaned <=> rt.cleaned)
  BY <1>0, <1>3 DEF Runtime, Phases
<1>4. ASSUME NEW r, r = [rt EXCEPT !.life = Armed, !.phase = "none"]
      PROVE  /\ r \in Runtime /\ r.token = rt.token /\ r.prevention = rt.prevention
             /\ r.life = Armed /\ r.phase = "none" /\ r.state = rt.state
             /\ (r.expectation <=> rt.expectation) /\ (r.available <=> rt.available)
             /\ (r.exited <=> rt.exited)
             /\ (r.cleanup <=> rt.cleanup) /\ (r.cleaned <=> rt.cleaned)
  BY <1>0, <1>2, <1>4 DEF Runtime
<1>5. \/ rt' = rt
      \/ op.kind = "insert" /\ rt' = [rt EXCEPT !.life = Armed, !.phase = "none"]
      \/ op.kind = "insert" /\ rt' = [rt EXCEPT !.phase = "inserted"]
      \/ rt' = [rt EXCEPT !.phase = "none"]
      \/ /\ op.kind = "continue" /\ op.phase = "inserted"
         /\ rt' = [rt EXCEPT !.phase = "awaiting"]
  <2>1. \/ rt' = rt
        \/ rt' = [rt EXCEPT !.phase = "none"]
        \/ rt' = AfterCommand(rt)
    BY DEF CommandPersist
  <2>. QED
    BY <2>1, Zenon DEF AfterCommand
<1>6. CASE rt' = rt
  BY <1>0, <1>1, <1>6 DEF Keeps, Trusts, Expects, Exited, Marked
<1>7. CASE op.kind = "insert" /\ rt' = [rt EXCEPT !.life = Armed, !.phase = "none"]
  BY <1>1, <1>4, <1>7 DEF Keeps, Trusts, Expects, Exited, Marked
<1>8. CASE op.kind = "insert" /\ rt' = [rt EXCEPT !.phase = "inserted"]
  BY <1>1, <1>3, <1>8 DEF Keeps, Trusts, Expects, Exited, Marked, Phases
<1>9. CASE rt' = [rt EXCEPT !.phase = "none"]
  BY <1>1, <1>3, <1>9 DEF Keeps, Trusts, Expects, Exited, Marked, Phases
<1>10. CASE /\ op.kind = "continue" /\ op.phase = "inserted"
            /\ rt' = [rt EXCEPT !.phase = "awaiting"]
  BY <1>1, <1>3, <1>10 DEF Keeps, Trusts, Expects, Exited, Marked, Phases
<1>. QED
  BY <1>5, <1>6, <1>7, <1>8, <1>9, <1>10
-----------------------------------------------------------------------------
(* The questions, and what is asked of a managed breakpoint.               *)
LEMMA AskEffect ==
  ASSUME Typed, Ask \/ Delete
  PROVE  /\ Frame /\ rt' = rt /\ UNCHANGED facts /\ ClientTyped' /\ client
         /\ UNCHANGED <<client, seen, mine>> /\ reason' = "none" /\ op.tool = "none"
         /\ op' \in AskOps \cup DeleteOps /\ op'.tool \in {"list", "backtrace", "delete"}
         /\ op'.at = "reply"
<1>0. ClientTyped
  BY DEF Typed
<1>1. /\ Frame /\ rt' = rt /\ UNCHANGED facts /\ client /\ Dispatched /\ op.tool = "none"
  BY FreeIsIdle DEF Ask, Delete, Frame, program, process
<1>2. seen \in State
  BY <1>0 DEF ClientTyped
<1>3. /\ op' \in AskOps \cup DeleteOps /\ op'.tool \in {"list", "backtrace", "delete"}
      /\ op'.at = "reply"
  BY <1>2 DEF Ask, Delete, AskOps, DeleteOps
<1>. QED
  BY <1>0, <1>1, <1>3, DispatchedEffect

(* The client answers without the target having run, or is gone.           *)
Quietly == /\ ClientTyped' /\ (client' => client) /\ (~client' => seen' = "unknown")
           /\ seen' \in {seen, "unknown"}
           /\ reason' = "breakpoint" => reason = "breakpoint" /\ seen' = seen
           /\ lost' \in {lost, "ended"}

LEMMA QuietEffect ==
  ASSUME Typed, Gone \/ AnswersQuietly
  PROVE  Quietly
BY GoneEffect, QuietlyEffect DEF Typed, Quietly

LEMMA AnswersSameEffect ==
  ASSUME Typed, Answers(seen)
  PROVE  Quietly /\ client /\ client' /\ seen' = seen
BY AnswersEffect DEF Typed, Quietly, ClientTyped

LEMMA StateEffect ==
  ASSUME rt \in Runtime, NEW s \in State, NEW r, r = [rt EXCEPT !.state = s]
  PROVE  /\ r \in Runtime /\ r.state = s
         /\ r.token = rt.token /\ r.prevention = rt.prevention /\ r.life = rt.life
         /\ r.phase = rt.phase
         /\ (r.expectation <=> rt.expectation) /\ (r.available <=> rt.available)
         /\ (r.exited <=> rt.exited)
         /\ (r.cleanup <=> rt.cleanup) /\ (r.cleaned <=> rt.cleaned)
BY DEF Runtime

LEMMA AskedEffect ==
  ASSUME Typed, Asked
  PROVE  /\ Frame /\ Keeps /\ Trusts /\ Marked /\ Expects /\ Exited /\ rt'.phase = rt.phase
         /\ UNCHANGED <<flashOff, planted>> /\ Quietly
         /\ rt'.state \in {seen', "unknown"}
         /\ op.tool \in {"list", "backtrace"} /\ op' \in IdleOps /\ op'.tool = "none"
         /\ \/ /\ client /\ client' /\ seen' = seen
               /\ \E empty \in BOOLEAN :
                    /\ story' = ToldList(empty)
                    /\ (rt'.life.known <=> rt.life.known) /\ (rt'.life.hit <=> rt.life.hit)
                    /\ (rt'.life.deleted <=> rt.life.deleted)
                    /\ rt.life.deleted => (rt'.life.empty => empty)
                    /\ ~rt.life.deleted => rt'.life = rt.life
            \/ rt'.life = rt.life /\ story' = (IF seen' = seen THEN story ELSE "none")
<1>0. rt \in Runtime /\ op \in Ops /\ ClientTyped
  BY DEF Typed, ProgramTyped
<1>1. /\ Frame /\ UNCHANGED <<flashOff, planted>> /\ op.tool \in {"list", "backtrace"}
      /\ op' \in IdleOps /\ op'.tool = "none"
  BY FinishEffect DEF Asked, Frame, process, At
<1>2. CASE /\ Answers(seen)
           /\ \E empty \in BOOLEAN :
                /\ rt' = Listed([rt EXCEPT !.state = seen'], empty)
                /\ story' = ToldList(empty)
  <2>1. PICK empty \in BOOLEAN : rt' = Listed([rt EXCEPT !.state = seen'], empty) /\ story' = ToldList(empty)
    BY <1>2
  <2>2. Quietly /\ client /\ client' /\ seen' = seen
    BY <1>2, AnswersSameEffect
  <2>3. PICK r : r = [rt EXCEPT !.state = seen']
    OBVIOUS
  <2>4. seen' \in State
    BY <2>2 DEF Quietly, ClientTyped
  <2>5. /\ r \in Runtime /\ r.state = seen'
        /\ r.token = rt.token /\ r.prevention = rt.prevention /\ r.life = rt.life
        /\ r.phase = rt.phase
        /\ (r.expectation <=> rt.expectation) /\ (r.available <=> rt.available)
        /\ (r.exited <=> rt.exited)
        /\ (r.cleanup <=> rt.cleanup) /\ (r.cleaned <=> rt.cleaned)
    BY <1>0, <2>3, <2>4, StateEffect
  <2>6. CASE r.life.deleted
    <3>1. (r.state = "halted" /\ empty) \in BOOLEAN
      OBVIOUS
    <3>2. PICK none \in BOOLEAN : none = (r.state = "halted" /\ empty)
      BY <3>1, Zenon
    <3>3. rt' = [r EXCEPT !.life.empty = none]
      BY <2>1, <2>3, <2>6, <3>2, Zenon DEF Listed
    <3>4. r.life \in Lifecycle
      BY <2>5 DEF Runtime
    <3>5. PICK life : life = [r.life EXCEPT !.empty = none]
      OBVIOUS
    <3>6. rt' = [r EXCEPT !.life = life]
      BY <3>3, <3>5
    <3>7. /\ life \in Lifecycle /\ (life.known <=> r.life.known) /\ (life.hit <=> r.life.hit)
          /\ (life.deleted <=> r.life.deleted) /\ (life.empty => none)
      BY <3>4, <3>5 DEF Lifecycle
    <3>8. /\ rt' \in Runtime /\ rt'.state = r.state /\ rt'.token = r.token
          /\ rt'.prevention = r.prevention /\ rt'.life = life /\ rt'.phase = r.phase
          /\ (rt'.expectation <=> r.expectation) /\ (rt'.available <=> r.available)
          /\ (rt'.exited <=> r.exited)
          /\ (rt'.cleanup <=> r.cleanup) /\ (rt'.cleaned <=> r.cleaned)
      BY <2>5, <3>6, <3>7 DEF Runtime
    <3>9. Keeps /\ Trusts /\ Marked /\ Expects /\ Exited /\ rt'.phase = rt.phase /\ rt'.state = seen'
      BY <2>5, <3>8 DEF Keeps, Trusts, Marked, Expects, Exited
    <3>10. none => empty
      BY <3>2, Zenon
    <3>11. /\ (rt'.life.known <=> rt.life.known) /\ (rt'.life.hit <=> rt.life.hit)
           /\ (rt'.life.deleted <=> rt.life.deleted) /\ rt.life.deleted
           /\ rt'.life.empty => empty
      BY <2>5, <2>6, <3>7, <3>8, <3>10
    <3>. QED
      BY <1>1, <2>1, <2>2, <3>9, <3>11
  <2>7. CASE ~r.life.deleted
    <3>1. rt' = r
      BY <2>1, <2>3, <2>7 DEF Listed
    <3>2. Keeps /\ Trusts /\ Marked /\ Expects /\ Exited /\ rt'.phase = rt.phase /\ rt'.state = seen'
      BY <2>5, <3>1 DEF Keeps, Trusts, Marked, Expects, Exited
    <3>3. rt'.life = rt.life /\ ~rt.life.deleted
      BY <2>5, <2>7, <3>1
    <3>. QED
      BY <1>1, <2>1, <2>2, <3>2, <3>3
  <2>. QED
    BY <2>6, <2>7
<1>3. CASE /\ Gone \/ AnswersQuietly
           /\ \E s \in {seen', "unknown"} :
                rt' = [rt EXCEPT !.state = IF op.tool = "list" THEN s ELSE seen']
           /\ story' = IF seen' = seen THEN story ELSE "none"
  <2>1. Quietly
    BY <1>3, QuietEffect
  <2>2. PICK s \in {seen', "unknown"} : rt' = [rt EXCEPT !.state = s]
    BY <1>3
  <2>3. s \in State
    BY <2>1 DEF Quietly, ClientTyped, State
  <2>4. Keeps /\ Trusts /\ Marked /\ Expects /\ Exited /\ Tells /\ rt'.state = s
    BY <1>0, <2>2, <2>3, StateEffect DEF Keeps, Trusts, Marked, Expects, Exited, Tells
  <2>. QED
    BY <1>1, <1>3, <2>1, <2>2, <2>4 DEF Tells
<1>. QED
  BY <1>2, <1>3 DEF Asked

LEMMA DeleteReplyEffect ==
  ASSUME Typed, DeleteReply
  PROVE  /\ Frame /\ Keeps /\ Trusts /\ Marked /\ Expects /\ Exited /\ Tells
         /\ UNCHANGED <<flashOff, planted>> /\ Quietly /\ rt'.state = seen'
         /\ story' = (IF seen' = seen THEN story ELSE "none")
         /\ op.tool = "delete" /\ op.at = "reply"
         /\ \/ op' \in DeletedOps /\ op'.tool = "delete" /\ op'.at = "persist"
            \/ op' \in IdleOps /\ op'.tool = "none"
<1>0. rt \in Runtime /\ ClientTyped
  BY DEF Typed, ProgramTyped
<1>1. /\ Frame /\ UNCHANGED <<flashOff, planted>> /\ op.tool = "delete" /\ op.at = "reply"
      /\ story' = (IF seen' = seen THEN story ELSE "none")
  BY DEF DeleteReply, Frame, process, At
<1>2. PICK sent \in BOOLEAN, result \in {"failed", "unconfirmed", "confirmed"} :
        /\ IF result = "failed" THEN Gone \/ AnswersQuietly
           ELSE seen = "halted" /\ Answers("halted")
        /\ op' = IF sent THEN [tool |-> "delete", at |-> "persist", result |-> result]
                 ELSE Idle
  BY DEF DeleteReply
<1>3. Quietly
  BY <1>2, QuietEffect, AnswersSameEffect
<1>4. \/ op' \in DeletedOps /\ op'.tool = "delete" /\ op'.at = "persist"
      \/ op' \in IdleOps /\ op'.tool = "none"
  BY <1>2 DEF DeletedOps, Idle, IdleOps
<1>5. rt' = [rt EXCEPT !.state = seen', !.expectation = FALSE] /\ seen' \in State
  BY <1>3 DEF DeleteReply, Quietly, ClientTyped
<1>6. Keeps /\ Trusts /\ Marked /\ Expects /\ Exited /\ Tells /\ rt'.state = seen'
  BY <1>0, <1>5 DEF Keeps, Trusts, Marked, Expects, Exited, Tells, Runtime
<1>. QED
  BY <1>1, <1>3, <1>4, <1>6

LEMMA DeletePersistEffect ==
  ASSUME Typed, DeletePersist
  PROVE  /\ Frame /\ Keeps /\ Trusts /\ Marked /\ Expects /\ Exited /\ rt'.phase = rt.phase
         /\ UNCHANGED <<flashOff, planted, lost>> /\ UNCHANGED gdb
         /\ rt'.state \in {rt.state, "unknown"}
         /\ op.tool = "delete" /\ op.at = "persist" /\ op' \in IdleOps /\ op'.tool = "none"
         /\ \/ /\ story' = (IF story # "none" THEN "deleted" ELSE story)
               /\ \/ /\ rt.life.hit /\ rt'.life.hit /\ rt'.life.deleted /\ ~rt'.life.empty
                     /\ (rt'.life.known <=> rt.life.known)
                  \/ ~rt.life.hit /\ rt'.life = rt.life
            \/ rt'.life = rt.life /\ story' = story
<1>0. rt \in Runtime /\ story \in Stories
  BY DEF Typed, ProgramTyped, FactsTyped
<1>1. /\ Frame /\ UNCHANGED <<flashOff, planted, lost>> /\ UNCHANGED gdb
      /\ op.tool = "delete" /\ op.at = "persist" /\ op' \in IdleOps /\ op'.tool = "none"
  BY FinishEffect DEF DeletePersist, Frame, process, At
<1>2. \/ rt' = Deleted(rt) /\ story' = (IF story \in {"hit", "deleted", "empty"} THEN "deleted" ELSE story)
      \/ rt' = [rt EXCEPT !.state = "unknown"] /\ story' = story
      \/ rt' = rt /\ story' = story
  BY Zenon DEF DeletePersist
<1>3. CASE rt' = rt /\ story' = story
  BY <1>0, <1>1, <1>3 DEF Keeps, Trusts, Marked, Expects, Exited
<1>4. CASE rt' = [rt EXCEPT !.state = "unknown"] /\ story' = story
  <2>1. "unknown" \in State
    BY DEF State
  <2>2. /\ Keeps /\ Trusts /\ Marked /\ Expects /\ Exited /\ Tells /\ rt'.state = "unknown"
    BY <1>0, <1>4, <2>1, StateEffect DEF Keeps, Trusts, Marked, Expects, Exited, Tells
  <2>. QED
    BY <1>1, <1>4, <2>2 DEF Tells
<1>5. CASE /\ rt' = Deleted(rt)
           /\ story' = (IF story \in {"hit", "deleted", "empty"} THEN "deleted" ELSE story)
  <2>1. story' = (IF story # "none" THEN "deleted" ELSE story)
    BY <1>0, <1>5 DEF Stories
  <2>2. CASE rt.life.hit
    <3>1. rt' = [rt EXCEPT !.life.deleted = TRUE, !.life.empty = FALSE]
      BY <1>5, <2>2, Zenon DEF Deleted
    <3>2. rt.life \in Lifecycle
      BY <1>0 DEF Runtime
    <3>3. PICK life : life = [rt.life EXCEPT !.deleted = TRUE, !.empty = FALSE]
      OBVIOUS
    <3>4. /\ life \in Lifecycle /\ (life.known <=> rt.life.known) /\ (life.hit <=> rt.life.hit)
          /\ life.deleted /\ ~life.empty
      BY <3>2, <3>3 DEF Lifecycle
    <3>5. rt' = [rt EXCEPT !.life = life]
      BY <1>0, <3>1, <3>2, <3>3, <3>4 DEF Runtime, Lifecycle
    <3>6. /\ Keeps /\ Trusts /\ Marked /\ Expects /\ Exited /\ rt'.phase = rt.phase
          /\ rt'.state = rt.state /\ rt'.life = life
      BY <1>0, <3>4, <3>5 DEF Keeps, Trusts, Marked, Expects, Exited, Runtime
    <3>. QED
      BY <1>1, <2>1, <2>2, <3>4, <3>6
  <2>3. CASE ~rt.life.hit
    <3>1. rt' = rt
      BY <1>5, <2>3 DEF Deleted
    <3>. QED
      BY <1>0, <1>1, <2>1, <2>3, <3>1 DEF Keeps, Trusts, Marked, Expects, Exited
  <2>. QED
    BY <2>2, <2>3
<1>. QED
  BY <1>2, <1>3, <1>4, <1>5
-----------------------------------------------------------------------------
(* Waiting for the managed breakpoint, and giving it up.                   *)
LEMMA EndedEffect ==
  ASSUME rt \in Runtime, NEW s \in State, NEW r, r = Ended(rt, s)
  PROVE  /\ r \in Runtime /\ r.state = s /\ r.life = NoLife /\ r.phase = "none"
         /\ r.token = rt.token /\ r.prevention = rt.prevention
         /\ (r.expectation <=> rt.expectation) /\ (r.available <=> rt.available)
         /\ (r.exited <=> rt.exited)
         /\ (r.cleanup <=> rt.cleanup) /\ (r.cleaned <=> rt.cleaned)
<1>1. NoLife \in Lifecycle
  BY DEF NoLife, Lifecycle
<1>. QED
  BY <1>1 DEF Ended, Runtime

LEMMA WaitEffect ==
  ASSUME Typed, Wait
  PROVE  /\ Frame /\ Keeps /\ Trusts /\ Marked /\ Expects /\ Exited
         /\ UNCHANGED gdb /\ UNCHANGED facts /\ client /\ op.tool = "none"
         /\ \/ /\ op' = op /\ Forgets /\ rt'.state = rt.state
            \/ /\ op' = op /\ seen = "halted" /\ Tells /\ rt'.state = "halted"
            \/ /\ rt' = rt /\ op' \in WaitOps /\ op'.tool = "wait" /\ op'.phase = rt.phase
<1>0. rt \in Runtime
  BY DEF Typed, ProgramTyped
<1>1. /\ Frame /\ UNCHANGED gdb /\ UNCHANGED facts /\ client /\ op.tool = "none"
  BY FreeIsIdle DEF Wait, Frame, process
<1>2. \/ rt' = Ended(rt, rt.state) /\ op' = op
      \/ seen = "halted" /\ rt' = [rt EXCEPT !.state = "halted"] /\ op' = op
      \/ op' = [tool |-> "wait", at |-> "reply", phase |-> rt.phase] /\ rt' = rt
  BY Zenon DEF Wait
<1>3. CASE rt' = Ended(rt, rt.state) /\ op' = op
  <2>1. rt.state \in State
    BY <1>0 DEF Runtime
  <2>2. Keeps /\ Trusts /\ Marked /\ Expects /\ Exited /\ Forgets /\ rt'.state = rt.state
    BY <1>0, <1>3, <2>1, EndedEffect DEF Keeps, Trusts, Marked, Expects, Exited, Forgets
  <2>. QED
    BY <1>1, <1>3, <2>2
<1>4. CASE seen = "halted" /\ rt' = [rt EXCEPT !.state = "halted"] /\ op' = op
  <2>1. "halted" \in State
    BY DEF State
  <2>2. Keeps /\ Trusts /\ Marked /\ Expects /\ Exited /\ Tells /\ rt'.state = "halted"
    BY <1>0, <1>4, <2>1, StateEffect DEF Keeps, Trusts, Marked, Expects, Exited, Tells
  <2>. QED
    BY <1>1, <1>4, <2>2
<1>5. CASE op' = [tool |-> "wait", at |-> "reply", phase |-> rt.phase] /\ rt' = rt
  BY <1>0, <1>1, <1>5 DEF Keeps, Trusts, Marked, Expects, Exited, WaitOps, Runtime, Phases
<1>. QED
  BY <1>2, <1>3, <1>4, <1>5

(* The stop that was waited for: only one at a breakpoint takes the life   *)
(* cycle further.                                                          *)
LEMMA StoppedEffect ==
  ASSUME rt \in Runtime, NEW r, r = Stopped(rt, reason)
  PROVE  /\ r \in Runtime /\ r.state = "halted" /\ r.phase = "none"
         /\ r.token = rt.token /\ r.prevention = rt.prevention
         /\ (r.expectation <=> rt.expectation) /\ (r.available <=> rt.available)
         /\ (r.exited <=> rt.exited)
         /\ (r.cleanup <=> rt.cleanup) /\ (r.cleaned <=> rt.cleaned)
         /\ \/ r.life = NoLife
            \/ /\ reason = "breakpoint" /\ rt.life.known /\ r.life.known /\ r.life.hit
               /\ (r.life.deleted <=> rt.life.deleted) /\ (r.life.empty <=> rt.life.empty)
            \/ /\ reason = "breakpoint" /\ op.phase = "awaiting" /\ r.life.known /\ r.life.hit
               /\ ~r.life.deleted /\ ~r.life.empty
<1>0. "halted" \in State /\ rt.life \in Lifecycle
  BY DEF State, Runtime
<1>1. PICK stopped : stopped = [rt EXCEPT !.state = "halted", !.phase = "none"]
  OBVIOUS
<1>2. /\ stopped \in Runtime /\ stopped.state = "halted" /\ stopped.phase = "none"
      /\ stopped.token = rt.token /\ stopped.prevention = rt.prevention
      /\ stopped.life = rt.life
      /\ (stopped.expectation <=> rt.expectation) /\ (stopped.available <=> rt.available)
      /\ (stopped.exited <=> rt.exited)
      /\ (stopped.cleanup <=> rt.cleanup) /\ (stopped.cleaned <=> rt.cleaned)
  BY <1>0, <1>1 DEF Runtime
<1>3. ASSUME NEW life \in Lifecycle, NEW q, q = [stopped EXCEPT !.life = life]
      PROVE  /\ q \in Runtime /\ q.state = "halted" /\ q.phase = "none"
             /\ q.token = rt.token /\ q.prevention = rt.prevention /\ q.life = life
             /\ (q.expectation <=> rt.expectation) /\ (q.available <=> rt.available)
             /\ (q.exited <=> rt.exited)
             /\ (q.cleanup <=> rt.cleanup) /\ (q.cleaned <=> rt.cleaned)
  BY <1>2, <1>3 DEF Runtime
<1>4. \/ r = Ended(rt, "halted")
      \/ reason = "breakpoint" /\ rt.life.known /\ r = [stopped EXCEPT !.life.hit = TRUE]
      \/ /\ reason = "breakpoint" /\ op.phase = "awaiting"
         /\ r = [stopped EXCEPT !.life = [Armed EXCEPT !.hit = TRUE]]
  BY <1>1, Zenon DEF Stopped, BreakpointStop
<1>5. CASE r = Ended(rt, "halted")
  BY <1>0, <1>5, EndedEffect
<1>6. CASE reason = "breakpoint" /\ rt.life.known /\ r = [stopped EXCEPT !.life.hit = TRUE]
  <2>1. PICK life : life = [rt.life EXCEPT !.hit = TRUE]
    OBVIOUS
  <2>2. /\ life \in Lifecycle /\ (life.known <=> rt.life.known) /\ life.hit
        /\ (life.deleted <=> rt.life.deleted) /\ (life.empty <=> rt.life.empty)
    BY <1>0, <2>1 DEF Lifecycle
  <2>3. r = [stopped EXCEPT !.life = life]
    BY <1>2, <1>6, <2>1
  <2>. QED
    BY <1>3, <1>6, <2>2, <2>3
<1>7. CASE /\ reason = "breakpoint" /\ op.phase = "awaiting"
           /\ r = [stopped EXCEPT !.life = [Armed EXCEPT !.hit = TRUE]]
  <2>1. PICK life : life = [Armed EXCEPT !.hit = TRUE]
    OBVIOUS
  <2>2. life \in Lifecycle /\ life.known /\ life.hit /\ ~life.deleted /\ ~life.empty
    BY <2>1 DEF Armed, NoLife, Lifecycle
  <2>3. r = [stopped EXCEPT !.life = life]
    BY <1>7, <2>1
  <2>. QED
    BY <1>3, <1>7, <2>2, <2>3
<1>. QED
  BY <1>4, <1>5, <1>6, <1>7

LEMMA WaitReplyEffect ==
  ASSUME Typed, WaitReply
  PROVE  /\ Frame /\ Keeps /\ Trusts /\ Marked /\ Expects /\ Exited
         /\ UNCHANGED facts /\ UNCHANGED <<client, seen, mine>> /\ reason' \in {reason, "none"}
         /\ rt'.state = seen /\ rt'.phase \in {rt.phase, "none"}
         /\ op.tool = "wait" /\ op' \in IdleOps /\ op'.tool = "none"
         /\ \/ rt'.life = NoLife
            \/ seen = "running" /\ rt'.life = rt.life
            \/ /\ seen = "halted" /\ reason = "breakpoint" /\ rt.life.known
               /\ rt'.life.known /\ rt'.life.hit
               /\ (rt'.life.deleted <=> rt.life.deleted) /\ (rt'.life.empty <=> rt.life.empty)
            \/ /\ seen = "halted" /\ reason = "breakpoint" /\ op.phase = "awaiting"
               /\ rt'.life.known /\ rt'.life.hit /\ ~rt'.life.deleted /\ ~rt'.life.empty
<1>0. rt \in Runtime /\ seen \in State
  BY DEF Typed, ProgramTyped, ClientTyped
<1>1. /\ Frame /\ UNCHANGED facts /\ UNCHANGED <<client, seen, mine>>
      /\ op.tool = "wait" /\ op' \in IdleOps /\ op'.tool = "none"
  BY FinishEffect DEF WaitReply, Frame, process, At
<1>2. CASE rt' = Ended(rt, seen) /\ reason' = reason
  <2>1. Keeps /\ Trusts /\ Marked /\ Expects /\ Exited /\ Forgets /\ rt'.state = seen
    BY <1>0, <1>2, EndedEffect DEF Keeps, Trusts, Marked, Expects, Exited, Forgets
  <2>. QED
    BY <1>1, <1>2, <2>1 DEF Forgets
<1>3. CASE seen = "halted" /\ rt' = Stopped(rt, reason) /\ reason' = "none"
  <2>1. Keeps /\ Trusts /\ Marked /\ Expects /\ Exited /\ rt'.state = seen /\ rt'.phase = "none"
    BY <1>0, <1>3, StoppedEffect DEF Keeps, Trusts, Marked, Expects, Exited
  <2>2. \/ rt'.life = NoLife
        \/ /\ reason = "breakpoint" /\ rt.life.known /\ rt'.life.known /\ rt'.life.hit
           /\ (rt'.life.deleted <=> rt.life.deleted) /\ (rt'.life.empty <=> rt.life.empty)
        \/ /\ reason = "breakpoint" /\ op.phase = "awaiting" /\ rt'.life.known /\ rt'.life.hit
           /\ ~rt'.life.deleted /\ ~rt'.life.empty
    BY <1>0, <1>3, StoppedEffect
  <2>. QED
    BY <1>1, <1>3, <2>1, <2>2
<1>4. CASE /\ seen = "running" /\ reason' = reason
           /\ rt' = [rt EXCEPT !.state = "running",
                               !.phase = IF op.phase = "awaiting" THEN rt.phase ELSE "none"]
  <2>1. PICK phase \in {rt.phase, "none"} :
          phase = IF op.phase = "awaiting" THEN rt.phase ELSE "none"
    OBVIOUS
  <2>2. rt' = [rt EXCEPT !.state = "running", !.phase = phase]
    BY <1>4, <2>1, Zenon
  <2>3. /\ Keeps /\ Trusts /\ Marked /\ Expects /\ Exited /\ rt'.state = seen /\ rt'.phase = phase
        /\ rt'.life = rt.life
    BY <1>0, <1>4, <2>1, <2>2 DEF Keeps, Trusts, Marked, Expects, Exited, Runtime
  <2>. QED
    BY <1>1, <1>4, <2>1, <2>3
<1>. QED
  BY <1>2, <1>3, <1>4 DEF WaitReply

LEMMA AbortEffect ==
  ASSUME Typed, Abort
  PROVE  /\ Frame /\ rt' = rt /\ UNCHANGED facts /\ ClientTyped' /\ client
         /\ UNCHANGED <<client, seen, mine>> /\ reason' \in {reason, "none"}
         /\ op.tool = "none" /\ op' \in AbortOps /\ op'.tool = "abort" /\ op'.before = seen
         /\ op'.at = (IF seen = "running" THEN "interrupt" ELSE "clear")
<1>0. ClientTyped
  BY DEF Typed
<1>1. /\ Frame /\ rt' = rt /\ UNCHANGED facts /\ client /\ op.tool = "none"
  BY FreeIsIdle DEF Abort, Frame, program, process
<1>2. /\ ClientTyped' /\ UNCHANGED <<client, seen, mine>> /\ reason' \in {reason, "none"}
  BY <1>0, DispatchedEffect DEF Abort, gdb, ClientTyped
<1>3. /\ op' \in AbortOps /\ op'.tool = "abort" /\ op'.before = seen
      /\ op'.at = (IF seen = "running" THEN "interrupt" ELSE "clear")
  BY <1>0 DEF Abort, AbortOps, ClientTyped
<1>. QED
  BY <1>1, <1>2, <1>3

LEMMA AbortInterruptEffect ==
  ASSUME Typed, AbortInterrupt
  PROVE  /\ Frame /\ Keeps /\ Trusts /\ Marked /\ Expects /\ Exited /\ Tells
         /\ UNCHANGED <<flashOff, planted>> /\ rt'.state = seen'
         /\ story' = (IF seen' = seen THEN story ELSE "none")
         /\ op.tool = "abort"
         /\ \/ /\ ClientTyped' /\ client /\ client' /\ seen' = "halted" /\ lost' = lost
               /\ reason' = "breakpoint" => reason = "breakpoint" /\ seen' = seen
               /\ op' \in AbortOps /\ op'.tool = "abort" /\ op'.at = "clear" /\ op'.before = op.before
            \/ Quietly /\ op' \in IdleOps /\ op'.tool = "none"
<1>0. rt \in Runtime /\ ClientTyped /\ op \in Ops
  BY DEF Typed, ProgramTyped
<1>1. /\ Frame /\ UNCHANGED <<flashOff, planted>> /\ op.tool = "abort" /\ op \in AbortOps
      /\ story' = (IF seen' = seen THEN story ELSE "none")
  BY <1>0, OpKinds DEF AbortInterrupt, Frame, process, At
<1>2. \/ /\ ClientTyped' /\ client /\ client' /\ seen' = "halted" /\ lost' = lost
         /\ reason' = "breakpoint" => reason = "breakpoint" /\ seen' = seen
         /\ op' \in AbortOps /\ op'.tool = "abort" /\ op'.at = "clear" /\ op'.before = op.before
      \/ Quietly /\ op' \in IdleOps /\ op'.tool = "none"
  <2>1. CASE Answers("halted") /\ Goto("clear")
    <3>1. "halted" \in State
      BY DEF State
    <3>. QED
      BY <1>0, <1>1, <2>1, <3>1, AnswersEffect, GotoEffect
  <2>2. CASE (Gone \/ AnswersQuietly) /\ Finish
    BY <2>2, QuietEffect, FinishEffect
  <2>. QED
    BY <2>1, <2>2 DEF AbortInterrupt, Interrupted, InterruptFails
<1>3. rt' = [rt EXCEPT !.state = seen'] /\ seen' \in State
  BY <1>2 DEF AbortInterrupt, Quietly, ClientTyped
<1>4. Keeps /\ Trusts /\ Marked /\ Expects /\ Exited /\ Tells /\ rt'.state = seen'
  BY <1>0, <1>3, StateEffect DEF Keeps, Trusts, Marked, Expects, Exited, Tells
<1>. QED
  BY <1>1, <1>2, <1>4

LEMMA AbortClearEffect ==
  ASSUME Typed, AbortClear
  PROVE  /\ Frame /\ Keeps /\ Trusts /\ Expects /\ Exited
         /\ flashOff' = flashOff /\ rt'.state = seen'
         /\ story' = (IF seen' = seen THEN story ELSE "none")
         /\ op.tool = "abort"
         /\ \/ /\ Cleared /\ (rt'.cleanup <=> rt.cleanup) /\ rt'.cleaned
               /\ \/ /\ Tells /\ op.before = "running"
                     /\ op' \in AbortOps /\ op'.tool = "abort" /\ op'.before = op.before
                  \/ Forgets /\ op' \in IdleOps /\ op'.tool = "none"
            \/ NotCleared /\ Marked /\ Tells /\ op' \in IdleOps /\ op'.tool = "none"
<1>0. rt \in Runtime /\ ClientTyped /\ op \in Ops
  BY DEF Typed, ProgramTyped
<1>1. /\ Frame /\ flashOff' = flashOff /\ op.tool = "abort" /\ op \in AbortOps
      /\ story' = (IF seen' = seen THEN story ELSE "none")
  BY <1>0, OpKinds DEF AbortClear, Frame, process, At
<1>2. CASE /\ Cleared
           /\ \/ /\ op.before = "running" /\ Goto("resume")
                 /\ rt' = [rt EXCEPT !.state = "halted", !.cleaned = TRUE]
              \/ /\ Finish
                 /\ rt' = Ended([rt EXCEPT !.state = "halted", !.cleaned = TRUE], "halted")
  <2>0. seen' = "halted" /\ "halted" \in State /\ NoLife \in Lifecycle
    BY <1>2, ClearedEffect DEF State, NoLife, Lifecycle
  <2>1. PICK r : r = [rt EXCEPT !.state = "halted", !.cleaned = TRUE]
    OBVIOUS
  <2>2. /\ r \in Runtime /\ r.state = "halted"
        /\ r.token = rt.token /\ r.prevention = rt.prevention /\ r.life = rt.life
        /\ r.phase = rt.phase
        /\ (r.expectation <=> rt.expectation) /\ (r.available <=> rt.available)
        /\ (r.exited <=> rt.exited) /\ (r.cleanup <=> rt.cleanup) /\ r.cleaned
    BY <1>0, <2>0, <2>1 DEF Runtime
  <2>3. CASE op.before = "running" /\ Goto("resume") /\ rt' = r
    <3>1. /\ Keeps /\ Trusts /\ Expects /\ Exited /\ Tells /\ rt'.state = "halted"
          /\ (rt'.cleanup <=> rt.cleanup) /\ rt'.cleaned
      BY <2>2, <2>3 DEF Keeps, Trusts, Expects, Exited, Tells
    <3>. QED
      BY <1>0, <1>1, <1>2, <2>0, <2>3, <3>1, GotoEffect
  <2>4. CASE Finish /\ rt' = Ended(r, "halted")
    <3>1. rt' = [r EXCEPT !.state = "halted", !.life = NoLife, !.phase = "none"]
      BY <2>4 DEF Ended
    <3>2. /\ Keeps /\ Trusts /\ Expects /\ Exited /\ Forgets /\ rt'.state = "halted"
          /\ (rt'.cleanup <=> rt.cleanup) /\ rt'.cleaned
      BY <2>0, <2>2, <3>1 DEF Keeps, Trusts, Expects, Exited, Forgets, Runtime
    <3>. QED
      BY <1>1, <1>2, <2>0, <2>4, <3>2, FinishEffect
  <2>. QED
    BY <1>2, <2>1, <2>3, <2>4
<1>3. CASE NotCleared /\ Finish /\ rt' = [rt EXCEPT !.state = seen']
  <2>1. seen' \in State
    BY <1>3, NotClearedEffect DEF ClientTyped
  <2>2. Keeps /\ Trusts /\ Marked /\ Expects /\ Exited /\ Tells /\ rt'.state = seen'
    BY <1>0, <1>3, <2>1, StateEffect DEF Keeps, Trusts, Marked, Expects, Exited, Tells
  <2>. QED
    BY <1>1, <1>3, <2>2, FinishEffect
<1>. QED
  BY <1>2, <1>3, Zenon DEF AbortClear
-----------------------------------------------------------------------------
(* A server starts, and the processes and the shutdown go their own way.   *)
LEMMA StartServerEffect ==
  ASSUME Typed, StartServer
  PROVE  /\ UNCHANGED program /\ UNCHANGED gdb /\ UNCHANGED facts
         /\ owner = 0 /\ servers \in Nat /\ servers' = servers + 1 /\ servers' \in 0 .. MaxServers
         /\ server' \in {server, servers'} /\ server' # 0 /\ (Live => server' = server)
         /\ lastExit' \in {"none", lastExit}
         /\ op.tool = "none" /\ op' \in StartOps /\ op'.tool = "start" /\ op'.at = "publish"
<1>1. /\ UNCHANGED program /\ UNCHANGED gdb /\ UNCHANGED facts /\ owner = 0 /\ op.tool = "none"
      /\ op' \in StartOps /\ op'.tool = "start" /\ op'.at = "publish"
  BY FreeIsIdle DEF StartServer, StartOps
<1>2. servers \in Nat /\ servers' = servers + 1 /\ servers' \in 0 .. MaxServers
  BY BoundsOK DEF StartServer, Typed, ProcessTyped
<1>3. /\ server' = (IF server = 0 THEN servers' ELSE server)
      /\ lastExit' = (IF server = 0 THEN "none" ELSE lastExit)
  BY DEF StartServer
<1>. QED
  BY <1>1, <1>2, <1>3 DEF Live

LEMMA KillServerEffect ==
  ASSUME Typed, KillServer
  PROVE  /\ server' = 0 /\ lastExit' \in {lastExit, "killed"}
         /\ flashOff' = FALSE /\ planted' = FALSE
BY DEF KillServer

LEMMA PublishEffect ==
  ASSUME Typed, Publish
  PROVE  /\ UNCHANGED <<servers, exits, closing, story>> /\ UNCHANGED gdb
         /\ op.tool = "start" /\ op' \in IdleOps /\ op'.tool = "none"
         /\ \/ /\ Live /\ owner' = servers /\ lost' = "no"
               /\ UNCHANGED <<server, lastExit, flashOff, planted>>
               /\ rt' \in Runtime /\ rt'.token = servers /\ rt'.prevention = NoBound
               /\ rt'.life = NoLife /\ rt'.phase = "none" /\ ~rt'.cleanup
            \/ KillServer /\ UNCHANGED <<owner, rt, lost>>
<1>1. /\ UNCHANGED <<servers, exits, closing, story>> /\ UNCHANGED gdb
      /\ op.tool = "start" /\ op' \in IdleOps /\ op'.tool = "none"
  BY FinishEffect DEF Publish, At
<1>2. CASE /\ server # 0 /\ owner' = servers
           /\ rt' = [NewRuntime(servers, server) EXCEPT !.stopping = rt.stopping]
           /\ lost' = "no" /\ UNCHANGED <<server, lastExit, flashOff, planted>>
  <2>1. servers \in 0 .. MaxServers /\ server \in 0 .. MaxServers
    BY BoundsOK DEF Typed, ProcessTyped
  <2>2. rt.stopping \in BOOLEAN
    BY DEF Typed, ProgramTyped, Runtime
  <2>3. /\ rt' \in Runtime /\ rt'.token = servers /\ rt'.prevention = NoBound
        /\ rt'.life = NoLife /\ rt'.phase = "none" /\ ~rt'.cleanup
    <3>1. PICK stopping \in BOOLEAN : stopping = rt.stopping
      BY <2>2, Zenon
    <3>2. rt' = [NewRuntime(servers, server) EXCEPT !.stopping = stopping]
      BY <1>2, <3>1, Zenon
    <3>3. PICK r : r = NewRuntime(servers, server)
      OBVIOUS
    <3>4. /\ r \in Runtime /\ r.token = servers /\ r.prevention = NoBound
          /\ r.life = NoLife /\ r.phase = "none" /\ ~r.cleanup
      BY <2>1, <3>3, NewRuntimeTyped
    <3>5. rt' = [r EXCEPT !.stopping = stopping]
      BY <3>2, <3>3, Zenon
    <3>. QED
      BY <3>4, <3>5 DEF Runtime
  <2>. QED
    BY <1>1, <1>2, <2>3 DEF Live
<1>3. CASE KillServer /\ UNCHANGED <<owner, rt, lost>>
  BY <1>1, <1>3
<1>. QED
  BY <1>2, <1>3 DEF Publish

LEMMA UnprovenEffect ==
  ASSUME rt \in Runtime, NEW r, r = Unproven(rt)
  PROVE  /\ r \in Runtime /\ r.token = rt.token /\ r.prevention = NoBound
         /\ r.life = NoLife /\ r.phase = "none" /\ r.state = "unknown"
         /\ ~r.expectation /\ ~r.available
         /\ (r.cleanup <=> rt.cleanup) /\ (r.cleaned <=> rt.cleaned)
<1>1. NoLife \in Lifecycle /\ NoBound \in Bound /\ "unknown" \in State
  BY BoundsOK DEF NoLife, Lifecycle, NoBound, Bound, State
<1>. QED
  BY <1>1 DEF Unproven, Runtime

LEMMA ClientExitEffect ==
  ASSUME Typed, ClientExit
  PROVE  /\ Frame /\ Keeps /\ Marked /\ Forgets /\ UNCHANGED <<flashOff, planted>> /\ op' = op
         /\ Disconnected /\ client /\ story' = "none" /\ lost' = "exited"
         /\ rt'.prevention = NoBound /\ rt'.state = "unknown" /\ rt'.exited
         /\ ~rt'.expectation /\ ~rt'.available
<1>0. rt \in Runtime
  BY DEF Typed, ProgramTyped
<1>1. /\ Frame /\ UNCHANGED <<flashOff, planted>> /\ op' = op
      /\ Disconnected /\ client /\ story' = "none" /\ lost' = "exited"
  BY DEF ClientExit, Frame, process
<1>2. PICK r : r = Unproven(rt)
  OBVIOUS
<1>3. /\ r \in Runtime /\ r.token = rt.token /\ r.prevention = NoBound
      /\ r.life = NoLife /\ r.phase = "none" /\ r.state = "unknown"
      /\ ~r.expectation /\ ~r.available
      /\ (r.cleanup <=> rt.cleanup) /\ (r.cleaned <=> rt.cleaned)
  BY <1>0, <1>2, UnprovenEffect
<1>4. rt' = [r EXCEPT !.exited = TRUE]
  BY <1>2 DEF ClientExit, ClientLost
<1>5. /\ rt' \in Runtime /\ rt'.token = r.token /\ rt'.prevention = r.prevention
      /\ rt'.life = r.life /\ rt'.phase = r.phase /\ rt'.state = r.state /\ rt'.exited
      /\ (rt'.expectation <=> r.expectation) /\ (rt'.available <=> r.available)
      /\ (rt'.cleanup <=> r.cleanup) /\ (rt'.cleaned <=> r.cleaned)
  BY <1>3, <1>4 DEF Runtime
<1>. QED
  BY <1>1, <1>3, <1>5 DEF Keeps, Marked, Forgets

LEMMA ServerExitEffect ==
  ASSUME Typed, ServerExit
  PROVE  /\ UNCHANGED <<servers, owner, closing, lost>> /\ UNCHANGED gdb /\ op' = op
         /\ server' = 0 /\ lastExit' \in {"clean", "failed"} /\ flashOff' = FALSE
         /\ planted' = FALSE /\ story' = "none"
         /\ Keeps /\ Marked
         /\ \/ /\ rt.token # 0 /\ exits' = exits \cup {rt.token} /\ Forgets
               /\ rt'.prevention = NoBound /\ rt'.state = "unknown"
               /\ ~rt'.expectation /\ ~rt'.available
            \/ UNCHANGED <<rt, exits>>
<1>0. rt \in Runtime
  BY DEF Typed, ProgramTyped
<1>1. /\ UNCHANGED <<servers, owner, closing, lost>> /\ UNCHANGED gdb /\ op' = op
      /\ server' = 0 /\ lastExit' \in {"clean", "failed"} /\ flashOff' = FALSE
      /\ planted' = FALSE /\ story' = "none"
  BY DEF ServerExit
<1>2. CASE rt.token # 0 /\ rt' = ServerLost(rt) /\ exits' = exits \cup {rt.token}
  <2>1. PICK r : r = Unproven(rt)
    OBVIOUS
  <2>2. /\ r \in Runtime /\ r.token = rt.token /\ r.prevention = NoBound
        /\ r.life = NoLife /\ r.phase = "none" /\ r.state = "unknown"
        /\ ~r.expectation /\ ~r.available
        /\ (r.cleanup <=> rt.cleanup) /\ (r.cleaned <=> rt.cleaned)
    BY <1>0, <2>1, UnprovenEffect
  <2>3. rt' = [r EXCEPT !.boundary = NoBound, !.natural = FALSE]
    BY <1>2, <2>1 DEF ServerLost
  <2>4. NoBound \in Bound
    BY BoundsOK DEF NoBound, Bound
  <2>5. /\ rt' \in Runtime /\ rt'.token = r.token /\ rt'.prevention = r.prevention
        /\ rt'.life = r.life /\ rt'.phase = r.phase /\ rt'.state = r.state
        /\ (rt'.expectation <=> r.expectation) /\ (rt'.available <=> r.available)
        /\ (rt'.cleanup <=> r.cleanup) /\ (rt'.cleaned <=> r.cleaned)
    BY <2>2, <2>3, <2>4 DEF Runtime
  <2>. QED
    BY <1>1, <1>2, <2>2, <2>5 DEF Keeps, Marked, Forgets
<1>3. CASE UNCHANGED <<rt, exits>>
  BY <1>0, <1>1, <1>3 DEF Keeps, Marked
<1>4. \/ rt.token # 0 /\ rt' = ServerLost(rt) /\ exits' = exits \cup {rt.token}
      \/ UNCHANGED <<rt, exits>>
  BY Zenon DEF ServerExit
<1>. QED
  BY <1>2, <1>3, <1>4

LEMMA ExitHandledEffect ==
  ASSUME Typed, ExitHandled
  PROVE  /\ UNCHANGED <<closing, servers, server, lastExit>> /\ UNCHANGED gdb /\ op' = op
         /\ UNCHANGED facts /\ exits' \subseteq exits
         /\ rt' \in Runtime /\ Trusts /\ Marked /\ Tells /\ Expects /\ Exited
         /\ rt'.state = rt.state /\ rt'.token \in {rt.token, 0}
         /\ owner' = owner \/ (owner' = 0 /\ owner \in exits)
<1>0. rt \in Runtime /\ 0 \in 0 .. MaxServers
  BY BoundsOK DEF Typed, ProgramTyped
<1>1. /\ UNCHANGED <<closing, servers, server, lastExit>> /\ UNCHANGED gdb /\ op' = op
      /\ UNCHANGED facts
  BY DEF ExitHandled, process
<1>2. PICK token \in exits :
        /\ exits' = exits \ {token}
        /\ \/ /\ owner' = ReleasedBy(token)
              /\ rt' = [rt EXCEPT !.token = IF rt.token = token THEN 0 ELSE rt.token]
           \/ UNCHANGED <<owner, rt>>
  BY DEF ExitHandled
<1>3. exits' \subseteq exits
  BY <1>2
<1>4. owner' = owner \/ (owner' = 0 /\ owner \in exits)
  BY <1>2 DEF ReleasedBy
<1>5. PICK t \in {rt.token, 0} : t = IF rt.token = token THEN 0 ELSE rt.token
  OBVIOUS
<1>6. CASE rt' = [rt EXCEPT !.token = t]
  <2>1. t \in 0 .. MaxServers
    BY <1>0, <1>5 DEF Runtime
  <2>2. /\ rt' \in Runtime /\ Trusts /\ Marked /\ Tells /\ Expects /\ Exited
        /\ rt'.state = rt.state /\ rt'.token = t
    BY <1>0, <1>6, <2>1 DEF Trusts, Marked, Tells, Expects, Exited, Runtime
  <2>. QED
    BY <1>1, <1>3, <1>4, <1>5, <2>2
<1>7. CASE rt' = rt
  BY <1>0, <1>1, <1>3, <1>4, <1>7 DEF Trusts, Marked, Tells, Expects, Exited
<1>8. rt' = [rt EXCEPT !.token = t] \/ rt' = rt
  BY <1>2, <1>5
<1>. QED
  BY <1>6, <1>7, <1>8

LEMMA TargetStopsEffect ==
  ASSUME Typed, TargetStops
  PROVE  /\ Frame /\ UNCHANGED <<rt, op, flashOff, planted, lost, client, mine>> /\ client
         /\ seen = "running" /\ seen' = "halted" /\ reason' \in {"other", "breakpoint"}
         /\ story' = (IF reason' = "breakpoint" THEN "hit" ELSE "none")
BY DEF TargetStops, Frame, program, process

LEMMA ShutdownBeginsEffect ==
  ASSUME Typed, ShutdownBegins
  PROVE  /\ UNCHANGED <<servers, server, lastExit, owner, exits, flashOff, planted, lost, op>>
         /\ Keeps /\ Trusts /\ Marked /\ Tells /\ Expects /\ Exited /\ rt'.state = rt.state
         /\ Disconnected /\ story' = "none" /\ closing' = "killing" /\ CanSafelyDispose
<1>0. rt \in Runtime
  BY DEF Typed, ProgramTyped
<1>1. rt' = [rt EXCEPT !.stopping = TRUE]
  BY DEF ShutdownBegins
<1>2. Keeps /\ Trusts /\ Marked /\ Tells /\ Expects /\ Exited /\ rt'.state = rt.state
  BY <1>0, <1>1 DEF Keeps, Trusts, Marked, Tells, Expects, Exited, Runtime
<1>. QED
  BY <1>2 DEF ShutdownBegins, process

LEMMA ShutdownKillsEffect ==
  ASSUME Typed, ShutdownKills
  PROVE  /\ UNCHANGED <<servers, exits, story, lost, op>> /\ UNCHANGED gdb
         /\ KillServer /\ owner' \in {owner, 0} /\ closing = "killing" /\ closing' = "closed"
         /\ rt' \in Runtime /\ rt'.token = 0 /\ rt'.state = rt.state
         /\ Trusts /\ Marked /\ Tells /\ Expects /\ Exited
<1>0. rt \in Runtime /\ 0 \in 0 .. MaxServers
  BY BoundsOK DEF Typed, ProgramTyped
<1>1. rt' = [rt EXCEPT !.token = 0, !.stopping = FALSE]
  BY DEF ShutdownKills
<1>2. /\ rt' \in Runtime /\ rt'.token = 0 /\ rt'.state = rt.state
      /\ Trusts /\ Marked /\ Tells /\ Expects /\ Exited
  BY <1>0, <1>1 DEF Trusts, Marked, Tells, Expects, Exited, Runtime
<1>3. owner' \in {owner, 0}
  BY DEF ShutdownKills, ReleasedBy
<1>. QED
  BY <1>2, <1>3 DEF ShutdownKills
-----------------------------------------------------------------------------
(* The types are kept.                                                     *)
LEMMA OpsUnion ==
  ASSUME NEW o, \/ o \in IdleOps \/ o \in StartOps \/ o \in StopOps \/ o \in ConnectOps
                \/ o \in SendOps \/ o \in SentOps \/ o \in AskOps \cup DeleteOps
                \/ o \in DeletedOps \/ o \in WaitOps \/ o \in AbortOps
  PROVE  o \in Ops
BY DEF Ops

LEMMA BoundServers ==
  ASSUME Typed
  PROVE  NoBound.server = 0 /\ Current.server = server /\ Current.server <= servers /\ 0 <= servers
         /\ servers \in Nat
BY BoundsOK DEF NoBound, Current, Typed, ProcessTyped

(* The processes and the owner stay, and the record its token.             *)
LEMMA FrameProgramTyped ==
  ASSUME Typed, Frame, Keeps, Trusts \/ rt'.prevention \in {NoBound, Current}
  PROVE  ProgramTyped' /\ ProcessTyped'
BY BoundServers DEF Typed, Frame, Keeps, Trusts, ProgramTyped, ProcessTyped

LEMMA ClientSame ==
  ASSUME Typed, UNCHANGED <<client, seen, mine>>, reason' \in {reason, "none"}
  PROVE  ClientTyped'
BY DEF Typed, ClientTyped

LEMMA GdbSame ==
  ASSUME Typed, UNCHANGED gdb
  PROVE  ClientTyped' /\ UNCHANGED <<client, seen, mine, reason>>
BY DEF gdb, Typed, ClientTyped

LEMMA FactsSame ==
  ASSUME Typed, UNCHANGED facts
  PROVE  FactsTyped' /\ UNCHANGED <<flashOff, planted, story, lost>>
<1>1. UNCHANGED <<flashOff, planted, story, lost>>
  BY DEF facts
<1>. QED
  BY <1>1 DEF Typed, FactsTyped

LEMMA FactTyped ==
  ASSUME Typed, flashOff' = flashOff \/ flashOff' \in BOOLEAN,
         planted' = planted \/ planted' \in BOOLEAN,
         story' \in Stories \/ story' \in {story, "none"},
         lost' \in {lost, "no", "ended", "exited"}
  PROVE  FactsTyped'
<1>1. FactsTyped
  BY DEF Typed
<1>2. flashOff' \in BOOLEAN
  <2>1. flashOff \in BOOLEAN
    BY <1>1 DEF FactsTyped
  <2>2. CASE flashOff' = flashOff
    BY <2>1, <2>2, Zenon
  <2>3. CASE flashOff' \in BOOLEAN
    BY <2>3
  <2>. QED
    BY <2>2, <2>3
<1>3. planted' \in BOOLEAN
  <2>1. planted \in BOOLEAN
    BY <1>1 DEF FactsTyped
  <2>2. CASE planted' = planted
    BY <2>1, <2>2, Zenon
  <2>3. CASE planted' \in BOOLEAN
    BY <2>3
  <2>. QED
    BY <2>2, <2>3
<1>4. story' \in Stories /\ lost' \in {"no", "exited", "ended"}
  BY <1>1 DEF FactsTyped, Stories
<1>. QED
  BY <1>2, <1>3, <1>4 DEF FactsTyped

LEMMA TypedParts ==
  ASSUME ProgramTyped', ProcessTyped', ClientTyped', FactsTyped', op' \in Ops
  PROVE  Typed'
BY DEF Typed

LEMMA StoryTyped ==
  ASSUME Typed
  PROVE  story \in Stories /\ lost \in {"no", "exited", "ended"} /\ op \in Ops
BY DEF Typed, FactsTyped

LEMMA StoppingTyped ==
  ASSUME Typed, Stopping
  PROVE  Typed'
<1>1. CASE StopServer
  <2>1. FactsTyped' /\ ProgramTyped' /\ ProcessTyped'
    BY <1>1, StopServerEffect, FactsSame, FrameProgramTyped
  <2>2. op' \in Ops
    BY <1>1, StopServerEffect, OpsUnion
  <2>3. ClientTyped'
    BY <1>1, StopServerEffect, GdbSame, DispatchedEffect DEF Typed
  <2>. QED
    BY <2>1, <2>2, <2>3, TypedParts
<1>2. CASE StopClear
  <2>1. ProgramTyped' /\ ProcessTyped'
    BY <1>2, StopClearEffect, FrameProgramTyped
  <2>2. op' \in Ops
    BY <1>2, StopClearEffect, OpsUnion
  <2>3. ClientTyped'
    BY <1>2, StopClearEffect, ClearedEffect, NotClearedEffect
  <2>4. FactsTyped'
    <3>1. planted' \in BOOLEAN /\ lost' \in {lost, "no", "ended", "exited"}
      BY <1>2, StopClearEffect, ClearedEffect, NotClearedEffect
    <3>2. flashOff' = flashOff /\ story' \in {story, "none"}
      BY <1>2, StopClearEffect
    <3>. QED
      BY <3>1, <3>2, FactTyped
  <2>. QED
    BY <2>1, <2>2, <2>3, <2>4, TypedParts
<1>3. CASE StopDisconnect \/ StopAwait \/ StopObserve
  <2>1. ProgramTyped' /\ ProcessTyped'
    BY <1>3, StopOnEffect, FrameProgramTyped
  <2>2. op' \in Ops
    BY <1>3, StopOnEffect, OpsUnion
  <2>3. ClientTyped'
    BY <1>3, StopOnEffect, DisconnectedEffect, GdbSame DEF Typed
  <2>4. FactsTyped'
    BY <1>3, StopOnEffect, FactTyped
  <2>. QED
    BY <2>1, <2>2, <2>3, <2>4, TypedParts
<1>4. CASE StopKill
  <2>0. ClientTyped' /\ op' \in Ops
    BY <1>4, StopKillEffect, GdbSame, OpsUnion
  <2>1. FactsTyped'
    BY <1>4, StopKillEffect, KillServerEffect, FactTyped
  <2>2. CASE /\ KillServer /\ owner' \in {owner, 0} /\ rt'.token = 0 /\ rt'.prevention = NoBound
    <3>1. /\ server' = 0 /\ lastExit' \in {lastExit, "killed"} /\ rt' \in Runtime
          /\ UNCHANGED <<servers, exits, closing>>
      BY <1>4, <2>2, StopKillEffect, KillServerEffect
    <3>2. ProgramTyped' /\ ProcessTyped'
      BY <2>2, <3>1, BoundServers DEF Typed, ProgramTyped, ProcessTyped
    <3>. QED
      BY <2>0, <2>1, <3>2, TypedParts
  <2>3. CASE UNCHANGED <<server, lastExit, flashOff, planted, owner>> /\ Keeps /\ Trusts
    <3>1. Frame
      BY <1>4, <2>3, StopKillEffect DEF Frame
    <3>. QED
      BY <2>0, <2>1, <2>3, <3>1, FrameProgramTyped, TypedParts
  <2>. QED
    BY <1>4, <2>2, <2>3, StopKillEffect
<1>. QED
  BY <1>1, <1>2, <1>3, <1>4 DEF Stopping

LEMMA ConnectingTyped ==
  ASSUME Typed, Connecting
  PROVE  Typed'
<1>1. CASE Connect
  <2>1. ProgramTyped' /\ ProcessTyped' /\ FactsTyped' /\ ClientTyped' /\ op' \in Ops
    BY <1>1, ConnectEffect, FrameProgramTyped, FactsSame, GdbSame, OpsUnion
  <2>. QED
    BY <2>1, TypedParts
<1>2. CASE ConnectFails
  <2>1. ProgramTyped' /\ ProcessTyped' /\ ClientTyped' /\ op' \in Ops
    BY <1>2, ConnectFailsEffect, FrameProgramTyped, OpsUnion
  <2>2. FactsTyped'
    <3>1. story' \in {story, "none"} /\ lost' \in {lost, "no", "ended", "exited"}
          /\ UNCHANGED <<flashOff, planted>>
      BY <1>2, ConnectFailsEffect
    <3>. QED
      BY <3>1, FactTyped
  <2>. QED
    BY <2>1, <2>2, TypedParts
<1>3. CASE ConnectAttached
  <2>1. ProgramTyped' /\ ProcessTyped' /\ ClientTyped' /\ op' \in Ops
    BY <1>3, ConnectAttachedEffect, FrameProgramTyped, OpsUnion
  <2>2. FactsTyped'
    BY <1>3, ConnectAttachedEffect, FactTyped
  <2>. QED
    BY <2>1, <2>2, TypedParts
<1>4. CASE ConnectStale
  <2>1. ProgramTyped' /\ ProcessTyped' /\ ClientTyped' /\ op' \in Ops
    BY <1>4, ConnectStaleEffect, DisconnectedEffect, FrameProgramTyped, OpsUnion DEF Typed
  <2>2. FactsTyped'
    BY <1>4, ConnectStaleEffect, FactTyped
  <2>. QED
    BY <2>1, <2>2, TypedParts
<1>5. CASE Prevent
  <2>1. ProgramTyped' /\ ProcessTyped' /\ ClientTyped' /\ op' \in Ops
    BY <1>5, PreventEffect, FrameProgramTyped, OpsUnion
  <2>2. FactsTyped'
    <3>1. story' \in {story, "none"} /\ lost' \in {lost, "no", "ended", "exited"}
          /\ planted' = planted
      BY <1>5, PreventEffect
    <3>2. flashOff' \in BOOLEAN
      BY <1>5, PreventEffect
    <3>. QED
      BY <3>1, <3>2, FactTyped
  <2>. QED
    BY <2>1, <2>2, TypedParts
<1>6. CASE Resume
  <2>1. ProgramTyped' /\ ProcessTyped' /\ ClientTyped' /\ op' \in Ops
    BY <1>6, ResumeEffect, FrameProgramTyped, OpsUnion
  <2>2. FactsTyped'
    <3>1. story' \in {story, "none"} /\ lost' \in {lost, "no", "ended", "exited"}
          /\ UNCHANGED <<flashOff, planted>>
      BY <1>6, ResumeEffect
    <3>. QED
      BY <3>1, FactTyped
  <2>. QED
    BY <2>1, <2>2, TypedParts
<1>. QED
  BY <1>1, <1>2, <1>3, <1>4, <1>5, <1>6 DEF Connecting

LEMMA CommandingTyped ==
  ASSUME Typed, Commanding
  PROVE  Typed'
<1>1. CASE Command
  <2>1. rt'.prevention \in {rt.prevention, NoBound}
    BY <1>1, CommandEffect
  <2>2. ProgramTyped' /\ ProcessTyped' /\ FactsTyped' /\ ClientTyped' /\ op' \in Ops
    BY <1>1, <2>1, CommandEffect, FrameProgramTyped, FactsSame, OpsUnion DEF Trusts
  <2>. QED
    BY <2>2, TypedParts
<1>2. CASE Send
  <2>1. Keeps /\ Trusts
    BY <1>2, SendEffect DEF Keeps, Trusts, Typed, ProgramTyped
  <2>2. ProgramTyped' /\ ProcessTyped' /\ ClientTyped' /\ op' \in Ops
    BY <1>2, <2>1, SendEffect, FrameProgramTyped, OpsUnion
  <2>3. FactsTyped'
    <3>1. planted' \in BOOLEAN /\ flashOff' \in BOOLEAN /\ UNCHANGED <<story, lost>>
      BY <1>2, SendEffect
    <3>. QED
      BY <3>1, FactTyped
  <2>. QED
    BY <2>2, <2>3, TypedParts
<1>3. CASE Reply
  <2>1. ProgramTyped' /\ ProcessTyped' /\ ClientTyped' /\ op' \in Ops
    BY <1>3, ReplyEffect, FrameProgramTyped, OpsUnion
  <2>2. FactsTyped'
    BY <1>3, ReplyEffect, FactTyped
  <2>. QED
    BY <2>1, <2>2, TypedParts
<1>4. CASE CommandPersist
  <2>1. ProgramTyped' /\ ProcessTyped' /\ FactsTyped' /\ ClientTyped' /\ op' \in Ops
    BY <1>4, PersistEffect, FrameProgramTyped, FactsSame, GdbSame, OpsUnion
  <2>. QED
    BY <2>1, TypedParts
<1>. QED
  BY <1>1, <1>2, <1>3, <1>4 DEF Commanding

LEMMA ManagingTyped ==
  ASSUME Typed, Managing
  PROVE  Typed'
<1>0. ASSUME rt' = rt
      PROVE  Keeps /\ Trusts
  BY <1>0 DEF Keeps, Trusts, Typed, ProgramTyped
<1>1. CASE Ask \/ Delete
  <2>1. ProgramTyped' /\ ProcessTyped' /\ FactsTyped' /\ ClientTyped' /\ op' \in Ops
    BY <1>0, <1>1, AskEffect, FrameProgramTyped, FactsSame, OpsUnion
  <2>. QED
    BY <2>1, TypedParts
<1>2. CASE Asked
  <2>1. ProgramTyped' /\ ProcessTyped' /\ ClientTyped' /\ op' \in Ops
    BY <1>2, AskedEffect, FrameProgramTyped, OpsUnion DEF Quietly
  <2>2. UNCHANGED <<flashOff, planted>> /\ lost' \in {lost, "no", "ended", "exited"}
    BY <1>2, AskedEffect DEF Quietly
  <2>3. story' \in Stories
    BY <1>2, AskedEffect, StoryTyped DEF ToldList, Stories
  <2>4. FactsTyped'
    BY <2>2, <2>3, FactTyped
  <2>. QED
    BY <2>1, <2>4, TypedParts
<1>3. CASE DeleteReply
  <2>1. ProgramTyped' /\ ProcessTyped' /\ ClientTyped' /\ op' \in Ops
    BY <1>3, DeleteReplyEffect, FrameProgramTyped, OpsUnion DEF Quietly
  <2>2. /\ UNCHANGED <<flashOff, planted>> /\ lost' \in {lost, "no", "ended", "exited"}
        /\ story' \in {story, "none"}
    BY <1>3, DeleteReplyEffect DEF Quietly
  <2>. QED
    BY <2>1, <2>2, FactTyped, TypedParts
<1>4. CASE DeletePersist
  <2>1. ProgramTyped' /\ ProcessTyped' /\ ClientTyped' /\ op' \in Ops
    BY <1>4, DeletePersistEffect, GdbSame, FrameProgramTyped, OpsUnion
  <2>2. UNCHANGED <<flashOff, planted, lost>>
    BY <1>4, DeletePersistEffect
  <2>3. story' \in Stories
    BY <1>4, DeletePersistEffect, StoryTyped DEF Stories
  <2>. QED
    BY <2>1, <2>2, <2>3, FactTyped, TypedParts
<1>5. CASE Wait
  <2>1. ProgramTyped' /\ ProcessTyped' /\ FactsTyped' /\ ClientTyped' /\ op' \in Ops
    BY <1>5, WaitEffect, FrameProgramTyped, FactsSame, GdbSame, OpsUnion, StoryTyped
  <2>. QED
    BY <2>1, TypedParts
<1>6. CASE WaitReply
  <2>1. ProgramTyped' /\ ProcessTyped' /\ FactsTyped' /\ ClientTyped' /\ op' \in Ops
    BY <1>6, WaitReplyEffect, FrameProgramTyped, FactsSame, ClientSame, OpsUnion
  <2>. QED
    BY <2>1, TypedParts
<1>7. CASE Abort
  <2>1. ProgramTyped' /\ ProcessTyped' /\ FactsTyped' /\ ClientTyped' /\ op' \in Ops
    BY <1>0, <1>7, AbortEffect, FrameProgramTyped, FactsSame, OpsUnion
  <2>. QED
    BY <2>1, TypedParts
<1>8. CASE AbortInterrupt
  <2>1. ProgramTyped' /\ ProcessTyped' /\ ClientTyped' /\ op' \in Ops
    BY <1>8, AbortInterruptEffect, FrameProgramTyped, OpsUnion DEF Quietly
  <2>2. /\ UNCHANGED <<flashOff, planted>> /\ lost' \in {lost, "no", "ended", "exited"}
        /\ story' \in {story, "none"}
    BY <1>8, AbortInterruptEffect DEF Quietly
  <2>. QED
    BY <2>1, <2>2, FactTyped, TypedParts
<1>9. CASE AbortClear
  <2>1. ProgramTyped' /\ ProcessTyped' /\ ClientTyped' /\ op' \in Ops
    BY <1>9, AbortClearEffect, ClearedEffect, NotClearedEffect, FrameProgramTyped, OpsUnion
  <2>2. flashOff' = flashOff /\ story' \in {story, "none"}
    BY <1>9, AbortClearEffect
  <2>3. planted' \in BOOLEAN /\ lost' \in {lost, "no", "ended", "exited"}
    BY <1>9, AbortClearEffect, ClearedEffect, NotClearedEffect
  <2>. QED
    BY <2>1, <2>2, <2>3, FactTyped, TypedParts
<1>. QED
  BY <1>1, <1>2, <1>3, <1>4, <1>5, <1>6, <1>7, <1>8, <1>9 DEF Managing

LEMMA StartingTyped ==
  ASSUME Typed, Starting
  PROVE  Typed'
<1>1. CASE StartServer
  <2>1. FactsTyped' /\ ClientTyped' /\ op' \in Ops
    BY <1>1, StartServerEffect, FactsSame, GdbSame, OpsUnion
  <2>2. /\ UNCHANGED <<owner, rt, exits, closing>> /\ servers \in Nat
        /\ servers' = servers + 1 /\ servers' \in 0 .. MaxServers
        /\ server' \in {server, servers'} /\ lastExit' \in {"none", lastExit}
    BY <1>1, StartServerEffect DEF program
  <2>3. rt.token <= servers /\ rt.token \in Nat /\ rt.prevention.server <= servers
        /\ rt.prevention.server \in Nat
    BY BoundsOK DEF Typed, ProgramTyped, Runtime, Bound
  <2>4. ProgramTyped'
    BY <2>2, <2>3 DEF Typed, ProgramTyped
  <2>5. ProcessTyped'
    BY <2>2 DEF Typed, ProcessTyped
  <2>. QED
    BY <2>1, <2>4, <2>5, TypedParts
<1>2. CASE Publish
  <2>1. ClientTyped' /\ op' \in Ops /\ UNCHANGED <<servers, exits, closing, story>>
    BY <1>2, PublishEffect, GdbSame, OpsUnion
  <2>2. CASE /\ Live /\ owner' = servers /\ lost' = "no"
             /\ UNCHANGED <<server, lastExit, flashOff, planted>>
             /\ rt' \in Runtime /\ rt'.token = servers /\ rt'.prevention = NoBound
    <3>1. ProgramTyped' /\ ProcessTyped'
      BY <2>1, <2>2, BoundServers DEF Typed, ProgramTyped, ProcessTyped
    <3>2. FactsTyped'
      BY <2>1, <2>2, FactTyped
    <3>. QED
      BY <2>1, <3>1, <3>2, TypedParts
  <2>3. CASE KillServer /\ UNCHANGED <<owner, rt, lost>>
    <3>1. /\ server' = 0 /\ lastExit' \in {lastExit, "killed"}
          /\ flashOff' = FALSE /\ planted' = FALSE
      BY <2>3, KillServerEffect
    <3>2. ProgramTyped' /\ ProcessTyped'
      BY <2>1, <2>3, <3>1, BoundServers DEF Typed, ProgramTyped, ProcessTyped
    <3>3. FactsTyped'
      BY <2>1, <2>3, <3>1, FactTyped
    <3>. QED
      BY <2>1, <3>2, <3>3, TypedParts
  <2>. QED
    BY <1>2, <2>2, <2>3, PublishEffect
<1>. QED
  BY <1>1, <1>2 DEF Starting

LEMMA EnvironmentTyped ==
  ASSUME Typed, Environment
  PROVE  Typed'
<1>1. CASE ClientExit
  <2>1. ProgramTyped' /\ ProcessTyped' /\ ClientTyped' /\ op' \in Ops
    BY <1>1, ClientExitEffect, DisconnectedEffect, FrameProgramTyped, StoryTyped DEF Typed
  <2>2. FactsTyped'
    BY <1>1, ClientExitEffect, FactTyped
  <2>. QED
    BY <2>1, <2>2, TypedParts
<1>2. CASE ServerExit
  <2>1. ClientTyped' /\ op' \in Ops
    BY <1>2, ServerExitEffect, GdbSame, StoryTyped
  <2>2. flashOff' = FALSE /\ planted' = FALSE /\ story' = "none" /\ lost' = lost
    BY <1>2, ServerExitEffect
  <2>3. FactsTyped'
    BY <2>2, FactTyped
  <2>4. /\ UNCHANGED <<servers, owner, closing>> /\ server' = 0 /\ lastExit' \in {"clean", "failed"}
        /\ Keeps /\ rt'.prevention \in {rt.prevention, NoBound}
        /\ exits' = exits \/ (rt.token # 0 /\ exits' = exits \cup {rt.token})
    BY <1>2, ServerExitEffect
  <2>5. rt.token \in Nat /\ rt.token <= servers
    BY BoundsOK DEF Typed, ProgramTyped, Runtime
  <2>6. exits' \subseteq 1 .. servers
    <3>1. exits \subseteq 1 .. servers /\ servers \in Nat
      BY BoundServers DEF Typed, ProgramTyped
    <3>2. CASE rt.token # 0 /\ exits' = exits \cup {rt.token}
      <4>1. rt.token \in 1 .. servers
        BY <2>5, <3>1, <3>2
      <4>. QED
        BY <3>1, <3>2, <4>1
    <3>. QED
      BY <2>4, <3>1, <3>2
  <2>7. ProgramTyped' /\ ProcessTyped'
    BY <2>4, <2>6, BoundServers DEF Keeps, Typed, ProgramTyped, ProcessTyped
  <2>. QED
    BY <2>1, <2>3, <2>7, TypedParts
<1>3. CASE ExitHandled
  <2>1. ClientTyped' /\ FactsTyped' /\ op' \in Ops
    BY <1>3, ExitHandledEffect, GdbSame, FactsSame, StoryTyped
  <2>2. /\ UNCHANGED <<closing, servers, server, lastExit>> /\ exits' \subseteq exits
        /\ rt' \in Runtime /\ rt'.token \in {rt.token, 0} /\ rt'.prevention = rt.prevention
        /\ owner' \in {owner, 0}
    BY <1>3, ExitHandledEffect DEF Trusts
  <2>3. ProgramTyped' /\ ProcessTyped'
    BY <2>2, BoundServers DEF Typed, ProgramTyped, ProcessTyped
  <2>. QED
    BY <2>1, <2>3, TypedParts
<1>4. CASE TargetStops
  <2>0. /\ Frame /\ UNCHANGED <<rt, op, flashOff, planted, lost, client, mine>> /\ client
        /\ seen' = "halted" /\ reason' \in {"other", "breakpoint"} /\ story' \in {"hit", "none"}
    BY <1>4, TargetStopsEffect
  <2>1. ProgramTyped' /\ ProcessTyped'
    BY <2>0, FrameProgramTyped DEF Keeps, Trusts, Typed, ProgramTyped
  <2>2. ClientTyped'
    BY <2>0 DEF Typed, ClientTyped, State
  <2>3. FactsTyped'
    BY <2>0, FactTyped DEF Stories
  <2>4. op' \in Ops
    BY <2>0, StoryTyped
  <2>. QED
    BY <2>1, <2>2, <2>3, <2>4, TypedParts
<1>. QED
  BY <1>1, <1>2, <1>3, <1>4 DEF Environment

LEMMA DisposingTyped ==
  ASSUME Typed, Disposing
  PROVE  Typed'
<1>1. CASE ShutdownBegins
  <2>0. /\ UNCHANGED <<servers, server, lastExit, owner, exits, flashOff, planted, lost, op>>
        /\ rt' \in Runtime /\ rt'.token = rt.token /\ rt'.prevention = rt.prevention
        /\ Disconnected /\ story' = "none" /\ closing' = "killing"
    BY <1>1, ShutdownBeginsEffect DEF Keeps, Trusts
  <2>1. ProgramTyped' /\ ProcessTyped'
    BY <2>0 DEF Typed, ProgramTyped, ProcessTyped
  <2>2. ClientTyped' /\ op' \in Ops
    BY <2>0, DisconnectedEffect DEF Typed
  <2>3. FactsTyped'
    BY <2>0, FactTyped
  <2>. QED
    BY <2>1, <2>2, <2>3, TypedParts
<1>2. CASE ShutdownKills
  <2>0. /\ UNCHANGED <<servers, exits, story, lost, op>> /\ UNCHANGED gdb
        /\ server' = 0 /\ lastExit' \in {lastExit, "killed"} /\ flashOff' = FALSE /\ planted' = FALSE
        /\ owner' \in {owner, 0} /\ closing' = "closed"
        /\ rt' \in Runtime /\ rt'.token = 0 /\ rt'.prevention = rt.prevention
    BY <1>2, ShutdownKillsEffect, KillServerEffect DEF Trusts
  <2>1. ProgramTyped' /\ ProcessTyped'
    BY <2>0, BoundServers DEF Typed, ProgramTyped, ProcessTyped
  <2>2. ClientTyped' /\ op' \in Ops
    BY <2>0, GdbSame DEF Typed
  <2>3. FactsTyped'
    BY <2>0, FactTyped
  <2>. QED
    BY <2>1, <2>2, <2>3, TypedParts
<1>. QED
  BY <1>1, <1>2 DEF Disposing

LEMMA StepTyped ==
  ASSUME Typed, Next
  PROVE  Typed'
BY StoppingTyped, ConnectingTyped, CommandingTyped, ManagingTyped, StartingTyped,
   EnvironmentTyped, DisposingTyped DEF Next

-----------------------------------------------------------------------------
(* The owner.  A step of an operation other than a start or a kill leaves  *)
(* the processes alone.                                                    *)
Ordinary == /\ Frame /\ Keeps
            /\ op'.tool = "start" <=> op.tool = "start"
            /\ op'.tool = "stop" /\ op'.at = "observe" => op.tool = "stop" /\ op.at = "observe"
            /\ planted' => planted \/ (Live /\ op.tool # "start")

LEMMA OrdinaryOwner ==
  ASSUME Typed, OwnerInv, Ordinary
  PROVE  OwnerInv'
<1>1. /\ UNCHANGED <<servers, server, owner, exits>> /\ rt'.token = rt.token
      /\ op'.tool = "start" <=> op.tool = "start"
  BY DEF Ordinary, Frame, Keeps
<1>2. op'.tool = "start" =>
        owner' = 0 /\ servers' # 0 /\ servers' \notin exits' /\ rt'.token # servers' /\ ~planted'
  BY <1>1 DEF OwnerInv, Ordinary
<1>3. op'.tool # "start" => OwnedWhileServerRuns'
  BY <1>1 DEF OwnerInv, OwnedWhileServerRuns
<1>4. /\ \A token \in exits' : token = owner' => ~Live'
      /\ op'.tool = "stop" /\ op'.at = "observe" => ~Live'
      /\ planted' => Live'
  BY <1>1 DEF OwnerInv, Ordinary, Live
<1>. QED
  BY <1>2, <1>3, <1>4 DEF OwnerInv

LEMMA OperationsOrdinary ==
  ASSUME Typed, (Stopping /\ ~StopKill) \/ Connecting \/ Commanding \/ Managing
  PROVE  Ordinary
<1>0. UNCHANGED facts => planted' = planted
  BY DEF facts
<1>1. CASE StopServer
  BY <1>0, <1>1, StopServerEffect DEF Ordinary
<1>2. CASE StopClear
  BY <1>2, StopClearEffect, ClearedEffect, NotClearedEffect DEF Ordinary
<1>3. CASE StopDisconnect \/ StopAwait \/ StopObserve
  BY <1>3, StopOnEffect DEF Ordinary
<1>4. CASE Connecting
  <2>1. CASE Connect
    BY <1>0, <2>1, ConnectEffect DEF Ordinary
  <2>2. CASE ConnectFails
    BY <2>2, ConnectFailsEffect DEF Ordinary
  <2>3. CASE ConnectAttached
    BY <2>3, ConnectAttachedEffect DEF Ordinary
  <2>4. CASE ConnectStale
    BY <2>4, ConnectStaleEffect DEF Ordinary
  <2>5. CASE Prevent
    BY <2>5, PreventEffect DEF Ordinary
  <2>6. CASE Resume
    BY <2>6, ResumeEffect DEF Ordinary
  <2>. QED
    BY <1>4, <2>1, <2>2, <2>3, <2>4, <2>5, <2>6 DEF Connecting
<1>5. CASE Commanding
  <2>1. CASE Command
    BY <1>0, <2>1, CommandEffect DEF Ordinary
  <2>2. CASE Send
    BY <2>2, SendEffect DEF Ordinary, Keeps, Typed, ProgramTyped
  <2>3. CASE Reply
    BY <2>3, ReplyEffect DEF Ordinary
  <2>4. CASE CommandPersist
    BY <1>0, <2>4, PersistEffect DEF Ordinary
  <2>. QED
    BY <1>5, <2>1, <2>2, <2>3, <2>4 DEF Commanding
<1>6. CASE Managing
  <2>0. rt' = rt => Keeps
    BY DEF Keeps, Typed, ProgramTyped
  <2>1. CASE Ask \/ Delete
    BY <1>0, <2>0, <2>1, AskEffect DEF Ordinary
  <2>2. CASE Asked
    BY <2>2, AskedEffect DEF Ordinary
  <2>3. CASE DeleteReply
    BY <2>3, DeleteReplyEffect DEF Ordinary
  <2>4. CASE DeletePersist
    BY <2>4, DeletePersistEffect DEF Ordinary
  <2>5. CASE Wait
    BY <1>0, <2>5, WaitEffect DEF Ordinary
  <2>6. CASE WaitReply
    BY <1>0, <2>6, WaitReplyEffect DEF Ordinary
  <2>7. CASE Abort
    BY <1>0, <2>0, <2>7, AbortEffect DEF Ordinary
  <2>8. CASE AbortInterrupt
    BY <2>8, AbortInterruptEffect DEF Ordinary
  <2>9. CASE AbortClear
    BY <2>9, AbortClearEffect, ClearedEffect, NotClearedEffect DEF Ordinary
  <2>. QED
    BY <1>6, <2>1, <2>2, <2>3, <2>4, <2>5, <2>6, <2>7, <2>8, <2>9 DEF Managing
<1>. QED
  BY <1>1, <1>2, <1>3, <1>4, <1>5, <1>6 DEF Stopping

LEMMA StepOwner ==
  ASSUME Typed, OwnerInv, Next
  PROVE  OwnerInv'
<1>1. CASE (Stopping /\ ~StopKill) \/ Connecting \/ Commanding \/ Managing
  BY <1>1, OperationsOrdinary, OrdinaryOwner
<1>2. ASSUME ~Live', planted' = FALSE, op'.tool # "start"
      PROVE  OwnerInv'
  BY <1>2 DEF OwnerInv, OwnedWhileServerRuns, Live
<1>3. CASE StopKill
  <2>1. CASE KillServer /\ op'.tool = "stop"
    BY <1>2, <2>1 DEF KillServer, Live
  <2>2. CASE UNCHANGED <<server, lastExit, flashOff, planted, owner>> /\ Keeps /\ op'.tool = "none"
    <3>1. Ordinary
      BY <1>3, <2>2, StopKillEffect DEF Ordinary, Frame
    <3>. QED
      BY <3>1, OrdinaryOwner
  <2>. QED
    BY <1>3, <2>1, <2>2, StopKillEffect
<1>4. CASE StartServer
  <2>1. /\ owner = 0 /\ op'.tool = "start" /\ servers \in Nat /\ servers' = servers + 1 /\ op.tool = "none"
        /\ UNCHANGED <<owner, rt, exits>> /\ planted' = planted /\ server' # 0
    BY <1>4, StartServerEffect DEF program, facts
  <2>2. ~Live /\ ~planted
    BY <2>1 DEF OwnerInv, OwnedWhileServerRuns, Live
  <2>3. servers' \notin exits' /\ rt'.token # servers'
    <3>1. rt.token <= servers /\ rt.token \in Nat /\ exits \subseteq 1 .. servers
      BY BoundsOK DEF Typed, ProgramTyped, Runtime
    <3>. QED
      BY <2>1, <3>1
  <2>4. 0 \notin exits'
    BY <2>1 DEF Typed, ProgramTyped
  <2>. QED
    BY <2>1, <2>2, <2>3, <2>4 DEF OwnerInv, Live
<1>5. CASE Publish
  <2>0. op.tool = "start" /\ op'.tool = "none" /\ UNCHANGED <<servers, exits>>
    BY <1>5, PublishEffect
  <2>1. CASE Live /\ owner' = servers /\ UNCHANGED <<server, flashOff, planted>>
    BY <2>0, <2>1 DEF OwnerInv, OwnedWhileServerRuns, Live
  <2>2. CASE KillServer
    BY <1>2, <2>0, <2>2 DEF KillServer, Live
  <2>. QED
    BY <1>5, <2>1, <2>2, PublishEffect
<1>6. CASE ClientExit \/ TargetStops
  <2>1. Ordinary
    BY <1>6, ClientExitEffect, TargetStopsEffect DEF Ordinary, Keeps, Typed, ProgramTyped
  <2>. QED
    BY <2>1, OrdinaryOwner
<1>7. CASE ServerExit
  <2>1. /\ server' = 0 /\ planted' = FALSE /\ op' = op /\ UNCHANGED <<servers, owner>>
        /\ rt'.token = rt.token /\ (exits' = exits \/ exits' = exits \cup {rt.token})
    BY <1>7, ServerExitEffect DEF Keeps
  <2>2. ~Live'
    BY <2>1 DEF Live
  <2>3. op'.tool = "start" =>
          owner' = 0 /\ servers' # 0 /\ servers' \notin exits' /\ rt'.token # servers' /\ ~planted'
    BY <2>1 DEF OwnerInv
  <2>. QED
    BY <2>1, <2>2, <2>3 DEF OwnerInv, OwnedWhileServerRuns
<1>8. CASE ExitHandled
  <2>1. /\ UNCHANGED <<servers, server>> /\ op' = op /\ planted' = planted /\ exits' \subseteq exits
        /\ rt'.token \in {rt.token, 0} /\ (owner' = owner \/ (owner' = 0 /\ owner \in exits))
    BY <1>8, ExitHandledEffect DEF facts
  <2>2. 0 \notin exits
    BY DEF Typed, ProgramTyped
  <2>3. CASE owner' = owner
    BY <2>1, <2>3 DEF OwnerInv, OwnedWhileServerRuns, Live
  <2>4. CASE owner' = 0 /\ owner \in exits
    BY <2>1, <2>2, <2>4 DEF OwnerInv, OwnedWhileServerRuns, Live
  <2>. QED
    BY <2>1, <2>3, <2>4
<1>9. CASE ShutdownBegins
  <2>1. UNCHANGED <<servers, server, owner, exits, planted, op>> /\ rt'.token = rt.token
    BY <1>9, ShutdownBeginsEffect DEF Keeps
  <2>. QED
    BY <2>1 DEF OwnerInv, OwnedWhileServerRuns, Live
<1>10. CASE ShutdownKills
  <2>1. /\ server' = 0 /\ planted' = FALSE /\ op' = op /\ UNCHANGED <<servers, exits>>
        /\ rt'.token = 0 /\ owner' \in {owner, 0}
    BY <1>10, ShutdownKillsEffect, KillServerEffect
  <2>. QED
    BY <2>1 DEF OwnerInv, OwnedWhileServerRuns, Live
<1>. QED
  BY <1>1, <1>3, <1>4, <1>5, <1>6, <1>7, <1>8, <1>9, <1>10
     DEF Next, Starting, Stopping, Environment, Disposing

-----------------------------------------------------------------------------
(* The evidence against flash breakpoints.                                 *)
LEMMA OrdinaryPrevention ==
  ASSUME Typed, PreventionInv, UNCHANGED <<servers, server>>,
         rt'.prevention \in {rt.prevention, NoBound},
         Live /\ flashOff => flashOff',
         ~(op'.tool = "command" /\ op'.at = "send") \/ op' = op
  PROVE  PreventionInv'
BY BoundServers DEF PreventionInv, Live, Inserting

LEMMA StepPrevention ==
  ASSUME Typed, PreventionInv, Next
  PROVE  PreventionInv'
<1>0. /\ UNCHANGED facts => flashOff' = flashOff
      /\ Frame => UNCHANGED <<servers, server>>
      /\ Trusts => rt'.prevention = rt.prevention
      /\ rt' = rt => rt'.prevention = rt.prevention
  BY DEF facts, Frame, Trusts
<1>1. ASSUME ~Live', op'.tool # "command" \/ (op' = op /\ rt'.prevention \in {rt.prevention, NoBound})
      PROVE  PreventionInv'
  BY <1>1 DEF PreventionInv, Live
<1>2. CASE Stopping
  <2>1. CASE StopServer
    <3>1. /\ UNCHANGED <<servers, server>> /\ rt'.prevention = rt.prevention /\ flashOff' = flashOff
          /\ op'.tool # "command"
      BY <1>0, <2>1, StopServerEffect
    <3>. QED
      BY <3>1, OrdinaryPrevention
  <2>2. CASE StopClear
    <3>1. /\ UNCHANGED <<servers, server>> /\ rt'.prevention = rt.prevention /\ flashOff' = flashOff
          /\ op'.tool # "command"
      BY <1>0, <2>2, StopClearEffect
    <3>. QED
      BY <3>1, OrdinaryPrevention
  <2>3. CASE StopDisconnect \/ StopAwait \/ StopObserve
    <3>1. /\ UNCHANGED <<servers, server>> /\ rt'.prevention = rt.prevention /\ flashOff' = flashOff
          /\ op'.tool # "command"
      BY <1>0, <2>3, StopOnEffect
    <3>. QED
      BY <3>1, OrdinaryPrevention
  <2>4. CASE StopKill
    <3>1. CASE KillServer /\ op'.tool = "stop"
      BY <1>1, <3>1 DEF KillServer, Live
    <3>2. CASE UNCHANGED <<server, flashOff>> /\ Trusts /\ op'.tool = "none"
      <4>1. UNCHANGED <<servers, server>>
        BY <2>4, <3>2, StopKillEffect
      <4>. QED
        BY <1>0, <3>2, <4>1, OrdinaryPrevention
    <3>. QED
      BY <2>4, <3>1, <3>2, StopKillEffect
  <2>. QED
    BY <1>2, <2>1, <2>2, <2>3, <2>4 DEF Stopping
<1>3. CASE Connecting
  <2>1. CASE Connect
    <3>1. /\ UNCHANGED <<servers, server>> /\ rt'.prevention = rt.prevention /\ flashOff' = flashOff
          /\ op'.tool # "command"
      BY <1>0, <2>1, ConnectEffect
    <3>. QED
      BY <3>1, OrdinaryPrevention
  <2>2. CASE ConnectFails
    <3>1. /\ UNCHANGED <<servers, server>> /\ rt'.prevention = rt.prevention /\ flashOff' = flashOff
          /\ op'.tool # "command"
      BY <1>0, <2>2, ConnectFailsEffect
    <3>. QED
      BY <3>1, OrdinaryPrevention
  <2>3. CASE ConnectAttached
    <3>1. /\ UNCHANGED <<servers, server>> /\ rt'.prevention \in {rt.prevention, NoBound}
          /\ flashOff' = flashOff /\ op'.tool # "command"
      BY <1>0, <2>3, ConnectAttachedEffect
    <3>. QED
      BY <3>1, OrdinaryPrevention
  <2>4. CASE ConnectStale
    <3>1. /\ UNCHANGED <<servers, server>> /\ rt'.prevention = rt.prevention /\ flashOff' = flashOff
          /\ op'.tool # "command"
      BY <1>0, <2>4, ConnectStaleEffect
    <3>. QED
      BY <3>1, OrdinaryPrevention
  <2>5. CASE Prevent
    <3>1. /\ UNCHANGED <<servers, server>> /\ op'.tool # "command"
          /\ \/ flashOff' = TRUE
             \/ /\ rt'.prevention = rt.prevention
                /\ Live => flashOff' = flashOff \/ flashOff' = TRUE
      BY <1>0, <2>5, PreventEffect
    <3>2. CASE flashOff' = TRUE
      BY <3>1, <3>2 DEF PreventionInv, Inserting
    <3>3. CASE /\ rt'.prevention = rt.prevention
               /\ Live => flashOff' = flashOff \/ flashOff' = TRUE
      BY <3>1, <3>3, OrdinaryPrevention
    <3>. QED
      BY <3>1, <3>2, <3>3
  <2>6. CASE Resume
    <3>1. /\ UNCHANGED <<servers, server>> /\ rt'.prevention = rt.prevention /\ flashOff' = flashOff
          /\ op'.tool # "command"
      BY <1>0, <2>6, ResumeEffect
    <3>. QED
      BY <3>1, OrdinaryPrevention
  <2>. QED
    BY <1>3, <2>1, <2>2, <2>3, <2>4, <2>5, <2>6 DEF Connecting
<1>4. CASE Command
  <2>1. /\ UNCHANGED <<servers, server>> /\ flashOff' = flashOff
        /\ rt'.prevention = (IF op'.kind \in {"insert", "interrupt"} THEN rt.prevention ELSE NoBound)
        /\ op'.kind = "insert" => Confirmed
    BY <1>0, <1>4, CommandEffect
  <2>2. op'.kind = "insert" => server # 0 /\ rt.prevention.server = server
    BY <2>1, BoundServers DEF Confirmed
  <2>. QED
    BY <2>1, <2>2, BoundServers DEF PreventionInv, Live, Inserting
<1>5. CASE Send
  <2>1. /\ UNCHANGED <<servers, server>> /\ rt' = rt /\ Live /\ op'.at = "reply"
        /\ op.tool = "command" /\ op.at = "send" /\ (op.kind # "raw" => flashOff' = flashOff)
    BY <1>0, <1>5, SendEffect
  <2>2. CASE op.kind = "raw"
    BY <2>1, <2>2, BoundServers DEF PreventionInv, Live, Inserting
  <2>3. CASE op.kind # "raw"
    BY <2>1, <2>3, OrdinaryPrevention
  <2>. QED
    BY <2>2, <2>3
<1>6. CASE Reply
  <2>1. /\ UNCHANGED <<servers, server>> /\ rt'.prevention = rt.prevention /\ flashOff' = flashOff
        /\ op'.at = "persist"
    BY <1>0, <1>6, ReplyEffect
  <2>. QED
    BY <2>1, OrdinaryPrevention
<1>7. CASE CommandPersist
  <2>1. /\ UNCHANGED <<servers, server>> /\ rt'.prevention = rt.prevention /\ flashOff' = flashOff
        /\ op'.tool # "command"
    BY <1>0, <1>7, PersistEffect
  <2>. QED
    BY <2>1, OrdinaryPrevention
<1>8. CASE Managing
  <2>1. CASE Ask \/ Delete
    <3>1. /\ UNCHANGED <<servers, server>> /\ rt'.prevention = rt.prevention /\ flashOff' = flashOff
          /\ op'.tool # "command"
      BY <1>0, <2>1, AskEffect
    <3>. QED
      BY <3>1, OrdinaryPrevention
  <2>2. CASE Asked
    <3>1. /\ UNCHANGED <<servers, server>> /\ rt'.prevention = rt.prevention /\ flashOff' = flashOff
          /\ op'.tool # "command"
      BY <1>0, <2>2, AskedEffect
    <3>. QED
      BY <3>1, OrdinaryPrevention
  <2>3. CASE DeleteReply
    <3>1. /\ UNCHANGED <<servers, server>> /\ rt'.prevention = rt.prevention /\ flashOff' = flashOff
          /\ op'.tool # "command"
      BY <1>0, <2>3, DeleteReplyEffect
    <3>. QED
      BY <3>1, OrdinaryPrevention
  <2>4. CASE DeletePersist
    <3>1. /\ UNCHANGED <<servers, server>> /\ rt'.prevention = rt.prevention /\ flashOff' = flashOff
          /\ op'.tool # "command"
      BY <1>0, <2>4, DeletePersistEffect
    <3>. QED
      BY <3>1, OrdinaryPrevention
  <2>5. CASE Wait
    <3>1. /\ UNCHANGED <<servers, server>> /\ rt'.prevention = rt.prevention /\ flashOff' = flashOff
          /\ op' = op \/ op'.tool = "wait"
      BY <1>0, <2>5, WaitEffect
    <3>. QED
      BY <3>1, OrdinaryPrevention
  <2>6. CASE WaitReply
    <3>1. /\ UNCHANGED <<servers, server>> /\ rt'.prevention = rt.prevention /\ flashOff' = flashOff
          /\ op'.tool # "command"
      BY <1>0, <2>6, WaitReplyEffect
    <3>. QED
      BY <3>1, OrdinaryPrevention
  <2>7. CASE Abort
    <3>1. /\ UNCHANGED <<servers, server>> /\ rt'.prevention = rt.prevention /\ flashOff' = flashOff
          /\ op'.tool # "command"
      BY <1>0, <2>7, AbortEffect
    <3>. QED
      BY <3>1, OrdinaryPrevention
  <2>8. CASE AbortInterrupt
    <3>1. /\ UNCHANGED <<servers, server>> /\ rt'.prevention = rt.prevention /\ flashOff' = flashOff
          /\ op'.tool # "command"
      BY <1>0, <2>8, AbortInterruptEffect
    <3>. QED
      BY <3>1, OrdinaryPrevention
  <2>9. CASE AbortClear
    <3>1. /\ UNCHANGED <<servers, server>> /\ rt'.prevention = rt.prevention /\ flashOff' = flashOff
          /\ op'.tool # "command"
      BY <1>0, <2>9, AbortClearEffect
    <3>. QED
      BY <3>1, OrdinaryPrevention
  <2>. QED
    BY <1>8, <2>1, <2>2, <2>3, <2>4, <2>5, <2>6, <2>7, <2>8, <2>9 DEF Managing
<1>9. CASE StartServer
  <2>1. /\ servers \in Nat /\ servers' = servers + 1 /\ server' \in {server, servers'}
        /\ (Live => server' = server) /\ op'.tool = "start" /\ rt' = rt /\ flashOff' = flashOff
    BY <1>9, StartServerEffect DEF program, facts
  <2>2. rt.prevention.server <= servers
    BY DEF Typed, ProgramTyped
  <2>3. rt.prevention.server \in Nat
    BY BoundsOK DEF Typed, ProgramTyped, Runtime, Bound
  <2>. QED
    BY <2>1, <2>2, <2>3 DEF PreventionInv, Live, Inserting
<1>10. CASE Publish
  <2>1. op'.tool = "none" /\ (rt'.prevention = NoBound \/ KillServer)
    BY <1>10, PublishEffect
  <2>2. CASE rt'.prevention = NoBound
    BY <2>1, <2>2, BoundServers DEF PreventionInv, Live, Inserting
  <2>3. CASE KillServer
    BY <1>1, <2>1, <2>3 DEF KillServer, Live
  <2>. QED
    BY <2>1, <2>2, <2>3
<1>11. CASE ClientExit
  <2>1. /\ UNCHANGED <<servers, server>> /\ rt'.prevention = NoBound /\ flashOff' = flashOff /\ op' = op
    BY <1>0, <1>11, ClientExitEffect
  <2>. QED
    BY <2>1, OrdinaryPrevention
<1>12. CASE ServerExit
  <2>1. server' = 0 /\ op' = op /\ rt'.prevention \in {rt.prevention, NoBound}
    BY <1>12, ServerExitEffect
  <2>. QED
    BY <1>1, <2>1 DEF Live
<1>13. CASE ExitHandled
  <2>1. /\ UNCHANGED <<servers, server>> /\ rt'.prevention = rt.prevention /\ flashOff' = flashOff
        /\ op' = op
    BY <1>0, <1>13, ExitHandledEffect
  <2>. QED
    BY <2>1, OrdinaryPrevention
<1>14. CASE TargetStops
  <2>1. /\ UNCHANGED <<servers, server>> /\ rt' = rt /\ flashOff' = flashOff /\ op' = op
    BY <1>0, <1>14, TargetStopsEffect
  <2>. QED
    BY <2>1, OrdinaryPrevention
<1>15. CASE ShutdownBegins
  <2>1. /\ UNCHANGED <<servers, server>> /\ rt'.prevention = rt.prevention /\ flashOff' = flashOff
        /\ op' = op
    BY <1>0, <1>15, ShutdownBeginsEffect
  <2>. QED
    BY <2>1, OrdinaryPrevention
<1>16. CASE ShutdownKills
  <2>1. server' = 0 /\ op' = op /\ rt'.prevention = rt.prevention
    BY <1>0, <1>16, ShutdownKillsEffect, KillServerEffect
  <2>. QED
    BY <1>1, <2>1 DEF Live
<1>. QED
  BY <1>2, <1>3, <1>4, <1>5, <1>6, <1>7, <1>8, <1>9, <1>10, <1>11, <1>12, <1>13, <1>14, <1>15,
     <1>16 DEF Next, Starting, Commanding, Environment, Disposing

-----------------------------------------------------------------------------
(* A client that exited.                                                   *)
LEMMA OrdinaryLost ==
  ASSUME Typed, LostInv, Frame, ClientTyped', client' => client, Exited,
         rt'.available => rt.available,
         lost' = "exited" => lost = "exited",
         rt'.state \in {rt.state, seen', "unknown"}
  PROVE  LostInv'
BY DEF Frame, LostInv, Live, Exited, ClientTyped

LEMMA StepLost ==
  ASSUME Typed, OwnerInv, LostInv, Next
  PROVE  LostInv'
<1>0. /\ UNCHANGED facts => lost' = lost
      /\ UNCHANGED gdb => UNCHANGED <<client, seen>>
      /\ Disconnected => ~client'
      /\ Expects => (rt'.available => rt.available)
      /\ rt' = rt => Exited /\ (rt'.available => rt.available) /\ rt'.state = rt.state
      /\ Typed'
  BY StepTyped DEF facts, gdb, Disconnected, Expects, Exited
<1>1. ClientTyped'
  BY <1>0 DEF Typed
<1>2. CASE Stopping
  <2>1. CASE StopServer
    <3>1. /\ Frame /\ Exited /\ (rt'.available => rt.available) /\ lost' = lost
          /\ rt'.state = rt.state /\ client' = client
      BY <1>0, <2>1, StopServerEffect DEF Dispatched
    <3>. QED
      BY <1>1, <3>1, OrdinaryLost
  <2>2. CASE StopClear
    <3>1. /\ Frame /\ Exited /\ (rt'.available => rt.available)
          /\ rt'.state \in {seen', "unknown"} /\ (client' => client)
          /\ lost' = "exited" => lost = "exited"
      BY <1>0, <2>2, StopClearEffect, ClearedEffect, NotClearedEffect
    <3>. QED
      BY <1>1, <3>1, OrdinaryLost
  <2>3. CASE StopDisconnect \/ StopAwait
    <3>1. /\ Frame /\ Exited /\ (rt'.available => rt.available) /\ lost' = lost
          /\ rt'.state = rt.state /\ (client' => client)
      <4>1. CASE StopDisconnect
        BY <1>0, <4>1, StopOnEffect DEF StopDisconnect, program
      <4>2. CASE StopAwait
        BY <1>0, <4>2, StopOnEffect DEF StopAwait, At
      <4>. QED
        BY <2>3, <4>1, <4>2
    <3>. QED
      BY <1>1, <3>1, OrdinaryLost
  <2>4. CASE StopObserve
    <3>1. ~Live /\ server' = server
      BY <2>4, StopOnEffect DEF OwnerInv, Frame, StopObserve, At
    <3>. QED
      BY <3>1 DEF LostInv, Live
  <2>5. CASE StopKill
    <3>1. CASE KillServer
      BY <3>1 DEF LostInv, Live, KillServer
    <3>2. CASE UNCHANGED <<server, lastExit, owner>> /\ Expects /\ Exited /\ rt'.state = rt.state
      <4>1. Frame /\ lost' = lost /\ client' = client
        BY <1>0, <2>5, <3>2, StopKillEffect DEF Frame
      <4>. QED
        BY <1>0, <1>1, <3>2, <4>1, OrdinaryLost
    <3>. QED
      BY <2>5, <3>1, <3>2, StopKillEffect
  <2>. QED
    BY <1>2, <2>1, <2>2, <2>3, <2>4, <2>5 DEF Stopping
<1>3. CASE Connecting
  <2>1. CASE Connect
    <3>1. Frame /\ lost' = lost /\ (rt.state = "running" \/ rt.available)
      BY <1>0, <2>1, ConnectEffect
    <3>. QED
      BY <3>1 DEF LostInv, Live, Frame
  <2>2. CASE ConnectFails
    <3>1. /\ Frame /\ Exited /\ (rt'.available => rt.available)
          /\ rt'.state = seen' /\ (client' => client)
          /\ lost' = "exited" => lost = "exited"
      BY <1>0, <2>2, ConnectFailsEffect
    <3>. QED
      BY <1>1, <3>1, OrdinaryLost
  <2>3. CASE ConnectAttached
    <3>1. Frame /\ (lost' = "no" \/ (lost' = lost /\ client))
      BY <2>3, ConnectAttachedEffect
    <3>. QED
      BY <3>1 DEF LostInv, Live, Frame
  <2>4. CASE ConnectStale
    <3>1. lost' = "no"
      BY <2>4, ConnectStaleEffect
    <3>. QED
      BY <3>1 DEF LostInv
  <2>5. CASE Prevent
    <3>1. /\ Frame /\ Exited /\ (rt'.available => rt.available)
          /\ rt'.state = seen' /\ (client' => client)
          /\ lost' = "exited" => lost = "exited"
      BY <1>0, <2>5, PreventEffect
    <3>. QED
      BY <1>1, <3>1, OrdinaryLost
  <2>6. CASE Resume
    <3>1. /\ Frame /\ Exited /\ (rt'.available => rt.available)
          /\ rt'.state = seen' /\ (client' => client)
          /\ lost' = "exited" => lost = "exited"
      BY <1>0, <2>6, ResumeEffect
    <3>. QED
      BY <1>1, <3>1, OrdinaryLost
  <2>. QED
    BY <1>3, <2>1, <2>2, <2>3, <2>4, <2>5, <2>6 DEF Connecting
<1>4. CASE Commanding
  <2>1. CASE Command
    <3>1. /\ Frame /\ Exited /\ (rt'.available => rt.available) /\ lost' = lost
          /\ rt'.state = rt.state /\ client' = client
      BY <1>0, <2>1, CommandEffect
    <3>. QED
      BY <1>1, <3>1, OrdinaryLost
  <2>2. CASE Send
    <3>1. /\ Frame /\ Exited /\ (rt'.available => rt.available) /\ lost' = lost
          /\ rt'.state = rt.state /\ client' = client
      BY <1>0, <2>2, SendEffect
    <3>. QED
      BY <1>1, <3>1, OrdinaryLost
  <2>3. CASE Reply
    <3>1. /\ Frame /\ Exited /\ (rt'.available => rt.available)
          /\ rt'.state = seen' /\ (client' => client)
          /\ lost' = "exited" => lost = "exited"
      BY <1>0, <2>3, ReplyEffect
    <3>. QED
      BY <1>1, <3>1, OrdinaryLost
  <2>4. CASE CommandPersist
    <3>1. /\ Frame /\ Exited /\ (rt'.available => rt.available) /\ lost' = lost
          /\ rt'.state = rt.state /\ client' = client
      BY <1>0, <2>4, PersistEffect
    <3>. QED
      BY <1>1, <3>1, OrdinaryLost
  <2>. QED
    BY <1>4, <2>1, <2>2, <2>3, <2>4 DEF Commanding
<1>5. CASE Managing
  <2>1. CASE Ask \/ Delete \/ Abort
    <3>1. Frame /\ rt' = rt /\ lost' = lost /\ client' = client
      BY <1>0, <2>1, AskEffect, AbortEffect
    <3>. QED
      BY <1>0, <1>1, <3>1, OrdinaryLost
  <2>2. CASE Asked \/ DeleteReply
    <3>1. /\ Frame /\ Exited /\ (rt'.available => rt.available)
          /\ rt'.state \in {seen', "unknown"} /\ Quietly
      BY <1>0, <2>2, AskedEffect, DeleteReplyEffect
    <3>2. (client' => client) /\ (lost' = "exited" => lost = "exited")
      BY <3>1 DEF Quietly
    <3>. QED
      BY <1>1, <3>1, <3>2, OrdinaryLost
  <2>3. CASE DeletePersist
    <3>1. /\ Frame /\ Exited /\ (rt'.available => rt.available)
          /\ rt'.state \in {rt.state, "unknown"} /\ client' = client /\ lost' = lost
      BY <1>0, <2>3, DeletePersistEffect
    <3>. QED
      BY <1>1, <3>1, OrdinaryLost
  <2>4. CASE Wait
    <3>1. /\ Frame /\ Exited /\ (rt'.available => rt.available) /\ lost' = lost
          /\ rt'.state \in {rt.state, seen'} /\ client' = client
      BY <1>0, <2>4, WaitEffect
    <3>. QED
      BY <1>1, <3>1, OrdinaryLost
  <2>5. CASE WaitReply
    <3>1. /\ Frame /\ Exited /\ (rt'.available => rt.available) /\ lost' = lost
          /\ rt'.state = seen' /\ client' = client
      BY <1>0, <2>5, WaitReplyEffect
    <3>. QED
      BY <1>1, <3>1, OrdinaryLost
  <2>6. CASE AbortInterrupt
    <3>1. /\ Frame /\ Exited /\ (rt'.available => rt.available)
          /\ rt'.state = seen' /\ (client' => client)
          /\ lost' = "exited" => lost = "exited"
      BY <1>0, <2>6, AbortInterruptEffect DEF Quietly
    <3>. QED
      BY <1>1, <3>1, OrdinaryLost
  <2>7. CASE AbortClear
    <3>1. /\ Frame /\ Exited /\ (rt'.available => rt.available)
          /\ rt'.state = seen' /\ (client' => client)
          /\ lost' = "exited" => lost = "exited"
      BY <1>0, <2>7, AbortClearEffect, ClearedEffect, NotClearedEffect
    <3>. QED
      BY <1>1, <3>1, OrdinaryLost
  <2>. QED
    BY <1>5, <2>1, <2>2, <2>3, <2>4, <2>5, <2>6, <2>7 DEF Managing
<1>6. CASE StartServer
  <2>1. owner' = 0
    BY <1>6, StartServerEffect DEF program
  <2>. QED
    BY <2>1 DEF LostInv
<1>7. CASE Publish
  <2>1. lost' = "no" \/ server' = 0
    BY <1>7, PublishEffect, KillServerEffect
  <2>. QED
    BY <2>1 DEF LostInv, Live
<1>8. CASE ClientExit
  <2>1. ~client' /\ rt'.state = "unknown" /\ rt'.exited /\ ~rt'.available
    BY <1>0, <1>8, ClientExitEffect
  <2>. QED
    BY <2>1 DEF LostInv
<1>9. CASE ServerExit \/ ShutdownKills
  <2>1. server' = 0
    BY <1>9, ServerExitEffect, ShutdownKillsEffect, KillServerEffect
  <2>. QED
    BY <2>1 DEF LostInv, Live
<1>10. CASE ExitHandled
  <2>1. /\ Exited /\ (rt'.available => rt.available) /\ lost' = lost
        /\ rt'.state = rt.state /\ client' = client /\ UNCHANGED <<closing, server>>
        /\ owner' \in {owner, 0}
    BY <1>0, <1>10, ExitHandledEffect
  <2>. QED
    BY <2>1 DEF LostInv, Live, Exited
<1>11. CASE TargetStops
  <2>1. Frame /\ client /\ lost' = lost
    BY <1>11, TargetStopsEffect
  <2>. QED
    BY <2>1 DEF LostInv, Live, Frame
<1>12. CASE ShutdownBegins
  <2>1. closing' = "killing"
    BY <1>12, ShutdownBeginsEffect
  <2>. QED
    BY <2>1 DEF LostInv
<1>. QED
  BY <1>2, <1>3, <1>4, <1>5, <1>6, <1>7, <1>8, <1>9, <1>10, <1>11, <1>12
     DEF Next, Starting, Environment, Disposing

-----------------------------------------------------------------------------
(* What became of the life cycle of a managed breakpoint.                  *)
LEMMA LifeChanges ==
  ASSUME Typed, Next
  PROVE  \/ rt'.life = rt.life
         \/ rt'.life = NoLife
         \/ rt'.life = Armed /\ CommandPersist /\ op.kind = "insert"
         \/ Asked \/ DeletePersist \/ WaitReply
<1>1. CASE Stopping
  <2>1. CASE StopServer \/ StopClear \/ StopDisconnect \/ StopAwait \/ StopObserve
    BY <2>1, StopServerEffect, StopClearEffect, StopOnEffect DEF Tells
  <2>2. CASE StopKill
    BY <2>2, StopKillEffect DEF Tells, Forgets
  <2>. QED
    BY <1>1, <2>1, <2>2 DEF Stopping
<1>2. CASE Connecting
  <2>1. CASE Connect \/ ConnectFails \/ ConnectAttached \/ ConnectStale
    BY <2>1, ConnectEffect, ConnectFailsEffect, ConnectAttachedEffect, ConnectStaleEffect DEF Tells
  <2>2. CASE Prevent \/ Resume
    BY <2>2, PreventEffect, ResumeEffect DEF Tells, Forgets
  <2>. QED
    BY <1>2, <2>1, <2>2 DEF Connecting
<1>3. CASE Commanding
  <2>1. CASE Command \/ Send \/ Reply
    BY <2>1, CommandEffect, SendEffect, ReplyEffect
  <2>2. CASE CommandPersist
    BY <2>2, PersistEffect
  <2>. QED
    BY <1>3, <2>1, <2>2 DEF Commanding
<1>4. CASE Managing
  <2>1. CASE Ask \/ Delete \/ Abort \/ Wait
    BY <2>1, AskEffect, AbortEffect, WaitEffect DEF Tells, Forgets
  <2>2. CASE DeleteReply \/ AbortInterrupt \/ AbortClear
    BY <2>2, DeleteReplyEffect, AbortInterruptEffect, AbortClearEffect DEF Tells, Forgets
  <2>. QED
    BY <1>4, <2>1, <2>2 DEF Managing
<1>5. CASE Starting
  BY <1>5, StartServerEffect, PublishEffect DEF Starting, program
<1>6. CASE Environment
  <2>1. CASE ClientExit \/ ServerExit
    BY <2>1, ClientExitEffect, ServerExitEffect DEF Forgets
  <2>2. CASE ExitHandled \/ TargetStops
    BY <2>2, ExitHandledEffect, TargetStopsEffect DEF Tells
  <2>. QED
    BY <1>6, <2>1, <2>2 DEF Environment
<1>7. CASE Disposing
  BY <1>7, ShutdownBeginsEffect, ShutdownKillsEffect DEF Disposing, Tells
<1>. QED
  BY <1>1, <1>2, <1>3, <1>4, <1>5, <1>6, <1>7 DEF Next

LEMMA LifeConstants ==
  /\ ~NoLife.known /\ ~NoLife.hit /\ ~NoLife.deleted /\ ~NoLife.empty
  /\ Armed.known /\ ~Armed.hit /\ ~Armed.deleted /\ ~Armed.empty
BY DEF NoLife, Armed

LEMMA StepOrder ==
  ASSUME Typed, OrderInv, Next
  PROVE  OrderInv'
<1>1. CASE rt'.life = rt.life
  BY <1>1 DEF OrderInv
<1>2. CASE rt'.life \in {NoLife, Armed}
  BY <1>2, LifeConstants DEF OrderInv
<1>3. CASE Asked
  <2>1. \/ rt'.life = rt.life
        \/ /\ (rt'.life.known <=> rt.life.known) /\ (rt'.life.hit <=> rt.life.hit)
           /\ (rt'.life.deleted <=> rt.life.deleted) /\ rt.life.deleted
    BY <1>3, AskedEffect
  <2>. QED
    BY <1>1, <2>1 DEF OrderInv
<1>4. CASE DeletePersist
  <2>1. \/ rt'.life = rt.life
        \/ /\ rt.life.hit /\ rt'.life.hit /\ ~rt'.life.empty
           /\ (rt'.life.known <=> rt.life.known)
    BY <1>4, DeletePersistEffect
  <2>. QED
    BY <1>1, <2>1 DEF OrderInv
<1>5. CASE WaitReply
  <2>1. \/ rt'.life \in {NoLife, rt.life}
        \/ /\ rt'.life.known /\ rt'.life.hit
           /\ (rt'.life.deleted <=> rt.life.deleted) /\ (rt'.life.empty <=> rt.life.empty)
        \/ rt'.life.known /\ rt'.life.hit /\ ~rt'.life.deleted /\ ~rt'.life.empty
    BY <1>5, WaitReplyEffect
  <2>. QED
    BY <1>1, <1>2, <2>1 DEF OrderInv
<1>. QED
  BY <1>1, <1>2, <1>3, <1>4, <1>5, LifeChanges

-----------------------------------------------------------------------------
(* Evidence and expectation.                                               *)
LEMMA OrdinaryEvidence ==
  ASSUME EvidenceInv, Expects,
         rt'.prevention \in {rt.prevention, NoBound},
         (rt'.life.known => rt.life.known) \/ OpEvidence,
         rt'.phase \in {rt.phase, "none"} \/ OpEvidence,
         OpEvidence' => RecordEvidence \/ OpEvidence,
         op'.tool = "connect" => op.tool = "connect"
  PROVE  EvidenceInv'
BY DEF EvidenceInv, RecordEvidence, Expects

(* The operations that carry no evidence themselves.                       *)
LEMMA NoOpEvidence ==
  ASSUME op'.tool \notin {"connect", "command", "wait"}
  PROVE  ~OpEvidence'
BY DEF OpEvidence

LEMMA PlainEvidence ==
  ASSUME EvidenceInv, Expects, Trusts, Tells \/ Forgets,
         op'.tool \notin {"connect", "command", "wait"} \/ op' = op
  PROVE  EvidenceInv'
<1>1. CASE op' = op
  <2>1. OpEvidence' <=> OpEvidence
    BY <1>1 DEF OpEvidence
  <2>. QED
    BY <1>1, <2>1, LifeConstants, OrdinaryEvidence DEF Trusts, Tells, Forgets
<1>2. CASE op'.tool \notin {"connect", "command", "wait"}
  BY <1>2, NoOpEvidence, LifeConstants, OrdinaryEvidence DEF Trusts, Tells, Forgets
<1>. QED
  BY <1>1, <1>2

LEMMA StepEvidence ==
  ASSUME Typed, EvidenceInv, Next
  PROVE  EvidenceInv'
<1>0. /\ rt' = rt => Expects /\ Trusts /\ Tells
      /\ UNCHANGED program => rt' = rt
  BY DEF Expects, Trusts, Tells, program
<1>1. CASE Stopping
  <2>1. CASE StopServer \/ StopClear \/ StopDisconnect \/ StopAwait \/ StopObserve
    <3>1. Expects /\ Trusts /\ Tells /\ op'.tool \in {"stop", "none"}
      BY <2>1, StopServerEffect, StopClearEffect, StopOnEffect
    <3>. QED
      BY <3>1, PlainEvidence
  <2>2. CASE StopKill
    <3>1. \/ /\ ~rt'.expectation /\ ~rt'.available /\ op'.tool = "stop"
          \/ Trusts /\ Tells /\ Expects /\ op'.tool = "none"
      BY <2>2, StopKillEffect
    <3>. QED
      BY <3>1, PlainEvidence DEF EvidenceInv
  <2>. QED
    BY <1>1, <2>1, <2>2 DEF Stopping
<1>2. CASE Connect
  <2>1. /\ Trusts /\ Tells /\ Expects /\ ~rt'.available /\ op'.tool = "connect" /\ op'.at = "attach"
    BY <1>2, ConnectEffect
  <2>2. ~OpEvidence'
    BY <2>1 DEF OpEvidence
  <2>. QED
    BY <2>1, <2>2 DEF EvidenceInv, RecordEvidence, Trusts, Tells, Expects
<1>3. CASE ConnectFails \/ ConnectStale \/ Resume
  <2>1. Expects /\ Trusts /\ (Tells \/ Forgets) /\ op'.tool = "none"
    BY <1>3, ConnectFailsEffect, ConnectStaleEffect, ResumeEffect
  <2>. QED
    BY <2>1, PlainEvidence
<1>4. CASE ConnectAttached
  <2>1. Expects /\ ~rt'.expectation /\ op.tool = "connect"
    BY <1>4, ConnectAttachedEffect
  <2>. QED
    BY <2>1 DEF EvidenceInv, Expects
<1>5. CASE Prevent
  <2>1. Expects /\ op.tool = "connect" /\ op.at = "prevent"
    BY <1>5, PreventEffect
  <2>2. OpEvidence
    BY <2>1 DEF OpEvidence
  <2>. QED
    BY <2>1, <2>2 DEF EvidenceInv, Expects
<1>6. CASE Command
  <2>1. /\ Expects /\ rt'.prevention \in {rt.prevention, NoBound} /\ rt'.life = rt.life
        /\ rt'.phase \in {rt.phase, "none"} /\ op'.tool = "command" /\ op'.phase = rt.phase
        /\ op'.kind = "insert" => Confirmed
    BY <1>6, CommandEffect
  <2>2. OpEvidence' => RecordEvidence
    BY <2>1 DEF OpEvidence, RecordEvidence, Confirmed
  <2>. QED
    BY <2>1, <2>2, OrdinaryEvidence
<1>7. CASE Send \/ Reply
  <2>1. /\ Expects /\ rt'.prevention = rt.prevention /\ rt'.life \in {rt.life, NoLife}
        /\ rt'.phase = rt.phase /\ op.tool = "command" /\ op'.tool = "command"
        /\ op'.phase = op.phase /\ op'.kind = op.kind
    BY <1>0, <1>7, SendEffect, ReplyEffect DEF Trusts
  <2>2. OpEvidence' => OpEvidence
    BY <2>1 DEF OpEvidence
  <2>. QED
    BY <2>1, <2>2, LifeConstants, OrdinaryEvidence
<1>8. CASE CommandPersist
  <2>1. /\ Expects /\ rt'.prevention = rt.prevention /\ op.tool = "command" /\ op'.tool = "none"
        /\ rt'.life = rt.life \/ op.kind = "insert"
        /\ \/ rt'.phase \in {rt.phase, "none"}
           \/ op.kind = "insert"
           \/ op.phase # "none"
    BY <1>8, PersistEffect DEF Trusts
  <2>2. op.kind = "insert" \/ op.phase # "none" => OpEvidence
    BY <2>1 DEF OpEvidence
  <2>. QED
    BY <2>1, <2>2, NoOpEvidence, OrdinaryEvidence
<1>9. CASE Managing
  <2>1. CASE Ask \/ Delete \/ Abort
    <3>1. Expects /\ Trusts /\ Tells /\ op'.tool \in {"list", "backtrace", "delete", "abort"}
      BY <1>0, <2>1, AskEffect, AbortEffect
    <3>. QED
      BY <3>1, PlainEvidence
  <2>2. CASE Asked
    <3>1. Expects /\ Trusts /\ rt'.phase = rt.phase /\ (rt'.life.known <=> rt.life.known)
          /\ op'.tool = "none"
      BY <2>2, AskedEffect
    <3>. QED
      BY <3>1, NoOpEvidence, OrdinaryEvidence DEF Trusts
  <2>3. CASE DeletePersist
    <3>1. Expects /\ Trusts /\ rt'.phase = rt.phase /\ (rt'.life.known <=> rt.life.known)
          /\ op'.tool = "none"
      BY <2>3, DeletePersistEffect
    <3>. QED
      BY <3>1, NoOpEvidence, OrdinaryEvidence DEF Trusts
  <2>4. CASE DeleteReply \/ AbortInterrupt \/ AbortClear
    <3>1. Expects /\ Trusts /\ (Tells \/ Forgets) /\ op'.tool \in {"delete", "abort", "none"}
      BY <2>4, DeleteReplyEffect, AbortInterruptEffect, AbortClearEffect
    <3>. QED
      BY <3>1, PlainEvidence
  <2>5. CASE Wait
    <3>1. CASE op' = op /\ Expects /\ Trusts /\ (Tells \/ Forgets)
      BY <3>1, PlainEvidence
    <3>2. CASE rt' = rt /\ op'.tool = "wait" /\ op'.phase = rt.phase
      <4>1. OpEvidence' => RecordEvidence
        BY <3>2 DEF OpEvidence, RecordEvidence
      <4>. QED
        BY <1>0, <3>2, <4>1, OrdinaryEvidence
    <3>. QED
      BY <2>5, <3>1, <3>2, WaitEffect
  <2>6. CASE WaitReply
    <3>1. /\ Expects /\ Trusts /\ rt'.phase \in {rt.phase, "none"} /\ op'.tool = "none"
          /\ op.tool = "wait"
          /\ rt'.life \in {rt.life, NoLife} \/ rt.life.known \/ op.phase = "awaiting"
      BY <2>6, WaitReplyEffect
    <3>2. op.phase = "awaiting" => OpEvidence
      BY <3>1 DEF OpEvidence
    <3>. QED
      BY <3>1, <3>2, NoOpEvidence, LifeConstants, OrdinaryEvidence DEF Trusts
  <2>. QED
    BY <1>9, <2>1, <2>2, <2>3, <2>4, <2>5, <2>6 DEF Managing
<1>10. CASE StartServer
  BY <1>0, <1>10, StartServerEffect, PlainEvidence
<1>11. CASE Publish
  <2>1. CASE rt'.prevention = NoBound /\ rt'.life = NoLife /\ rt'.phase = "none" /\ op'.tool = "none"
    BY <2>1, NoOpEvidence, LifeConstants DEF EvidenceInv, RecordEvidence
  <2>2. CASE rt' = rt /\ op'.tool = "none"
    BY <1>0, <2>2, PlainEvidence
  <2>. QED
    BY <1>11, <2>1, <2>2, PublishEffect
<1>12. CASE ClientExit
  <2>1. ~rt'.expectation /\ ~rt'.available
    BY <1>12, ClientExitEffect
  <2>. QED
    BY <2>1 DEF EvidenceInv
<1>13. CASE ServerExit
  <2>1. op' = op /\ ((~rt'.expectation /\ ~rt'.available) \/ rt' = rt)
    BY <1>13, ServerExitEffect
  <2>. QED
    BY <1>0, <2>1, PlainEvidence DEF EvidenceInv
<1>14. CASE ExitHandled \/ TargetStops \/ ShutdownBegins \/ ShutdownKills
  <2>1. op' = op /\ Expects /\ Trusts /\ Tells
    BY <1>0, <1>14, ExitHandledEffect, TargetStopsEffect, ShutdownBeginsEffect, ShutdownKillsEffect
  <2>. QED
    BY <2>1, PlainEvidence
<1>. QED
  BY <1>1, <1>2, <1>3, <1>4, <1>5, <1>6, <1>7, <1>8, <1>9, <1>10, <1>11, <1>12, <1>13, <1>14
     DEF Next, Starting, Connecting, Commanding, Environment, Disposing

-----------------------------------------------------------------------------
(* A managed breakpoint that was hit: the target stays at rest when it is  *)
(* asked without being made to run, when nothing is asked, and when the    *)
(* client goes.                                                            *)
LEMMA RestQuiet ==
  ASSUME AtRest, client' => client, seen' \in {seen, "unknown"}, ~client' => seen' = "unknown",
         rt'.state \in {seen', "unknown"}
  PROVE  AtRest'
BY DEF AtRest

LEMMA RestSame ==
  ASSUME AtRest, client' = client, seen' = seen, rt'.state \in {rt.state, "unknown"}
  PROVE  AtRest'
BY DEF AtRest

LEMMA RestGone ==
  ASSUME AtRest, ~client', rt'.state \in {rt.state, "unknown"}
  PROVE  AtRest'
BY DEF AtRest

LEMMA RestHalted ==
  ASSUME seen' = "halted", rt'.state = "halted"
  PROVE  AtRest'
BY DEF AtRest

(* The operations that do not make the target run.                         *)
LEMMA HitElsewhere ==
  ASSUME rt'.life.hit => AtRest', op'.tool \notin {"connect", "abort"},
         op'.tool = "stop" => op'.at # "observe"
  PROVE  HitInv'
BY DEF HitInv

LEMMA HitForgotten ==
  ASSUME rt'.life \in {NoLife, Armed}
  PROVE  HitInv'
BY LifeConstants DEF HitInv

LEMMA StepHit ==
  ASSUME Typed, EvidenceInv, OrderInv, HitInv, Next
  PROVE  HitInv'
<1>0. /\ rt' = rt => Tells /\ rt'.state = rt.state
      /\ UNCHANGED program => rt' = rt
      /\ UNCHANGED gdb => UNCHANGED <<client, seen>>
      /\ Disconnected => ~client' /\ seen' = "unknown"
      /\ Dispatched => UNCHANGED <<client, seen>>
      /\ Tells => rt'.life = rt.life
      /\ Forgets => rt'.life = NoLife
      /\ Quietly => (client' => client) /\ seen' \in {seen, "unknown"} /\ (~client' => seen' = "unknown")
  BY DEF Tells, Forgets, program, gdb, Disconnected, Dispatched, Quietly
<1>1. CASE ~rt.life.hit /\ rt'.life = rt.life
  BY <1>1 DEF HitInv
<1>2. CASE rt'.life \in {NoLife, Armed}
  BY <1>2, HitForgotten
<1>3. CASE Asked
  <2>1. /\ (client' => client) /\ seen' \in {seen, "unknown"} /\ (~client' => seen' = "unknown")
        /\ rt'.state \in {seen', "unknown"} /\ op'.tool = "none"
        /\ rt'.life.hit <=> rt.life.hit
    BY <1>0, <1>3, AskedEffect
  <2>. QED
    BY <2>1, RestQuiet, HitElsewhere DEF HitInv
<1>4. CASE DeletePersist
  <2>1. /\ client' = client /\ seen' = seen /\ rt'.state \in {rt.state, "unknown"} /\ op'.tool = "none"
        /\ rt'.life.hit => rt.life.hit
    BY <1>0, <1>4, DeletePersistEffect
  <2>. QED
    BY <2>1, RestSame, HitElsewhere DEF HitInv
<1>5. CASE WaitReply
  <2>1. /\ client' = client /\ seen' = seen /\ rt'.state = seen /\ op'.tool = "none"
        /\ \/ rt'.life = NoLife
           \/ seen = "running" /\ rt'.life = rt.life
           \/ seen = "halted"
    BY <1>5, WaitReplyEffect
  <2>2. CASE seen = "halted"
    BY <2>1, <2>2, RestHalted, HitElsewhere
  <2>3. CASE seen = "running" /\ rt'.life = rt.life
    <3>1. client
      BY <2>3 DEF Typed, ClientTyped
    <3>. QED
      BY <1>1, <2>3, <3>1 DEF HitInv, AtRest
  <2>. QED
    BY <1>2, <2>1, <2>2, <2>3
<1>6. ASSUME rt.life.hit, rt'.life = rt.life, ~Asked, ~DeletePersist, ~WaitReply
      PROVE  HitInv'
  <2>0. /\ AtRest /\ op.tool # "connect" /\ ~(op.tool = "stop" /\ op.at = "observe")
        /\ op.tool = "abort" => op.at = "clear" /\ op.before # "running"
        /\ rt.life.known
    BY <1>6 DEF HitInv, OrderInv
  <2>1. CASE Stopping
    <3>1. CASE StopServer
      <4>1. /\ client' = client /\ seen' = seen /\ rt'.state = rt.state
            /\ op'.tool = "none" \/ (op'.tool = "stop" /\ op'.at \in {"clear", "disconnect"})
        BY <1>0, <3>1, StopServerEffect
      <4>. QED
        BY <2>0, <4>1, RestSame, HitElsewhere
    <3>2. CASE StopClear
      <4>1. CASE Cleared /\ rt'.state = "halted" /\ op'.tool = "stop" /\ op'.at = "disconnect"
        BY <4>1, ClearedEffect, RestHalted, HitElsewhere
      <4>2. CASE NotCleared /\ rt'.state \in {seen', "unknown"} /\ op'.tool = "none"
        BY <2>0, <4>2, NotClearedEffect, RestQuiet, HitElsewhere
      <4>. QED
        BY <3>2, <4>1, <4>2, StopClearEffect
    <3>3. CASE StopDisconnect
      <4>1. ~client' /\ rt'.state = rt.state /\ op'.tool = "stop" /\ op'.at # "observe"
        BY <1>0, <3>3, StopOnEffect DEF StopDisconnect, program, At
      <4>. QED
        BY <2>0, <4>1, RestGone, HitElsewhere
    <3>4. CASE StopAwait
      <4>1. /\ client' = client /\ seen' = seen /\ rt'.state = rt.state
            /\ op'.tool = "none" \/ (op'.tool = "stop" /\ op'.at = "kill")
        BY <1>0, <3>4, StopOnEffect DEF StopAwait, At
      <4>. QED
        BY <2>0, <4>1, RestSame, HitElsewhere
    <3>5. CASE StopObserve
      BY <2>0, <3>5, StopOnEffect DEF StopObserve, At
    <3>6. CASE StopKill
      <4>1. CASE Forgets
        BY <1>0, <1>2, <4>1
      <4>2. CASE rt'.state = rt.state /\ op'.tool = "none"
        <5>1. client' = client /\ seen' = seen
          BY <1>0, <3>6, StopKillEffect
        <5>. QED
          BY <2>0, <4>2, <5>1, RestSame, HitElsewhere
      <4>. QED
        BY <3>6, <4>1, <4>2, StopKillEffect
    <3>. QED
      BY <2>1, <3>1, <3>2, <3>3, <3>4, <3>5, <3>6 DEF Stopping
  <2>2. CASE Connect
    <3>1. rt.state = "running" \/ rt.available
      BY <2>2, ConnectEffect
    <3>. QED
      BY <2>0, <3>1 DEF AtRest, EvidenceInv, RecordEvidence
  <2>3. CASE ConnectFails \/ ConnectAttached \/ ConnectStale \/ Prevent
    BY <2>0, <2>3, ConnectFailsEffect, ConnectAttachedEffect, ConnectStaleEffect, PreventEffect
  <2>4. CASE Resume
    BY <2>0, <2>4, ResumeEffect
  <2>5. CASE Command \/ Send
    <3>1. client' = client /\ seen' = seen /\ rt'.state = rt.state /\ op'.tool = "command"
      BY <1>0, <2>5, CommandEffect, SendEffect
    <3>. QED
      BY <2>0, <3>1, RestSame, HitElsewhere
  <2>6. CASE Reply
    BY <1>2, <2>6, ReplyEffect
  <2>7. CASE CommandPersist
    <3>1. client' = client /\ seen' = seen /\ rt'.state = rt.state /\ op'.tool = "none"
      BY <1>0, <2>7, PersistEffect
    <3>. QED
      BY <2>0, <3>1, RestSame, HitElsewhere
  <2>8. CASE Managing
    <3>1. CASE Ask \/ Delete
      <4>1. client' = client /\ seen' = seen /\ rt'.state = rt.state
            /\ op'.tool \in {"list", "backtrace", "delete"}
        BY <1>0, <3>1, AskEffect
      <4>. QED
        BY <2>0, <4>1, RestSame, HitElsewhere
    <3>2. CASE DeleteReply
      <4>1. /\ (client' => client) /\ seen' \in {seen, "unknown"} /\ (~client' => seen' = "unknown")
            /\ rt'.state = seen' /\ op'.tool \in {"delete", "none"}
        BY <1>0, <3>2, DeleteReplyEffect
      <4>. QED
        BY <2>0, <4>1, RestQuiet, HitElsewhere
    <3>3. CASE Wait
      <4>0. client' = client /\ seen' = seen /\ op.tool = "none"
        BY <1>0, <3>3, WaitEffect
      <4>1. \/ op' = op /\ rt'.state = rt.state
            \/ op' = op /\ seen = "halted" /\ rt'.state = "halted"
            \/ rt'.state = rt.state /\ op'.tool = "wait"
        BY <1>0, <3>3, WaitEffect
      <4>2. AtRest'
        BY <2>0, <4>0, <4>1, RestSame, RestHalted
      <4>. QED
        BY <4>0, <4>1, <4>2, HitElsewhere
    <3>4. CASE Abort
      <4>1. /\ client' = client /\ seen' = seen /\ rt'.state = rt.state /\ client
            /\ op'.tool = "abort" /\ op'.before = seen
            /\ op'.at = (IF seen = "running" THEN "interrupt" ELSE "clear")
        BY <1>0, <3>4, AbortEffect
      <4>2. AtRest' /\ seen # "running"
        BY <2>0, <4>1, RestSame DEF AtRest
      <4>. QED
        BY <4>1, <4>2 DEF HitInv
    <3>5. CASE AbortInterrupt
      BY <2>0, <3>5, AbortInterruptEffect DEF AbortInterrupt, At
    <3>6. CASE AbortClear
      <4>1. CASE Cleared /\ ((Tells /\ op.before = "running") \/ Forgets)
        BY <1>0, <1>2, <2>0, <3>6, <4>1, AbortClearEffect
      <4>2. CASE NotCleared /\ op'.tool = "none"
        <5>1. rt'.state = seen'
          BY <3>6, AbortClearEffect
        <5>. QED
          BY <2>0, <4>2, <5>1, NotClearedEffect, RestQuiet, HitElsewhere
      <4>. QED
        BY <3>6, <4>1, <4>2, AbortClearEffect
    <3>. QED
      BY <1>6, <2>8, <3>1, <3>2, <3>3, <3>4, <3>5, <3>6 DEF Managing
  <2>9. CASE StartServer
    <3>1. client' = client /\ seen' = seen /\ rt'.state = rt.state /\ op'.tool = "start"
      BY <1>0, <2>9, StartServerEffect
    <3>. QED
      BY <2>0, <3>1, RestSame, HitElsewhere
  <2>10. CASE Publish
    <3>0. client' = client /\ seen' = seen /\ op'.tool = "none"
      BY <1>0, <2>10, PublishEffect
    <3>1. CASE rt'.life = NoLife
      BY <1>2, <3>1
    <3>2. CASE rt' = rt
      BY <1>0, <2>0, <3>0, <3>2, RestSame, HitElsewhere
    <3>. QED
      BY <2>10, <3>1, <3>2, PublishEffect
  <2>11. ASSUME op' = op, AtRest'
         PROVE  HitInv'
    BY <2>0, <2>11 DEF HitInv
  <2>12. CASE ClientExit
    BY <1>0, <1>2, <2>12, ClientExitEffect
  <2>13. CASE ServerExit
    <3>1. Forgets \/ rt' = rt
      BY <2>13, ServerExitEffect
    <3>2. op' = op /\ client' = client /\ seen' = seen
      BY <1>0, <2>13, ServerExitEffect
    <3>. QED
      BY <1>0, <1>2, <2>0, <2>11, <3>1, <3>2, RestSame
  <2>14. CASE ExitHandled \/ ShutdownKills
    <3>1. op' = op /\ client' = client /\ seen' = seen /\ rt'.state = rt.state
      BY <1>0, <2>14, ExitHandledEffect, ShutdownKillsEffect
    <3>. QED
      BY <2>0, <2>11, <3>1, RestSame
  <2>15. CASE TargetStops
    BY <2>0, <2>15, TargetStopsEffect DEF AtRest
  <2>16. CASE ShutdownBegins
    <3>1. op' = op /\ ~client' /\ rt'.state = rt.state
      BY <1>0, <2>16, ShutdownBeginsEffect
    <3>. QED
      BY <2>0, <2>11, <3>1, RestGone
  <2>. QED
    BY <2>1, <2>2, <2>3, <2>4, <2>5, <2>6, <2>7, <2>8, <2>9, <2>10, <2>12, <2>13, <2>14, <2>15,
       <2>16 DEF Next, Starting, Connecting, Commanding, Environment, Disposing
<1>. QED
  BY <1>1, <1>2, <1>3, <1>4, <1>5, <1>6, LifeChanges

-----------------------------------------------------------------------------
(* The stop that nobody has waited for.                                    *)
LEMMA OrdinaryPending ==
  ASSUME PendingInv,
         reason' = "breakpoint" => reason = "breakpoint" /\ seen' = seen,
         server' = server,
         op'.tool # "start" => op.tool # "start",
         Managed' => Managed,
         reason' = "breakpoint" /\ story # "none" => story' # "none",
         op'.tool = "command" /\ op'.kind \notin {"insert", "continue"} => rt'.phase = "none"
  PROVE  PendingInv'
BY DEF PendingInv, Live

(* The operations that await no stop themselves.                           *)
LEMMA PlainPending ==
  ASSUME PendingInv, Tells \/ Forgets,
         reason' = "breakpoint" => reason = "breakpoint" /\ seen' = seen,
         server' = server,
         reason' = "breakpoint" /\ story # "none" => story' # "none",
         op'.tool \notin {"start", "command", "wait"}, op.tool # "start"
  PROVE  PendingInv'
<1>1. Managed' => Managed
  BY LifeConstants DEF Managed, Tells, Forgets
<1>. QED
  BY <1>1, OrdinaryPending

(* What others do beside an operation.                                     *)
LEMMA BesidePending ==
  ASSUME PendingInv, Tells \/ Forgets, op' = op,
         reason' = "none" \/ (reason' = reason /\ seen' = seen /\ server' = server /\ story' = story)
  PROVE  PendingInv'
<1>1. rt'.phase \in {rt.phase, "none"} /\ (rt'.life.known => rt.life.known)
  BY LifeConstants DEF Tells, Forgets
<1>2. Managed' => Managed
  BY <1>1 DEF Managed
<1>. QED
  BY <1>1, <1>2 DEF PendingInv, Live

LEMMA StepPending ==
  ASSUME Typed, PendingInv, Next
  PROVE  PendingInv'
<1>0. /\ rt' = rt => Tells
      /\ UNCHANGED program => rt' = rt
      /\ UNCHANGED facts => story' = story
      /\ UNCHANGED gdb => UNCHANGED <<client, seen, reason>>
      /\ Disconnected => reason' = "none"
      /\ Dispatched => reason' = "none"
      /\ Frame => server' = server
      /\ Quietly => (reason' = "breakpoint" => reason = "breakpoint" /\ seen' = seen)
  BY DEF Tells, program, facts, gdb, Disconnected, Dispatched, Frame, Quietly
<1>1. CASE Stopping
  <2>1. CASE StopServer
    <3>1. /\ server' = server /\ Tells /\ story' = story /\ op.tool = "none"
          /\ op'.tool \in {"stop", "none"} /\ (reason' = "none" \/ UNCHANGED <<reason, seen>>)
      BY <1>0, <2>1, StopServerEffect
    <3>. QED
      BY <3>1, PlainPending
  <2>2. CASE StopClear
    <3>1. /\ server' = server /\ Tells /\ op.tool = "stop" /\ op'.tool \in {"stop", "none"}
          /\ story' = (IF seen' = "halted" THEN story ELSE "none")
      BY <1>0, <2>2, StopClearEffect
    <3>2. reason' = "breakpoint" => reason = "breakpoint" /\ seen' = seen
      BY <2>2, StopClearEffect, ClearedEffect, NotClearedEffect
    <3>3. reason' = "breakpoint" => story' = story
      BY <3>1, <3>2 DEF PendingInv
    <3>. QED
      BY <3>1, <3>2, <3>3, PlainPending
  <2>3. CASE StopDisconnect \/ StopAwait \/ StopObserve
    <3>1. /\ server' = server /\ Tells /\ story' = story /\ op.tool = "stop"
          /\ op'.tool \in {"stop", "none"} /\ (reason' = "none" \/ UNCHANGED <<reason, seen>>)
      BY <1>0, <2>3, StopOnEffect
    <3>. QED
      BY <3>1, PlainPending
  <2>4. CASE StopKill
    <3>1. /\ UNCHANGED <<reason, seen>> /\ story' = story /\ op.tool = "stop"
          /\ op'.tool \in {"stop", "none"}
      BY <1>0, <2>4, StopKillEffect
    <3>2. CASE server' = server /\ Tells
      BY <3>1, <3>2, PlainPending
    <3>3. CASE KillServer
      BY <3>1, <3>3 DEF PendingInv, Live, KillServer
    <3>. QED
      BY <2>4, <3>2, <3>3, StopKillEffect
  <2>. QED
    BY <1>1, <2>1, <2>2, <2>3, <2>4 DEF Stopping
<1>2. CASE Connecting
  <2>1. CASE Connect
    <3>1. /\ server' = server /\ Tells /\ story' = story /\ op.tool = "none"
          /\ op'.tool = "connect" /\ UNCHANGED <<reason, seen>>
      BY <1>0, <2>1, ConnectEffect
    <3>. QED
      BY <3>1, PlainPending
  <2>2. CASE ConnectFails
    <3>1. /\ server' = server /\ Tells /\ op.tool = "connect" /\ op'.tool = "none"
          /\ story' = (IF client' THEN story ELSE "none")
          /\ reason' = "breakpoint" => reason = "breakpoint" /\ client'
          /\ client' => seen' = seen
      BY <1>0, <2>2, ConnectFailsEffect
    <3>. QED
      BY <3>1, PlainPending
  <2>3. CASE ConnectAttached
    <3>1. /\ server' = server /\ Tells /\ op.tool = "connect" /\ op'.tool \in {"connect", "none"}
          /\ story' = story
          /\ reason' = "breakpoint" => reason = "breakpoint" /\ seen' = seen
      BY <1>0, <2>3, ConnectAttachedEffect
    <3>. QED
      BY <3>1, PlainPending
  <2>4. CASE ConnectStale
    <3>1. /\ server' = server /\ Tells /\ op.tool = "connect" /\ op'.tool = "none"
          /\ reason' = "none"
      BY <1>0, <2>4, ConnectStaleEffect
    <3>. QED
      BY <3>1, PlainPending
  <2>5. CASE Prevent \/ Resume
    <3>1. /\ server' = server /\ (Tells \/ Forgets) /\ op.tool \in {"connect", "abort"}
          /\ op'.tool \in {"connect", "none"}
          /\ story' = (IF seen' = seen THEN story ELSE "none")
          /\ reason' = "breakpoint" => reason = "breakpoint" /\ seen' = seen
      BY <1>0, <2>5, PreventEffect, ResumeEffect
    <3>. QED
      BY <3>1, PlainPending
  <2>. QED
    BY <1>2, <2>1, <2>2, <2>3, <2>4, <2>5 DEF Connecting
<1>3. CASE Command
  <2>1. /\ server' = server /\ story' = story /\ seen' = seen /\ reason' \in {reason, "none"}
        /\ rt'.life = rt.life /\ rt'.phase \in {rt.phase, "none"}
        /\ op.tool = "none" /\ op'.tool = "command"
        /\ op'.kind \in {"insert", "continue"} => reason' = "none"
        /\ op'.kind \notin {"insert", "continue"} => rt'.phase = "none"
    BY <1>0, <1>3, CommandEffect
  <2>2. CASE op'.kind \in {"insert", "continue"}
    BY <2>1, <2>2 DEF PendingInv
  <2>3. CASE op'.kind \notin {"insert", "continue"}
    <3>1. Managed' => Managed
      BY <2>1, <2>3 DEF Managed
    <3>. QED
      BY <2>1, <2>3, <3>1, OrdinaryPending
  <2>. QED
    BY <2>2, <2>3
<1>4. CASE Send
  <2>1. /\ server' = server /\ UNCHANGED <<seen, reason, story>> /\ rt' = rt
        /\ op.tool = "command" /\ op'.tool = "command" /\ op'.kind = op.kind
    BY <1>0, <1>4, SendEffect
  <2>2. Managed' => Managed
    BY <2>1 DEF Managed
  <2>3. op'.kind \notin {"insert", "continue"} => rt'.phase = "none"
    BY <2>1 DEF PendingInv
  <2>. QED
    BY <2>1, <2>2, <2>3, OrdinaryPending
<1>5. CASE Reply
  <2>1. /\ server' = server /\ rt'.life = NoLife /\ rt'.phase = rt.phase
        /\ op.tool = "command" /\ op'.tool = "command" /\ op'.kind = op.kind
        /\ reason' = "breakpoint" => reason = "breakpoint" /\ seen' = seen
        /\ op.kind \in {"insert", "continue"} /\ seen' = seen /\ story # "none" => story' # "none"
    BY <1>0, <1>5, ReplyEffect
  <2>2. op.kind \notin {"insert", "continue"} => rt'.phase = "none"
    BY <2>1 DEF PendingInv
  <2>3. CASE op.kind \in {"insert", "continue"}
    <3>1. Managed
      BY <2>1, <2>3 DEF Managed
    <3>. QED
      BY <2>1, <2>3, <3>1, OrdinaryPending
  <2>4. CASE op.kind \notin {"insert", "continue"}
    <3>1. ~Managed'
      BY <2>1, <2>2, <2>4, LifeConstants DEF Managed
    <3>. QED
      BY <2>1, <2>2, <3>1 DEF PendingInv
  <2>. QED
    BY <2>3, <2>4
<1>6. CASE CommandPersist
  <2>1. /\ server' = server /\ UNCHANGED <<seen, reason>> /\ story' = story
        /\ op.tool = "command" /\ op'.tool = "none"
        /\ rt'.life = rt.life \/ op.kind = "insert"
        /\ rt'.phase \in {rt.phase, "none"} \/ op.kind \in {"insert", "continue"}
    BY <1>0, <1>6, PersistEffect
  <2>2. Managed' => Managed
    BY <2>1 DEF Managed
  <2>. QED
    BY <2>1, <2>2, OrdinaryPending
<1>7. CASE Managing
  <2>1. CASE Ask \/ Delete
    <3>1. /\ server' = server /\ Tells /\ reason' = "none" /\ op.tool = "none"
          /\ op'.tool \in {"list", "backtrace", "delete"}
      BY <1>0, <2>1, AskEffect
    <3>. QED
      BY <3>1, PlainPending
  <2>2. CASE Asked
    <3>1. /\ server' = server /\ op.tool # "start" /\ op'.tool = "none" /\ rt'.phase = rt.phase
          /\ rt'.life.known <=> rt.life.known
          /\ reason' = "breakpoint" => reason = "breakpoint" /\ seen' = seen
      BY <1>0, <2>2, AskedEffect
    <3>2. reason' = "breakpoint" /\ story # "none" => story' # "none"
      <4>1. CASE \E empty \in BOOLEAN : story' = ToldList(empty)
        BY <4>1 DEF ToldList
      <4>2. CASE story' = (IF seen' = seen THEN story ELSE "none")
        BY <3>1, <4>2
      <4>. QED
        BY <2>2, <4>1, <4>2, AskedEffect
    <3>3. Managed' => Managed
      BY <3>1 DEF Managed
    <3>. QED
      BY <3>1, <3>2, <3>3, OrdinaryPending
  <2>3. CASE DeleteReply
    <3>1. /\ server' = server /\ Tells /\ op.tool = "delete" /\ op'.tool \in {"delete", "none"}
          /\ story' = (IF seen' = seen THEN story ELSE "none")
          /\ reason' = "breakpoint" => reason = "breakpoint" /\ seen' = seen
      BY <1>0, <2>3, DeleteReplyEffect
    <3>. QED
      BY <3>1, PlainPending
  <2>4. CASE DeletePersist
    <3>1. /\ server' = server /\ op.tool # "start" /\ op'.tool = "none" /\ rt'.phase = rt.phase
          /\ rt'.life.known <=> rt.life.known
          /\ UNCHANGED <<reason, seen>> /\ (story # "none" => story' # "none")
      BY <1>0, <2>4, DeletePersistEffect
    <3>2. Managed' => Managed
      BY <3>1 DEF Managed
    <3>. QED
      BY <3>1, <3>2, OrdinaryPending
  <2>5. CASE Wait
    <3>0. server' = server /\ UNCHANGED <<reason, seen>> /\ story' = story /\ op.tool = "none"
      BY <1>0, <2>5, WaitEffect
    <3>1. CASE op' = op /\ (Tells \/ Forgets)
      BY <3>0, <3>1, PlainPending
    <3>2. CASE rt' = rt /\ op'.tool = "wait" /\ op'.phase = rt.phase
      <4>1. Managed' => Managed
        BY <3>2 DEF Managed
      <4>. QED
        BY <3>0, <3>2, <4>1, OrdinaryPending
    <3>. QED
      BY <2>5, <3>1, <3>2, WaitEffect
  <2>6. CASE WaitReply
    <3>1. /\ server' = server /\ seen' = seen /\ reason' \in {reason, "none"} /\ story' = story
          /\ op.tool = "wait" /\ op'.tool = "none" /\ rt'.phase \in {rt.phase, "none"}
          /\ rt'.life \in {rt.life, NoLife} \/ rt.life.known \/ op.phase = "awaiting"
      BY <1>0, <2>6, WaitReplyEffect
    <3>2. Managed' => Managed
      BY <3>1, LifeConstants DEF Managed
    <3>. QED
      BY <3>1, <3>2, OrdinaryPending
  <2>7. CASE Abort
    <3>1. /\ server' = server /\ Tells /\ story' = story /\ op.tool = "none" /\ op'.tool = "abort"
          /\ seen' = seen /\ reason' \in {reason, "none"}
      BY <1>0, <2>7, AbortEffect
    <3>. QED
      BY <3>1, PlainPending
  <2>8. CASE AbortInterrupt
    <3>1. /\ server' = server /\ Tells /\ op.tool = "abort" /\ op'.tool \in {"abort", "none"}
          /\ story' = (IF seen' = seen THEN story ELSE "none")
          /\ reason' = "breakpoint" => reason = "breakpoint" /\ seen' = seen
      BY <1>0, <2>8, AbortInterruptEffect
    <3>. QED
      BY <3>1, PlainPending
  <2>9. CASE AbortClear
    <3>1. /\ server' = server /\ (Tells \/ Forgets) /\ op.tool = "abort"
          /\ op'.tool \in {"abort", "none"}
          /\ story' = (IF seen' = seen THEN story ELSE "none")
      BY <1>0, <2>9, AbortClearEffect
    <3>2. reason' = "breakpoint" => reason = "breakpoint" /\ seen' = seen
      BY <2>9, AbortClearEffect, ClearedEffect, NotClearedEffect
    <3>. QED
      BY <3>1, <3>2, PlainPending
  <2>. QED
    BY <1>7, <2>1, <2>2, <2>3, <2>4, <2>5, <2>6, <2>7, <2>8, <2>9 DEF Managing
<1>8. CASE StartServer
  <2>1. UNCHANGED <<reason, seen>> /\ op'.tool = "start"
    BY <1>0, <1>8, StartServerEffect
  <2>. QED
    BY <2>1 DEF PendingInv
<1>9. CASE Publish
  <2>1. UNCHANGED <<reason, seen>> /\ op'.tool = "none"
    BY <1>0, <1>9, PublishEffect
  <2>2. CASE rt'.life = NoLife /\ rt'.phase = "none"
    <3>1. ~Managed'
      BY <2>1, <2>2, LifeConstants DEF Managed
    <3>. QED
      BY <2>1, <3>1 DEF PendingInv
  <2>3. CASE KillServer
    BY <2>1, <2>3 DEF PendingInv, Live, KillServer
  <2>. QED
    BY <1>9, <2>2, <2>3, PublishEffect
<1>10. CASE ClientExit
  BY <1>0, <1>10, ClientExitEffect, BesidePending
<1>11. CASE ServerExit
  <2>1. /\ UNCHANGED <<reason, seen, op>> /\ ~Live' /\ (Tells \/ Forgets)
    BY <1>0, <1>11, ServerExitEffect DEF Live
  <2>2. rt'.phase \in {rt.phase, "none"}
    BY <2>1 DEF Tells, Forgets
  <2>. QED
    BY <2>1, <2>2 DEF PendingInv
<1>12. CASE ExitHandled
  BY <1>0, <1>12, ExitHandledEffect, BesidePending
<1>13. CASE TargetStops
  <2>1. /\ rt' = rt /\ op' = op /\ seen' = "halted"
        /\ story' = (IF reason' = "breakpoint" THEN "hit" ELSE "none")
    BY <1>13, TargetStopsEffect
  <2>. QED
    BY <2>1 DEF PendingInv
<1>14. CASE ShutdownBegins
  BY <1>0, <1>14, ShutdownBeginsEffect, BesidePending
<1>15. CASE ShutdownKills
  <2>1. /\ UNCHANGED <<reason, seen, op>> /\ ~Live' /\ Tells
    BY <1>0, <1>15, ShutdownKillsEffect, KillServerEffect DEF Live
  <2>. QED
    BY <2>1 DEF PendingInv, Tells
<1>. QED
  BY <1>1, <1>2, <1>3, <1>4, <1>5, <1>6, <1>7, <1>8, <1>9, <1>10, <1>11, <1>12, <1>13, <1>14,
     <1>15 DEF Next, Starting, Commanding, Environment, Disposing

-----------------------------------------------------------------------------
(* What the life cycle says has happened.                                  *)
LEMMA StoryKept ==
  ASSUME StoryInv, rt'.life = rt.life, server' = server,
         op'.tool # "start" => op.tool # "start",
         ExecutionState' = "halted" => ExecutionState = "halted" /\ story' = story
  PROVE  StoryInv'
BY DEF StoryInv, Told, Live

LEMMA StoryNotHit ==
  ASSUME OrderInv', ~rt'.life.hit
  PROVE  StoryInv'
BY DEF StoryInv, OrderInv, Told

LEMMA StoryDead ==
  ASSUME ~Live'
  PROVE  StoryInv'
BY DEF StoryInv

(* A target at rest is asked without being made to run.                    *)
LEMMA StoryQuiet ==
  ASSUME client' => client, seen' \in {seen, "unknown"}, ~client' => seen' = "unknown",
         rt'.state \in {seen', "unknown"}, ExecutionState' = "halted"
  PROVE  ExecutionState = "halted" /\ seen' = seen /\ seen' = "halted" /\ client /\ client'
BY DEF ExecutionState

LEMMA StorySame ==
  ASSUME client' = client, seen' = seen, rt'.state \in {rt.state, "unknown"},
         ExecutionState' = "halted"
  PROVE  ExecutionState = "halted"
BY DEF ExecutionState

LEMMA StepStory ==
  ASSUME Typed, OwnerInv, EvidenceInv, OrderInv, HitInv, PendingInv, StoryInv, Next
  PROVE  StoryInv'
<1>0. /\ rt' = rt => rt'.state = rt.state
      /\ UNCHANGED program => rt' = rt
      /\ UNCHANGED facts => story' = story
      /\ UNCHANGED gdb => UNCHANGED <<client, seen>>
      /\ Dispatched => UNCHANGED <<client, seen>>
      /\ Disconnected => ~client' /\ seen' = "unknown"
      /\ Forgets => rt'.life = NoLife
      /\ Frame => server' = server
      /\ Quietly => (client' => client) /\ seen' \in {seen, "unknown"} /\ (~client' => seen' = "unknown")
      /\ OrderInv'
  BY StepOrder DEF program, facts, gdb, Dispatched, Disconnected, Forgets, Frame, Quietly
<1>1. CASE ~rt'.life.hit
  BY <1>0, <1>1, StoryNotHit
<1>2. CASE rt'.life = NoLife
  BY <1>1, <1>2, LifeConstants
<1>3. CASE Asked
  <2>0. /\ server' = server /\ op.tool # "start" /\ op'.tool = "none"
        /\ (client' => client) /\ seen' \in {seen, "unknown"} /\ (~client' => seen' = "unknown")
        /\ rt'.state \in {seen', "unknown"}
    BY <1>0, <1>3, AskedEffect
  <2>1. CASE rt'.life = rt.life /\ story' = (IF seen' = seen THEN story ELSE "none")
    BY <2>0, <2>1, StoryQuiet, StoryKept
  <2>2. ASSUME NEW empty \in BOOLEAN, story' = ToldList(empty),
               rt'.life.hit <=> rt.life.hit, rt'.life.deleted <=> rt.life.deleted,
               rt.life.deleted => (rt'.life.empty => empty),
               ~rt.life.deleted => rt'.life = rt.life,
               ExecutionState' = "halted", Live'
        PROVE  Told'
    <3>1. Told
      BY <2>0, <2>2, StoryQuiet DEF StoryInv, Live
    <3>2. CASE rt.life.deleted
      BY <2>2, <3>1, <3>2 DEF Told, ToldList
    <3>3. CASE ~rt.life.deleted
      BY <2>2, <3>1, <3>3 DEF Told, ToldList, OrderInv
    <3>. QED
      BY <3>2, <3>3
  <2>. QED
    BY <1>3, <2>1, <2>2, AskedEffect DEF StoryInv
<1>4. CASE DeletePersist
  <2>0. /\ server' = server /\ op.tool # "start" /\ client' = client /\ seen' = seen
        /\ rt'.state \in {rt.state, "unknown"}
    BY <1>0, <1>4, DeletePersistEffect
  <2>1. CASE rt'.life = rt.life /\ story' = story
    BY <2>0, <2>1, StorySame, StoryKept
  <2>2. CASE rt'.life = rt.life /\ ~rt.life.hit
    BY <1>1, <2>2
  <2>3. CASE /\ story' = (IF story # "none" THEN "deleted" ELSE story)
             /\ rt.life.hit /\ rt'.life.hit /\ rt'.life.deleted /\ ~rt'.life.empty
    <3>1. ASSUME ExecutionState' = "halted", Live'
          PROVE  Told'
      BY <2>0, <2>3, <3>1, StorySame DEF StoryInv, Told, Live
    <3>. QED
      BY <3>1 DEF StoryInv
  <2>. QED
    BY <1>4, <2>1, <2>2, <2>3, DeletePersistEffect
<1>5. CASE WaitReply
  <2>0. /\ server' = server /\ op.tool = "wait" /\ client' = client /\ seen' = seen /\ story' = story
        /\ rt'.state = seen
    BY <1>0, <1>5, WaitReplyEffect
  <2>1. CASE seen = "running" /\ rt'.life = rt.life
    <3>1. ExecutionState' # "halted"
      BY <2>0, <2>1 DEF ExecutionState
    <3>. QED
      BY <3>1 DEF StoryInv
  <2>2. CASE /\ seen = "halted" /\ reason = "breakpoint" /\ rt.life.known
             /\ (rt'.life.deleted <=> rt.life.deleted) /\ (rt'.life.empty <=> rt.life.empty)
    <3>1. Managed /\ client
      BY <2>2 DEF Managed, Typed, ClientTyped
    <3>2. ExecutionState = "halted"
      BY <2>2, <3>1 DEF ExecutionState
    <3>3. Live' => Live /\ story # "none"
      BY <2>0, <2>2, <3>1 DEF PendingInv, Live
    <3>4. Live' => Told'
      BY <2>0, <2>2, <3>2, <3>3 DEF StoryInv, Told
    <3>. QED
      BY <3>4 DEF StoryInv
  <2>3. CASE /\ reason = "breakpoint" /\ op.phase = "awaiting"
             /\ ~rt'.life.deleted /\ ~rt'.life.empty
    <3>1. Managed
      BY <2>0, <2>3 DEF Managed
    <3>2. Live' => Live /\ story # "none"
      BY <2>0, <2>3, <3>1 DEF PendingInv, Live
    <3>3. Live' => Told'
      BY <2>0, <2>3, <3>2 DEF Told
    <3>. QED
      BY <3>3 DEF StoryInv
  <2>. QED
    BY <1>2, <1>5, <2>1, <2>2, <2>3, WaitReplyEffect
<1>6. ASSUME rt'.life = rt.life, rt.life.hit, ~Asked, ~DeletePersist, ~WaitReply
      PROVE  StoryInv'
  <2>0. /\ AtRest /\ op.tool # "connect" /\ ~(op.tool = "stop" /\ op.at = "observe")
        /\ op.tool = "abort" => op.at = "clear" /\ op.before # "running"
        /\ rt.life.known
    BY <1>6 DEF HitInv, OrderInv
  <2>1. ASSUME client' = client, seen' = seen, rt'.state \in {rt.state, "unknown"}, server' = server,
               op'.tool # "start" => op.tool # "start", story' = story
        PROVE  StoryInv'
    BY <1>6, <2>1, StorySame, StoryKept
  <2>2. ASSUME client' => client, seen' \in {seen, "unknown"}, ~client' => seen' = "unknown",
               rt'.state \in {seen', "unknown"}, server' = server, op.tool # "start",
               \/ story' = (IF seen' = seen THEN story ELSE "none")
               \/ story' = (IF seen' = "halted" THEN story ELSE "none")
        PROVE  StoryInv'
    BY <1>6, <2>2, StoryQuiet, StoryKept
  <2>3. CASE Stopping
    <3>1. CASE StopServer
      <4>1. /\ client' = client /\ seen' = seen /\ rt'.state = rt.state /\ server' = server
            /\ op.tool = "none" /\ story' = story
        BY <1>0, <3>1, StopServerEffect
      <4>. QED
        BY <2>1, <4>1
    <3>2. CASE StopClear
      <4>0. server' = server /\ op.tool = "stop" /\ story' = (IF seen' = "halted" THEN story ELSE "none")
        BY <1>0, <3>2, StopClearEffect
      <4>1. CASE Cleared
        <5>1. client /\ client' /\ seen = "halted" /\ seen' = "halted"
          BY <4>1, ClearedEffect
        <5>2. ExecutionState = "halted"
          BY <5>1 DEF ExecutionState
        <5>. QED
          BY <1>6, <4>0, <5>1, <5>2, StoryKept
      <4>2. CASE NotCleared /\ rt'.state \in {seen', "unknown"}
        <5>1. (client' => client) /\ seen' \in {seen, "unknown"} /\ (~client' => seen' = "unknown")
          BY <4>2, NotClearedEffect
        <5>. QED
          BY <2>2, <4>0, <4>2, <5>1
      <4>. QED
        BY <3>2, <4>1, <4>2, StopClearEffect
    <3>3. CASE StopDisconnect
      <4>1. /\ ~client' /\ rt'.state = rt.state /\ server' = server /\ op.tool = "stop" /\ story' = story
        BY <1>0, <3>3, StopOnEffect DEF StopDisconnect
      <4>2. ExecutionState' = "halted" => ExecutionState = "halted"
        BY <2>0, <4>1 DEF ExecutionState, AtRest
      <4>. QED
        BY <1>6, <4>1, <4>2, StoryKept
    <3>4. CASE StopAwait
      <4>1. /\ client' = client /\ seen' = seen /\ rt'.state = rt.state /\ server' = server
            /\ op.tool = "stop" /\ story' = story
        BY <1>0, <3>4, StopOnEffect DEF StopAwait, At
      <4>. QED
        BY <2>1, <4>1
    <3>5. CASE StopObserve
      BY <2>0, <3>5, StopOnEffect DEF StopObserve, At
    <3>6. CASE StopKill
      <4>1. CASE Forgets
        BY <1>0, <1>2, <4>1
      <4>2. CASE rt'.state = rt.state /\ server' = server
        <5>1. client' = client /\ seen' = seen /\ op.tool = "stop" /\ story' = story
          BY <1>0, <3>6, StopKillEffect
        <5>. QED
          BY <2>1, <4>2, <5>1
      <4>. QED
        BY <3>6, <4>1, <4>2, StopKillEffect
    <3>. QED
      BY <2>3, <3>1, <3>2, <3>3, <3>4, <3>5, <3>6 DEF Stopping
  <2>4. CASE Connect
    <3>1. rt.state = "running" \/ rt.available
      BY <2>4, ConnectEffect
    <3>. QED
      BY <2>0, <3>1 DEF AtRest, EvidenceInv, RecordEvidence
  <2>5. CASE ConnectFails \/ ConnectAttached \/ ConnectStale \/ Prevent
    BY <2>0, <2>5, ConnectFailsEffect, ConnectAttachedEffect, ConnectStaleEffect, PreventEffect
  <2>6. CASE Resume
    BY <2>0, <2>6, ResumeEffect
  <2>7. CASE Command \/ Send \/ CommandPersist
    <3>1. /\ client' = client /\ seen' = seen /\ rt'.state = rt.state /\ server' = server
          /\ op.tool # "start" /\ story' = story
      BY <1>0, <2>7, CommandEffect, SendEffect, PersistEffect
    <3>. QED
      BY <2>1, <3>1
  <2>8. CASE Reply
    BY <1>2, <2>8, ReplyEffect
  <2>9. CASE Managing
    <3>1. CASE Ask \/ Delete \/ Abort
      <4>1. /\ client' = client /\ seen' = seen /\ rt'.state = rt.state /\ server' = server
            /\ op.tool = "none" /\ story' = story
        BY <1>0, <3>1, AskEffect, AbortEffect
      <4>. QED
        BY <2>1, <4>1
    <3>2. CASE DeleteReply
      <4>1. /\ (client' => client) /\ seen' \in {seen, "unknown"} /\ (~client' => seen' = "unknown")
            /\ rt'.state = seen' /\ server' = server /\ op.tool = "delete"
            /\ story' = (IF seen' = seen THEN story ELSE "none")
        BY <1>0, <3>2, DeleteReplyEffect
      <4>. QED
        BY <2>2, <4>1
    <3>3. CASE Wait
      <4>1. /\ client' = client /\ seen' = seen /\ server' = server /\ op.tool = "none" /\ story' = story
            /\ client
        BY <1>0, <3>3, WaitEffect
      <4>2. ExecutionState' = ExecutionState
        BY <4>1 DEF ExecutionState
      <4>. QED
        BY <1>6, <4>1, <4>2, StoryKept
    <3>4. CASE AbortInterrupt
      BY <2>0, <3>4, AbortInterruptEffect DEF AbortInterrupt, At
    <3>5. CASE AbortClear
      <4>0. /\ server' = server /\ op.tool = "abort" /\ rt'.state = seen'
            /\ story' = (IF seen' = seen THEN story ELSE "none")
        BY <1>0, <3>5, AbortClearEffect
      <4>1. CASE Cleared
        <5>1. client /\ client' /\ seen = "halted" /\ seen' = "halted"
          BY <4>1, ClearedEffect
        <5>2. ExecutionState = "halted"
          BY <5>1 DEF ExecutionState
        <5>. QED
          BY <1>6, <4>0, <5>1, <5>2, StoryKept
      <4>2. CASE NotCleared
        <5>1. (client' => client) /\ seen' \in {seen, "unknown"} /\ (~client' => seen' = "unknown")
          BY <4>2, NotClearedEffect
        <5>. QED
          BY <2>2, <4>0, <5>1
      <4>. QED
        BY <3>5, <4>1, <4>2, AbortClearEffect
    <3>. QED
      BY <1>6, <2>9, <3>1, <3>2, <3>3, <3>4, <3>5 DEF Managing
  <2>10. CASE StartServer
    <3>1. op'.tool = "start"
      BY <2>10, StartServerEffect
    <3>. QED
      BY <3>1 DEF StoryInv
  <2>11. CASE Publish
    <3>1. rt'.life = NoLife \/ ~Live'
      BY <2>11, PublishEffect, KillServerEffect DEF Live
    <3>. QED
      BY <1>2, <3>1, StoryDead
  <2>12. CASE ClientExit
    BY <1>0, <1>2, <2>12, ClientExitEffect
  <2>13. CASE ServerExit \/ ShutdownKills
    <3>1. ~Live'
      BY <2>13, ServerExitEffect, ShutdownKillsEffect, KillServerEffect DEF Live
    <3>. QED
      BY <3>1, StoryDead
  <2>14. CASE ExitHandled
    <3>1. /\ client' = client /\ seen' = seen /\ rt'.state = rt.state /\ server' = server
          /\ op' = op /\ story' = story
      BY <1>0, <2>14, ExitHandledEffect
    <3>. QED
      BY <2>1, <3>1
  <2>15. CASE TargetStops
    BY <2>0, <2>15, TargetStopsEffect DEF AtRest
  <2>16. CASE ShutdownBegins
    <3>1. server' = server /\ CanSafelyDispose
      BY <2>16, ShutdownBeginsEffect
    <3>2. CASE server = 0
      BY <3>1, <3>2, StoryDead DEF Live
    <3>3. CASE ExecutionState = "running"
      BY <2>0, <3>3 DEF AtRest, ExecutionState
    <3>. QED
      BY <3>1, <3>2, <3>3 DEF CanSafelyDispose
  <2>. QED
    BY <2>3, <2>4, <2>5, <2>6, <2>7, <2>8, <2>9, <2>10, <2>11, <2>12, <2>13, <2>14, <2>15, <2>16
       DEF Next, Starting, Connecting, Commanding, Environment, Disposing
<1>7. CASE rt'.life = Armed
  BY <1>1, <1>7, LifeConstants
<1>8. CASE rt'.life = rt.life /\ ~rt.life.hit
  BY <1>1, <1>8
<1>. QED
  BY <1>2, <1>3, <1>4, <1>5, <1>6, <1>7, <1>8, LifeChanges

-----------------------------------------------------------------------------
(* What may be planted is marked.                                          *)
LEMMA PlantedKept ==
  ASSUME PlantedInv, Marked, planted' => planted, ~Inserting("reply") \/ op' = op,
         op'.tool = "stop" =>
           op' = op \/ (op.tool = "stop" /\ op.at \in {"disconnect", "await", "kill"})
  PROVE  PlantedInv'
BY DEF PlantedInv, StopLeavesNoBreakpoint, CleanupPending, Inserting, Marked

LEMMA PlantedSame ==
  ASSUME PlantedInv, Marked, planted' = planted, op' = op
  PROVE  PlantedInv'
<1>2. Inserting("reply") => Inserting("reply")'
  BY DEF Inserting
<1>3. planted' => CleanupPending' \/ Inserting("reply")'
  BY <1>2 DEF PlantedInv, CleanupPending, Marked
<1>4. StopLeavesNoBreakpoint'
  BY DEF PlantedInv, StopLeavesNoBreakpoint
<1>. QED
  BY <1>3, <1>4 DEF PlantedInv

LEMMA PlantedNothing ==
  ASSUME planted' = FALSE
  PROVE  PlantedInv'
BY DEF PlantedInv, StopLeavesNoBreakpoint

LEMMA StepPlanted ==
  ASSUME Typed, OwnerInv, PlantedInv, Next, "resume" \notin Faults
  PROVE  PlantedInv'
<1>0. /\ rt' = rt => Marked
      /\ UNCHANGED program => rt' = rt
      /\ UNCHANGED facts => planted' = planted
      /\ op.tool # "command" => ~Inserting("reply")
  BY DEF Marked, program, facts, Inserting
<1>1. CASE Stopping
  <2>1. CASE StopServer
    <3>1. /\ Marked /\ planted' = planted /\ ~Inserting("reply")
          /\ op'.tool = "stop" => op'.at = (IF CleanupPending THEN "clear" ELSE "disconnect")
      BY <1>0, <2>1, StopServerEffect
    <3>2. planted => CleanupPending
      BY <3>1 DEF PlantedInv
    <3>3. planted' => CleanupPending'
      BY <3>1, <3>2 DEF CleanupPending, Marked
    <3>. QED
      BY <3>1, <3>2, <3>3 DEF PlantedInv, StopLeavesNoBreakpoint
  <2>2. CASE StopClear
    <3>1. CASE Cleared
      BY <3>1, ClearedEffect, PlantedNothing
    <3>2. CASE NotCleared /\ Marked /\ op'.tool = "none"
      <4>1. ~Inserting("reply")
        BY <1>0, <2>2, StopClearEffect
      <4>. QED
        BY <3>2, <4>1, NotClearedEffect, PlantedKept
    <3>. QED
      BY <2>2, <3>1, <3>2, StopClearEffect
  <2>3. CASE StopDisconnect \/ StopAwait \/ StopObserve
    <3>1. /\ Marked /\ planted' = planted /\ ~Inserting("reply")
          /\ op.tool = "stop"
          /\ op'.tool = "stop" => op.at \in {"disconnect", "await"}
      BY <1>0, <2>3, StopOnEffect
    <3>. QED
      BY <3>1, PlantedKept
  <2>4. CASE StopKill
    <3>1. CASE KillServer
      BY <3>1, KillServerEffect, PlantedNothing
    <3>2. CASE planted' = planted /\ Marked /\ op'.tool = "none"
      <4>1. ~Inserting("reply")
        BY <1>0, <2>4, StopKillEffect
      <4>. QED
        BY <3>2, <4>1, PlantedKept
    <3>. QED
      BY <2>4, <3>1, <3>2, StopKillEffect
  <2>. QED
    BY <1>1, <2>1, <2>2, <2>3, <2>4 DEF Stopping
<1>2. CASE Connect
  <2>1. Marked /\ planted' = planted /\ op'.tool = "connect" /\ ~Inserting("reply")
    BY <1>0, <1>2, ConnectEffect
  <2>. QED
    BY <2>1, PlantedKept
<1>3. CASE ConnectFails \/ ConnectAttached \/ ConnectStale
  <2>1. Marked /\ planted' = planted /\ op'.tool \in {"connect", "none"} /\ ~Inserting("reply")
    BY <1>0, <1>3, ConnectFailsEffect, ConnectAttachedEffect, ConnectStaleEffect
  <2>. QED
    BY <2>1, PlantedKept
<1>4. CASE Prevent \/ Resume
  <2>1. Marked /\ planted' = planted /\ op'.tool \in {"connect", "none"} /\ ~Inserting("reply")
    BY <1>0, <1>4, PreventEffect, ResumeEffect
  <2>. QED
    BY <2>1, PlantedKept
<1>5. CASE Command
  <2>1. Marked /\ planted' = planted /\ op'.tool = "command" /\ ~Inserting("reply")
    BY <1>0, <1>5, CommandEffect
  <2>. QED
    BY <2>1, PlantedKept
<1>6. CASE Send
  <2>1. /\ rt' = rt /\ op'.tool = "command" /\ op'.at = "reply" /\ op'.kind = op.kind
        /\ op.at = "send" /\ (planted' => planted \/ op.kind = "insert")
    BY <1>6, SendEffect
  <2>2. planted => CleanupPending
    BY <2>1 DEF PlantedInv, Inserting
  <2>. QED
    BY <2>1, <2>2 DEF PlantedInv, StopLeavesNoBreakpoint, CleanupPending, Inserting
<1>7. CASE Reply
  <2>1. /\ planted' = planted /\ op'.tool = "command"
        /\ Marked \/ (rt'.cleanup /\ ~rt'.cleaned)
        /\ op.at = "reply" /\ op.kind = "insert" => rt'.cleanup /\ ~rt'.cleaned
    BY <1>7, ReplyEffect
  <2>2. CASE rt'.cleanup /\ ~rt'.cleaned
    BY <2>1, <2>2 DEF PlantedInv, StopLeavesNoBreakpoint, CleanupPending
  <2>3. CASE Marked /\ ~Inserting("reply")
    BY <2>1, <2>3, PlantedKept
  <2>. QED
    BY <2>1, <2>2, <2>3 DEF Inserting
<1>8. CASE CommandPersist
  <2>1. Marked /\ planted' = planted /\ op'.tool = "none" /\ op.at = "persist"
    BY <1>0, <1>8, PersistEffect
  <2>2. ~Inserting("reply")
    BY <2>1 DEF Inserting
  <2>. QED
    BY <2>1, <2>2, PlantedKept
<1>9. CASE Managing
  <2>1. CASE Ask \/ Delete \/ Abort
    <3>1. /\ Marked /\ planted' = planted /\ ~Inserting("reply")
          /\ op'.tool \in {"list", "backtrace", "delete", "abort"}
      BY <1>0, <2>1, AskEffect, AbortEffect
    <3>. QED
      BY <3>1, PlantedKept
  <2>2. CASE Asked \/ DeleteReply \/ DeletePersist
    <3>1. /\ Marked /\ planted' = planted /\ ~Inserting("reply") /\ op'.tool \in {"delete", "none"}
      BY <1>0, <2>2, AskedEffect, DeleteReplyEffect, DeletePersistEffect
    <3>. QED
      BY <3>1, PlantedKept
  <2>3. CASE Wait
    <3>1. /\ Marked /\ planted' = planted /\ ~Inserting("reply") /\ (op' = op \/ op'.tool = "wait")
      BY <1>0, <2>3, WaitEffect
    <3>2. CASE op' = op
      BY <3>1, <3>2, PlantedSame
    <3>3. CASE op'.tool = "wait"
      BY <3>1, <3>3, PlantedKept
    <3>. QED
      BY <3>1, <3>2, <3>3
  <2>4. CASE WaitReply
    <3>1. /\ Marked /\ planted' = planted /\ ~Inserting("reply") /\ op'.tool = "none"
      BY <1>0, <2>4, WaitReplyEffect
    <3>. QED
      BY <3>1, PlantedKept
  <2>5. CASE AbortInterrupt
    <3>1. /\ Marked /\ planted' = planted /\ ~Inserting("reply") /\ op'.tool \in {"abort", "none"}
      BY <1>0, <2>5, AbortInterruptEffect
    <3>. QED
      BY <3>1, PlantedKept
  <2>6. CASE AbortClear
    <3>1. CASE Cleared
      BY <3>1, ClearedEffect, PlantedNothing
    <3>2. CASE NotCleared /\ Marked /\ op'.tool = "none"
      <4>1. ~Inserting("reply")
        BY <1>0, <2>6, AbortClearEffect
      <4>. QED
        BY <3>2, <4>1, NotClearedEffect, PlantedKept
    <3>. QED
      BY <2>6, <3>1, <3>2, AbortClearEffect
  <2>. QED
    BY <1>9, <2>1, <2>2, <2>3, <2>4, <2>5, <2>6 DEF Managing
<1>10. CASE StartServer
  <2>1. Marked /\ planted' = planted /\ ~Inserting("reply") /\ op'.tool = "start"
    BY <1>0, <1>10, StartServerEffect
  <2>. QED
    BY <2>1, PlantedKept
<1>11. CASE Publish
  <2>1. planted' = planted \/ planted' = FALSE
    BY <1>11, PublishEffect, KillServerEffect
  <2>2. ~planted
    BY <1>11, PublishEffect DEF OwnerInv
  <2>3. ~planted'
    BY <2>1, <2>2
  <2>. QED
    BY <2>3 DEF PlantedInv, StopLeavesNoBreakpoint
<1>12. CASE ClientExit \/ ExitHandled \/ TargetStops \/ ShutdownBegins
  <2>1. Marked /\ planted' = planted /\ op' = op
    BY <1>0, <1>12, ClientExitEffect, ExitHandledEffect, TargetStopsEffect, ShutdownBeginsEffect
  <2>. QED
    BY <2>1, PlantedSame
<1>13. CASE ServerExit \/ ShutdownKills
  <2>1. planted' = FALSE
    BY <1>13, ServerExitEffect, ShutdownKillsEffect, KillServerEffect
  <2>. QED
    BY <2>1, PlantedNothing
<1>. QED
  BY <1>1, <1>2, <1>3, <1>4, <1>5, <1>6, <1>7, <1>8, <1>9, <1>10, <1>11, <1>12, <1>13
     DEF Next, Starting, Connecting, Commanding, Environment, Disposing

-----------------------------------------------------------------------------
(* The inductive invariant.                                                *)
LEMMA InitIInv ==
  ASSUME Init
  PROVE  IInv /\ PlantedInv
<1>0. /\ rt \in Runtime /\ rt.token = 0 /\ rt.prevention = NoBound /\ rt.life = NoLife
      /\ rt.phase = "none" /\ ~rt.available /\ ~rt.expectation
  BY NoRuntimeTyped DEF Init
<1>1. op.tool = "none" /\ op.at = "none" /\ op \in Ops
  BY DEF Init, Idle, Ops, IdleOps
<1>2. NoBound.server = 0 /\ 0 \in 0 .. MaxServers
  BY BoundsOK DEF NoBound
<1>3. ProgramTyped /\ ProcessTyped
  BY <1>0, <1>2 DEF Init, ProgramTyped, ProcessTyped
<1>4. ClientTyped
  BY DEF Init, ClientTyped, State
<1>5. flashOff = FALSE /\ planted = FALSE /\ story = "none" /\ lost = "no" /\ server = 0
  BY DEF Init
<1>6. FactsTyped
  BY <1>5 DEF FactsTyped, Stories
<1>7. Typed
  BY <1>1, <1>3, <1>4, <1>6 DEF Typed
<1>8. OwnerInv
  BY <1>1, <1>5 DEF Init, OwnerInv, OwnedWhileServerRuns, Live
<1>9. PreventionInv
  BY <1>1, <1>5 DEF PreventionInv, Live
<1>10. LostInv
  BY <1>5 DEF LostInv
<1>11. OrderInv /\ HitInv
  BY <1>0, LifeConstants DEF OrderInv, HitInv
<1>12. EvidenceInv
  BY <1>0, <1>1, LifeConstants DEF EvidenceInv, RecordEvidence, OpEvidence
<1>13. PendingInv /\ StoryInv
  BY <1>1, <1>5 DEF Init, PendingInv, StoryInv, Live
<1>14. PlantedInv
  BY <1>5 DEF PlantedInv, StopLeavesNoBreakpoint
<1>. QED
  BY <1>7, <1>8, <1>9, <1>10, <1>11, <1>12, <1>13, <1>14 DEF IInv, LifeInv

LEMMA Stutter ==
  ASSUME UNCHANGED vars
  PROVE  /\ UNCHANGED <<servers, server, lastExit, owner, rt, exits, closing, op>>
         /\ UNCHANGED <<client, seen, reason, mine>>
         /\ UNCHANGED <<flashOff, planted, story, lost>>
BY DEF vars, program, process, gdb, facts

LEMMA StutterIInv ==
  ASSUME IInv, UNCHANGED vars
  PROVE  IInv'
<1>0. Typed /\ OwnerInv /\ PreventionInv /\ LostInv /\ OrderInv /\ EvidenceInv /\ HitInv /\ PendingInv /\ StoryInv
  BY DEF IInv, LifeInv
<1>1. Typed'
  <2>1. ProgramTyped' /\ ProcessTyped'
    BY <1>0, Stutter DEF Typed, ProgramTyped, ProcessTyped
  <2>2. ClientTyped'
    BY <1>0, Stutter DEF Typed, ClientTyped
  <2>3. FactsTyped'
    BY <1>0, Stutter DEF Typed, FactsTyped
  <2>4. op' \in Ops
    BY <1>0, Stutter DEF Typed
  <2>. QED
    BY <2>1, <2>2, <2>3, <2>4 DEF Typed
<1>2. OwnerInv'
  BY <1>0, Stutter DEF OwnerInv, OwnedWhileServerRuns, Live
<1>3. PreventionInv' /\ LostInv'
  BY <1>0, Stutter DEF PreventionInv, Live, Inserting, LostInv
<1>4. OrderInv' /\ EvidenceInv'
  BY <1>0, Stutter DEF OrderInv, EvidenceInv, RecordEvidence, OpEvidence
<1>5. HitInv'
  BY <1>0, Stutter DEF HitInv, AtRest
<1>6. PendingInv' /\ StoryInv'
  BY <1>0, Stutter DEF PendingInv, Managed, Live, StoryInv, Told, ExecutionState
<1>. QED
  BY <1>1, <1>2, <1>3, <1>4, <1>5, <1>6 DEF IInv, LifeInv

LEMMA NextIInv ==
  ASSUME IInv, Next
  PROVE  IInv'
<1>1. Typed /\ OwnerInv /\ PreventionInv /\ LostInv /\ OrderInv /\ EvidenceInv /\ HitInv /\ PendingInv /\ StoryInv
  BY DEF IInv, LifeInv
<1>. QED
  BY <1>1, StepTyped, StepOwner, StepPrevention, StepLost, StepOrder, StepEvidence, StepHit,
     StepPending, StepStory DEF IInv, LifeInv

(* The invariant is inductive: it holds throughout every behaviour.        *)
THEOREM Invariance == Spec => []IInv
<1>1. Init => IInv
  BY InitIInv
<1>2. IInv /\ [Next]_vars => IInv'
  BY NextIInv, StutterIInv
<1>. QED
  BY <1>1, <1>2, PTL DEF Spec

-----------------------------------------------------------------------------
LEMMA IInvImpliesSound ==
  ASSUME IInv
  PROVE  SessionSound
<1>0. Typed /\ OwnerInv /\ LostInv
  BY DEF IInv
<1>1. TypeOK
  <2>1. op.tool \in {"none", "start", "stop", "connect", "command", "list",
                     "backtrace", "delete", "wait", "abort"}
    BY <1>0 DEF Typed, Ops, IdleOps, StartOps, StopOps, ConnectOps, SendOps, SentOps, AskOps,
                DeleteOps, DeletedOps, WaitOps, AbortOps
  <2>. QED
    BY <1>0, <2>1 DEF Typed, ProgramTyped, ProcessTyped, ClientTyped, FactsTyped, TypeOK
<1>2. OwnedWhileServerRuns
  BY <1>0 DEF OwnerInv, OwnedWhileServerRuns
<1>3. ExitedClientRecoverable
  BY <1>0 DEF LostInv, Live, ExitedClientRecoverable, CanBeStopped, StopRefused, Recovering
<1>. QED
  BY <1>1, <1>2, <1>3 DEF SessionSound

(* Whatever exits, times out or is shut down between two steps of an       *)
(* operation, every variable keeps its type, a running server has an       *)
(* owner, and a session whose client went by itself can be stopped.        *)
THEOREM SessionIsSound == Spec => []SessionSound
<1>1. IInv => SessionSound
  BY IInvImpliesSound
<1>. QED
  BY <1>1, Invariance, PTL

LEMMA InvariantWithPlanted ==
  ASSUME "resume" \notin Faults
  PROVE  Spec => [](IInv /\ PlantedInv)
<1>1. Init => IInv /\ PlantedInv
  BY InitIInv
<1>2. (IInv /\ PlantedInv) /\ [Next]_vars => (IInv /\ PlantedInv)'
  <2>1. ASSUME IInv, PlantedInv, Next
        PROVE  IInv' /\ PlantedInv'
    BY <2>1, NextIInv, StepPlanted DEF IInv
  <2>2. ASSUME IInv, PlantedInv, UNCHANGED vars
        PROVE  IInv' /\ PlantedInv'
    <3>1. PlantedInv'
      BY <2>2, Stutter DEF PlantedInv, CleanupPending, Inserting, StopLeavesNoBreakpoint
    <3>. QED
      BY <2>2, <3>1, StutterIInv
  <2>. QED
    BY <2>1, <2>2
<1>. QED
  BY <1>1, <1>2, PTL DEF Spec

(* A stop lets client and server go only when no breakpoint of the session *)
(* is left, as long as a target interrupted for an insertion resumes.      *)
THEOREM StopIsClean ==
  ASSUME "resume" \notin Faults
  PROVE  Spec => []StopLeavesNoBreakpoint
<1>1. IInv /\ PlantedInv => StopLeavesNoBreakpoint
  BY DEF PlantedInv
<1>. QED
  BY <1>1, InvariantWithPlanted, PTL

-----------------------------------------------------------------------------
(* The action properties.                                                  *)
Planting == op.tool = "command" /\ op.at = "send" /\ op.kind = "insert" /\ op'.at = "reply"

LEMMA PlantsUnderPrevention ==
  ASSUME IInv, Next, Planting
  PROVE  flashOff
<1>0. /\ Typed /\ PreventionInv
      /\ op.tool = "command" /\ op.at = "send" /\ op.kind = "insert" /\ op'.at = "reply"
      /\ op' # op
  BY DEF IInv, Planting
<1>1. ~Starting
  BY <1>0, StartServerEffect, PublishEffect DEF Starting
<1>2. ~Stopping
  <2>1. ~StopServer /\ ~StopClear /\ ~StopKill
    BY <1>0, StopServerEffect, StopClearEffect, StopKillEffect
  <2>2. ~(StopDisconnect \/ StopAwait \/ StopObserve)
    BY <1>0, StopOnEffect
  <2>. QED
    BY <2>1, <2>2 DEF Stopping
<1>3. ~Connecting
  <2>1. ~Connect /\ ~ConnectFails /\ ~ConnectAttached
    BY <1>0, ConnectEffect, ConnectFailsEffect, ConnectAttachedEffect
  <2>2. ~ConnectStale /\ ~Prevent /\ ~Resume
    BY <1>0, ConnectStaleEffect, PreventEffect, ResumeEffect
  <2>. QED
    BY <2>1, <2>2 DEF Connecting
<1>4. ~Managing
  <2>1. ~Ask /\ ~Delete /\ ~Asked /\ ~DeleteReply /\ ~DeletePersist
    BY <1>0, AskEffect, AskedEffect, DeleteReplyEffect, DeletePersistEffect
  <2>2. ~Wait /\ ~WaitReply /\ ~Abort /\ ~AbortInterrupt /\ ~AbortClear
    BY <1>0, WaitEffect, WaitReplyEffect, AbortEffect, AbortInterruptEffect, AbortClearEffect
  <2>. QED
    BY <2>1, <2>2 DEF Managing
<1>5. ~Environment /\ ~Disposing
  <2>1. ~ClientExit /\ ~ServerExit /\ ~ExitHandled /\ ~TargetStops
    BY <1>0, ClientExitEffect, ServerExitEffect, ExitHandledEffect, TargetStopsEffect
  <2>2. ~ShutdownBegins /\ ~ShutdownKills
    BY <1>0, ShutdownBeginsEffect, ShutdownKillsEffect
  <2>. QED
    BY <2>1, <2>2 DEF Environment, Disposing
<1>6. ~Command /\ ~Reply /\ ~CommandPersist
  BY <1>0, CommandEffect, ReplyEffect, PersistEffect
<1>7. CASE Send
  <2>1. Live
    BY <1>0, <1>7, SendEffect
  <2>. QED
    BY <1>0, <2>1 DEF PreventionInv, Inserting
<1>. QED
  BY <1>1, <1>2, <1>3, <1>4, <1>5, <1>6, <1>7 DEF Next, Commanding

(* A breakpoint is sent to a server only while that very server has been   *)
(* told to leave flash memory alone, whatever happened since the evidence  *)
(* was checked: gdb_command reads it, then awaits the store.               *)
THEOREM PlantedUnderPrevention == Spec => BreakpointsUnderPrevention
<1>1. IInv /\ [Next]_vars =>
        [op.tool = "command" /\ op.at = "send" /\ op.kind = "insert"
           /\ op'.at = "reply" => flashOff]_vars
  BY PlantsUnderPrevention DEF Planting
<1>. QED
  BY <1>1, Invariance, PTL DEF Spec, BreakpointsUnderPrevention

LEMMA KillsNoBreakpoint ==
  ASSUME IInv, PlantedInv, Next, Killed, closing = "open"
  PROVE  ~planted
<1>0. /\ Typed /\ OwnerInv
      /\ server # 0 /\ server' = 0 /\ lastExit' = "killed" /\ server' # server
  BY DEF IInv, Killed
<1>1. CASE Starting
  <2>1. Publish
    BY <1>0, <1>1, StartServerEffect DEF Starting
  <2>. QED
    BY <1>0, <2>1, PublishEffect DEF OwnerInv
<1>2. CASE Stopping
  <2>1. ~StopServer /\ ~StopClear
    BY <1>0, StopServerEffect, StopClearEffect DEF Frame
  <2>2. ~(StopDisconnect \/ StopAwait \/ StopObserve)
    BY <1>0, StopOnEffect DEF Frame
  <2>3. StopKill
    BY <1>2, <2>1, <2>2 DEF Stopping
  <2>. QED
    BY <1>0, <2>3, StopKillEffect DEF PlantedInv, StopLeavesNoBreakpoint
<1>3. ~Connecting
  <2>1. ~Connect /\ ~ConnectFails /\ ~ConnectAttached
    BY <1>0, ConnectEffect, ConnectFailsEffect, ConnectAttachedEffect DEF Frame
  <2>2. ~ConnectStale /\ ~Prevent /\ ~Resume
    BY <1>0, ConnectStaleEffect, PreventEffect, ResumeEffect DEF Frame
  <2>. QED
    BY <2>1, <2>2 DEF Connecting
<1>4. ~Commanding
  BY <1>0, CommandEffect, SendEffect, ReplyEffect, PersistEffect DEF Frame, Commanding
<1>5. ~Managing
  <2>1. ~Ask /\ ~Delete /\ ~Asked /\ ~DeleteReply /\ ~DeletePersist
    BY <1>0, AskEffect, AskedEffect, DeleteReplyEffect, DeletePersistEffect DEF Frame
  <2>2. ~Wait /\ ~WaitReply /\ ~Abort /\ ~AbortInterrupt /\ ~AbortClear
    BY <1>0, WaitEffect, WaitReplyEffect, AbortEffect, AbortInterruptEffect, AbortClearEffect
       DEF Frame
  <2>. QED
    BY <2>1, <2>2 DEF Managing
<1>6. ~Environment
  BY <1>0, ClientExitEffect, ServerExitEffect, ExitHandledEffect, TargetStopsEffect
     DEF Frame, Environment
<1>7. ~Disposing
  BY <1>0, ShutdownBeginsEffect, ShutdownKillsEffect DEF Disposing
<1>. QED
  BY <1>1, <1>2, <1>3, <1>4, <1>5, <1>6, <1>7 DEF Next

(* No step plants a breakpoint where it would be patched into flash        *)
(* memory, and no operation kills a server that may hold one: a stop       *)
(* removes them first, and a server that cannot be published has none.     *)
THEOREM BreakpointsAreKept ==
  ASSUME "resume" \notin Faults
  PROVE  Spec => BreakpointSteps
<1>1. (IInv /\ PlantedInv) /\ [Next]_vars => [Killed /\ closing = "open" => ~planted]_vars
  BY KillsNoBreakpoint
<1>2. Spec => OperationsKillNoBreakpoints
  BY <1>1, InvariantWithPlanted, PTL DEF Spec, OperationsKillNoBreakpoints
<1>. QED
  BY <1>2, PlantedUnderPrevention DEF BreakpointSteps

LEMMA StopsJustified ==
  ASSUME IInv, Next, op = Idle, op'.tool = "stop", op'.resume, server # 0
  PROVE  story = "empty"
<1>0. Typed /\ StoryInv /\ op.tool = "none" /\ op' # op
  BY DEF IInv, LifeInv, Idle
<1>1. ~Starting
  BY <1>0, StartServerEffect, PublishEffect DEF Starting
<1>2. CASE Stopping
  <2>1. ~StopClear /\ ~StopKill
    BY <1>0, StopClearEffect, StopKillEffect
  <2>2. ~(StopDisconnect \/ StopAwait \/ StopObserve)
    BY <1>0, StopOnEffect
  <2>3. StopServer
    BY <1>2, <2>1, <2>2 DEF Stopping
  <2>4. ResumeExpected
    BY <1>0, <2>3, StopServerEffect
  <2>5. Told
    BY <1>0, <2>4 DEF ResumeExpected, StoryInv, Live
  <2>. QED
    BY <2>4, <2>5 DEF ResumeExpected, Complete, Told
<1>3. ~Connecting
  <2>1. ~Connect /\ ~ConnectFails /\ ~ConnectAttached
    BY <1>0, ConnectEffect, ConnectFailsEffect, ConnectAttachedEffect
  <2>2. ~ConnectStale /\ ~Prevent /\ ~Resume
    BY <1>0, ConnectStaleEffect, PreventEffect, ResumeEffect
  <2>. QED
    BY <2>1, <2>2 DEF Connecting
<1>4. ~Commanding
  BY <1>0, CommandEffect, SendEffect, ReplyEffect, PersistEffect DEF Commanding
<1>5. ~Managing
  <2>1. ~Ask /\ ~Delete /\ ~Asked /\ ~DeleteReply /\ ~DeletePersist
    BY <1>0, AskEffect, AskedEffect, DeleteReplyEffect, DeletePersistEffect
  <2>2. ~Wait /\ ~WaitReply /\ ~Abort /\ ~AbortInterrupt /\ ~AbortClear
    BY <1>0, WaitEffect, WaitReplyEffect, AbortEffect, AbortInterruptEffect, AbortClearEffect
  <2>. QED
    BY <2>1, <2>2 DEF Managing
<1>6. ~Environment /\ ~Disposing
  BY <1>0, ClientExitEffect, ServerExitEffect, ExitHandledEffect, TargetStopsEffect,
     ShutdownBeginsEffect, ShutdownKillsEffect DEF Environment, Disposing
<1>. QED
  BY <1>1, <1>2, <1>3, <1>4, <1>5, <1>6 DEF Next

(* gdb_server_stop expects the server's end to resume a halted target only *)
(* if that target halted at a managed breakpoint which was then deleted    *)
(* and seen to be gone, and has not run since.                             *)
THEOREM ResumesAreJustified == Spec => ManagedResumeJustified
<1>1. IInv /\ [Next]_vars =>
        [op = Idle /\ op'.tool = "stop" /\ op'.resume /\ server # 0 => story = "empty"]_vars
  BY StopsJustified
<1>. QED
  BY <1>1, Invariance, PTL DEF Spec, ManagedResumeJustified
=============================================================================
