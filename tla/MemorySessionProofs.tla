------------------------- MODULE MemorySessionProofs -------------------------
(***************************************************************************)
(* The memory session (MemorySession): its owner record covers its helper, *)
(* nobody uses the Probe beside it, no helper is lost, and what a command  *)
(* did to the target is in its result.                                     *)
(*                                                                         *)
(* The record is given back in six places and taken in one.  The argument  *)
(* is that of the session: an active session has the owner record, an      *)
(* operation's session is the owner's or nobody's, and it is the active    *)
(* one unless its helper has exited.  Whoever gives the record back has    *)
(* then seen the exit of the one helper that could use it.                 *)
(***************************************************************************)
EXTENDS MemorySession, TLAPS

OpRecords ==
  [tool : Tools \cup {"none", "idle", "foreign"},
   at : {"none", "claim", "claimed", "spawned", "recorded", "opening", "ready", "asking",
         "failing", "observing", "observed", "closing", "using", "retired"},
   session : 0 .. MaxSessions, next : {"none", "claim", "abandon", "using", "retired"},
   command : Commands \cup {"none"}, issued : BOOLEAN, reported : BOOLEAN]
OwnerRecords == [token : 0 .. MaxSessions, recorded : BOOLEAN]
Closers == [session : 0 .. MaxSessions, at : {"none", "asking", "waiting"}, failed : BOOLEAN]
Lines == [session : 0 .. MaxSessions, kind : Commands \cup {"none", "state", "close"},
          reply : {"none", "ok", "failed", "refused"}]
HelperStates == {"none", "gated", "activated", "connected", "dead"}

(* The types, in three parts: the MCP process and its manager, its         *)
(* operation and calls, the helpers.                                       *)
ManagerTyped ==
  /\ up \in BOOLEAN /\ generation \in 1 .. MaxGenerations /\ opened \in 0 .. MaxSessions
  /\ active \in 0 .. MaxSessions /\ timer \in {0, active}
  /\ fired \subseteq Sessions /\ waiting \subseteq Request
  /\ shut \in {"open", "closing", "done"}
OpTyped ==
  op \in OpRecords /\ closer \in [Actors -> Closers] /\ line \in [Actors -> Lines]
HelperTyped ==
  /\ owner \in OwnerRecords /\ helper \in [Sessions -> HelperStates]
  /\ seen \in [Sessions -> {"running", "exited", "closed"}]
  /\ poisoned \subseteq Sessions /\ bound \in [Sessions -> 0 .. MaxGenerations]
  /\ faults \subseteq Faults \X Sessions

(* The MCP process is told of no exit that did not happen; sessions are    *)
(* opened in order, and a session of the manager's has the owner record.   *)
Gone(n) == n \in Sessions /\ helper[n] = "dead"
HelperInv ==
  /\ \A n \in Sessions : seen[n] # "running" => helper[n] = "dead"
  /\ \A n \in Sessions : n > opened => helper[n] = "none"
  /\ owner.token <= opened
  /\ OwnerCoversHelper
ManagerInv ==
  /\ active # 0 => up /\ owner.token = active
  /\ \A w \in waiting :
       /\ w.required # 0 => /\ w.required = active \/ Gone(w.required)
                            /\ bound[w.required] = w.generation
       /\ w.tool = "configure" => w.generation < MaxGenerations

(* An operation's session is the owner's, or nobody's; where it works on   *)
(* one, that is the active session unless its helper has exited.           *)
PlaceInv ==
  /\ op.tool = "foreign" => op.session = 0 /\ op.at = "using"
  /\ op.session # 0 => owner.token \in {0, op.session}
  /\ op.at \in {"claimed", "spawned", "recorded", "opening"} =>
       op.session # 0 /\ active = 0
  /\ op.at = "claimed" =>
       owner = [token |-> op.session, recorded |-> FALSE] /\ helper[op.session] = "none"
  /\ op.at \in {"spawned", "recorded"} =>
       helper[op.session] \in {"gated", "dead"} /\ owner.token = op.session
  /\ op.at = "opening" => owner.token = op.session
  /\ op.at = "recorded" => owner.recorded
  /\ op.at \in {"ready", "asking", "failing", "observing", "observed"} =>
       op.session # 0 /\ (op.session = active \/ Gone(op.session))
  /\ op.at = "closing" =>
       /\ op.session # 0 /\ closer["op"].session = op.session
       /\ op.next = "abandon" => active = 0
       /\ op.next # "abandon" => op.session = active \/ Gone(op.session)
       /\ op.next = "claim" => opened < MaxSessions
  /\ op.at \in {"claim", "retired"} => op.session = 0 \/ Gone(op.session)
  /\ op.at = "claim" => opened < MaxSessions
  /\ op.tool = "configure" => generation < MaxGenerations
  /\ op.at \in {"observing", "observed"} => op.next = "using"
  /\ RetiredMeansReleased

(* What is awaited: a session's close by the operation at "closing" and by *)
(* the shutdown, an answer by the operation at "asking".                   *)
CallInv ==
  /\ \A a \in Actors : closer[a].at # "none" => closer[a].session # 0
  /\ closer["op"].at # "none" => op.at = "closing"
  /\ line["op"].kind \in Commands => op.at = "asking" /\ line["op"].kind = op.command
  /\ line["shut"].kind \in {"none", "close"}

(* What a command did is in its reply, or will be said all the same.       *)
ResultInv ==
  /\ op.issued => op.at \in {"ready", "asking", "failing"}
  /\ op.at = "asking" => line["op"].kind = op.command /\ op.command \in Commands
  /\ op.at = "asking" /\ op.issued =>
       op.command = "resume" \/ line["op"].reply \in {"ok", "failed"}
  /\ WriteReported

IInv == /\ ManagerTyped /\ OpTyped /\ HelperTyped
        /\ HelperInv /\ ManagerInv /\ PlaceInv /\ CallInv /\ ResultInv
        /\ NoInterleaving /\ NoLostHelper

-----------------------------------------------------------------------------
(* What the shared steps do.                                               *)
LEMMA WorkEffect ==
  ASSUME NEW t \in Tools \cup {"none", "idle", "foreign"},
         NEW at \in {"none", "claim", "claimed", "spawned", "recorded", "opening", "ready",
                     "asking", "failing", "observing", "observed", "closing", "using",
                     "retired"},
         NEW n \in 0 .. MaxSessions, NEW next \in {"none", "claim", "abandon", "using", "retired"},
         Working(t, at, n, next)
  PROVE  /\ op' \in OpRecords /\ op'.tool = t /\ op'.at = at /\ op'.session = n
         /\ op'.next = next /\ op'.issued = FALSE
  BY DEF Working, NoOp, OpRecords

LEMMA IdleEffect ==
  ASSUME op' = NoOp
  PROVE  /\ op' \in OpRecords /\ op'.tool = "none" /\ op'.at = "none" /\ op'.session = 0
         /\ op'.next = "none" /\ op'.issued = FALSE
  BY SessionBoundsOK DEF NoOp, OpRecords

LEMMA GotoEffect ==
  ASSUME op \in OpRecords,
         NEW at \in {"none", "claim", "claimed", "spawned", "recorded", "opening", "ready",
                     "asking", "failing", "observing", "observed", "closing", "using",
                     "retired"},
         Goto(at)
  PROVE  /\ op' \in OpRecords /\ op'.tool = op.tool /\ op'.at = at
         /\ op'.session = op.session /\ op'.next = op.next /\ op'.command = op.command
         /\ op'.issued = op.issued /\ op'.reported = op.reported
  BY DEF Goto, OpRecords

LEMMA ReleaseEffect ==
  ASSUME HelperTyped, NEW n \in Sessions, ReleaseOwner(n)
  PROVE  /\ owner' \in {owner, NoOwner} /\ owner' \in OwnerRecords
         /\ owner' # owner => owner.token = n
         /\ faults \subseteq faults' /\ faults' \subseteq Faults \X Sessions
<1>1. NoOwner \in OwnerRecords
  BY SessionBoundsOK DEF NoOwner, OwnerRecords
<1>2. CASE UNCHANGED faults
  BY <1>1, <1>2 DEF ReleaseOwner, HelperTyped
<1>3. CASE Fault("release", n)
  BY <1>3, <1>1 DEF ReleaseOwner, HelperTyped, Fault
<1>. QED
  BY <1>2, <1>3 DEF ReleaseOwner

LEMMA FinalizeEffect ==
  ASSUME HelperTyped, ManagerTyped, NEW n \in Sessions, FinalizeExited(n)
  PROVE  /\ owner' \in {owner, NoOwner} /\ owner' \in OwnerRecords
         /\ owner' # owner => owner.token = n
         /\ active' = IF active = n THEN 0 ELSE active
         /\ timer' \in {0, active'} /\ active' \in 0 .. MaxSessions
         /\ faults \subseteq faults' /\ faults' \subseteq Faults \X Sessions
<1>1. CASE active = n
  BY <1>1, ReleaseEffect, SessionBoundsOK DEF FinalizeExited
<1>2. CASE active # n
  BY <1>2 DEF FinalizeExited, manager, HelperTyped, ManagerTyped
<1>. QED
  BY <1>1, <1>2

LEMMA AwaitEffect ==
  ASSUME OpTyped, NEW a \in Actors, NEW n \in Sessions, NEW failed \in BOOLEAN,
         NEW at \in {"asking", "waiting"}, Calls(a, n, at, failed)
  PROVE  /\ closer' \in [Actors -> Closers]
         /\ closer'[a].session = n /\ closer'[a].at # "none"
         /\ \A b \in Actors \ {a} : closer'[b] = closer[b]
<1>. DEFINE c == [session |-> n, at |-> at, failed |-> failed]
<1>1. c \in Closers /\ c.session = n /\ c.at = at
  BY DEF Closers, Sessions
<1>2. closer' = [closer EXCEPT ![a] = c]
  BY DEF Calls
<1>. HIDE DEF c
<1>. QED
  BY <1>1, <1>2 DEF OpTyped

LEMMA SendEffect ==
  ASSUME OpTyped, NEW a \in Actors, NEW n \in Sessions,
         NEW kind \in Commands \cup {"state", "close"}, Send(a, n, kind)
  PROVE  /\ line' \in [Actors -> Lines]
         /\ line'[a].kind = kind /\ line'[a].reply = "none"
         /\ \A b \in Actors \ {a} : line'[b] = line[b]
<1>. DEFINE l == [session |-> n, kind |-> kind, reply |-> "none"]
<1>1. l \in Lines /\ l.kind = kind /\ l.reply = "none"
  BY DEF Lines, Sessions
<1>2. line' = [line EXCEPT ![a] = l]
  BY DEF Send
<1>. HIDE DEF l
<1>. QED
  BY <1>1, <1>2 DEF OpTyped

LEMMA NoLineEffect ==
  ASSUME OpTyped, NEW a \in Actors, Answered(a) \/ Rejected(a)
  PROVE  /\ line' \in [Actors -> Lines] /\ line'[a].kind = "none"
         /\ \A b \in Actors \ {a} : line'[b] = line[b]
<1>1. NoLine \in Lines /\ NoLine.kind = "none"
  BY SessionBoundsOK DEF NoLine, Lines
<1>2. line' = [line EXCEPT ![a] = NoLine]
  BY DEF Answered, Rejected
<1>. QED
  BY <1>1, <1>2 DEF OpTyped

LEMMA CloseEffect ==
  ASSUME OpTyped, HelperTyped, NEW a \in Actors, NEW n \in Sessions, CloseSession(a, n)
  PROVE  /\ closer' \in [Actors -> Closers] /\ line' \in [Actors -> Lines]
         /\ poisoned' \subseteq Sessions
         /\ closer'[a].session = n /\ closer'[a].at # "none"
         /\ line'[a] = line[a] \/ line'[a].kind = "close"
         /\ \A b \in Actors \ {a} : closer'[b] = closer[b] /\ line'[b] = line[b]
<1>1. CASE IsReusable(n) /\ Send(a, n, "close") /\ Calls(a, n, "asking", FALSE)
           /\ UNCHANGED poisoned
  BY <1>1, SendEffect, AwaitEffect DEF HelperTyped
<1>2. CASE \E failed \in BOOLEAN : Calls(a, n, "waiting", failed) /\ UNCHANGED line
                                   /\ poisoned' \in {poisoned, poisoned \cup {n}}
  BY <1>2, AwaitEffect DEF HelperTyped, OpTyped
<1>. QED
  BY <1>1, <1>2 DEF CloseSession, Await

LEMMA ClosedEffect ==
  ASSUME OpTyped, NEW a \in Actors, Closed(a)
  PROVE  /\ closer' \in [Actors -> Closers] /\ closer'[a].at = "none"
         /\ \A b \in Actors \ {a} : closer'[b] = closer[b]
<1>1. NoCloser \in Closers /\ NoCloser.at = "none"
  BY SessionBoundsOK DEF NoCloser, Closers
<1>2. closer' = [closer EXCEPT ![a] = NoCloser]
  BY DEF Closed
<1>. QED
  BY <1>1, <1>2 DEF OpTyped

(* The active session is the only one with a helper that can be used.      *)
LEMMA ActiveIsOwner ==
  ASSUME IInv, NEW n \in Sessions, helper[n] \in {"activated", "connected"}
  PROVE  /\ owner = [token |-> n, recorded |-> TRUE] /\ owner.token = n /\ owner # NoOwner
         /\ active \in {0, n} /\ op.session \in {0, n} /\ ~Gone(n)
<1>1. owner = [token |-> n, recorded |-> TRUE]
  BY DEF IInv, HelperInv, OwnerCoversHelper
<1>2. owner.token = n /\ n # 0 /\ n \in 1 .. MaxSessions
  BY <1>1 DEF Sessions
<1>. QED
  BY <1>1, <1>2 DEF IInv, ManagerInv, PlaceInv, NoOwner, Gone

(* An operation goes on while owner, manager and helpers stay as they are. *)
LEMMA OperationKeeps ==
  ASSUME IInv,
         UNCHANGED <<up, generation, opened, owner, helper, seen, bound, active>>,
         waiting' \subseteq waiting, timer' \in {0, active}, fired' \subseteq Sessions,
         shut' \in {"open", "closing", "done"}, poisoned' \subseteq Sessions,
         faults \subseteq faults', faults' \subseteq Faults \X Sessions,
         op' \in OpRecords, closer' \in [Actors -> Closers], line' \in [Actors -> Lines],
         PlaceInv', CallInv', ResultInv', NoInterleaving',
         \A n \in Sessions : op.session = n /\ Alive(n) /\ op.at # "using" =>
           \/ active = n \/ <<"hang", n>> \in faults'
           \/ op'.session = n /\ op'.at # "using"
  PROVE  IInv'
<1>1. ManagerTyped' /\ OpTyped' /\ HelperTyped'
  BY DEF IInv, ManagerTyped, OpTyped, HelperTyped
<1>2. HelperInv'
  BY DEF IInv, HelperInv, OwnerCoversHelper
<1>3. ManagerInv'
  BY DEF IInv, ManagerInv, Gone
<1>4. NoLostHelper'
  BY DEF IInv, NoLostHelper, Alive, Hung
<1>. QED
  BY <1>1, <1>2, <1>3, <1>4 DEF IInv

(* The same when the operation does not move.                              *)
LEMMA StandKeeps ==
  ASSUME IInv, UNCHANGED <<up, generation, opened, owner, helper, seen, bound, active, op>>,
         waiting' \subseteq waiting, timer' \in {0, active}, fired' \subseteq Sessions,
         shut' \in {"open", "closing", "done"}, poisoned' \subseteq Sessions,
         faults \subseteq faults', faults' \subseteq Faults \X Sessions,
         closer' \in [Actors -> Closers], line' \in [Actors -> Lines],
         closer'["op"].session = closer["op"].session, CallInv',
         line'["op"].kind = line["op"].kind, line'["op"].reply = line["op"].reply
  PROVE  IInv'
<1>1. PlaceInv'
  BY DEF IInv, PlaceInv, Gone, RetiredMeansReleased, At
<1>2. ResultInv' /\ NoInterleaving'
  BY DEF IInv, ResultInv, WriteReported, NoInterleaving, At
<1>3. op' \in OpRecords
  BY DEF IInv, OpTyped
<1>. QED
  BY <1>1, <1>2, <1>3, OperationKeeps

(* An operation that has no session yet begins.                            *)
LEMMA BeginKeeps ==
  ASSUME IInv, op.session = 0,
         UNCHANGED <<up, generation, opened, shut, faults, owner, helper, seen, bound, active>>,
         waiting' \subseteq waiting, timer' \in {0, active}, fired' \subseteq Sessions,
         poisoned' \subseteq Sessions,
         op' \in OpRecords, closer' \in [Actors -> Closers], line' \in [Actors -> Lines],
         PlaceInv', CallInv', ResultInv', NoInterleaving'
  PROVE  IInv'
<1>1. \A n \in Sessions : op.session # n
  BY DEF Sessions
<1>2. faults' \subseteq Faults \X Sessions /\ shut' \in {"open", "closing", "done"}
  BY DEF IInv, ManagerTyped, HelperTyped
<1>. QED
  BY <1>1, <1>2, OperationKeeps

LEMMA StandingTypes ==
  ASSUME IInv
  PROVE  /\ timer \in {0, active} /\ fired \subseteq Sessions /\ poisoned \subseteq Sessions
         /\ closer \in [Actors -> Closers] /\ line \in [Actors -> Lines]
  BY DEF IInv, ManagerTyped, HelperTyped, OpTyped

-----------------------------------------------------------------------------
LEMMA InitIInv == Init => IInv
<1>. SUFFICES ASSUME Init PROVE IInv
  OBVIOUS
<1>. USE SessionBoundsOK
<1>1. NoOwner \in OwnerRecords /\ NoOwner.token = 0
  BY DEF NoOwner, OwnerRecords
<1>2. /\ NoOp \in OpRecords /\ NoOp.at = "none" /\ NoOp.tool = "none" /\ NoOp.session = 0
      /\ ~NoOp.issued
  BY DEF NoOp, OpRecords
<1>3. NoCloser \in Closers /\ NoCloser.at = "none" /\ NoLine \in Lines /\ NoLine.kind = "none"
  BY DEF NoCloser, Closers, NoLine, Lines
<1>4. ManagerTyped
  BY DEF Init, ManagerTyped
<1>5. OpTyped
  BY <1>2, <1>3 DEF Init, OpTyped
<1>6. HelperTyped
  BY <1>1 DEF Init, HelperTyped, HelperStates
<1>7. HelperInv /\ ManagerInv
  BY <1>1 DEF Init, HelperInv, OwnerCoversHelper, ManagerInv
<1>8. PlaceInv /\ ResultInv
  BY <1>2 DEF Init, PlaceInv, ResultInv, RetiredMeansReleased, WriteReported, At
<1>9. CallInv
  BY <1>3 DEF Init, CallInv, Commands, Actors
<1>10. NoInterleaving /\ NoLostHelper
  BY <1>2 DEF Init, NoInterleaving, NoLostHelper, At, Alive
<1>. QED
  BY <1>4, <1>5, <1>6, <1>7, <1>8, <1>9, <1>10 DEF IInv

(* Of a helper: it connects, ends, or stops ending; its exit is told.      *)
LEMMA HelperConnectsKeeps ==
  ASSUME IInv, NEW n \in Sessions, HelperConnects(n) PROVE IInv'
<1>1. /\ helper[n] = "activated" /\ helper' = [helper EXCEPT ![n] = "connected"]
      /\ UNCHANGED <<up, generation, opened, shut, faults, owner, seen, poisoned, bound,
                     active, timer, fired, waiting, op, closer, line>>
  BY DEF HelperConnects, rest, mcp, manager, queued, calls
<1>2. /\ helper' \in [Sessions -> HelperStates] /\ helper'[n] = "connected"
      /\ \A m \in Sessions \ {n} : helper'[m] = helper[m]
  BY <1>1 DEF IInv, HelperTyped, HelperStates
<1>3. ManagerTyped' /\ OpTyped' /\ HelperTyped'
  BY <1>1, <1>2 DEF IInv, ManagerTyped, OpTyped, HelperTyped
<1>4. HelperInv'
  BY <1>1, <1>2 DEF IInv, HelperInv, OwnerCoversHelper
<1>5. ManagerInv'
  BY <1>1, <1>2 DEF IInv, ManagerInv, Gone
<1>6. PlaceInv'
  BY <1>1, <1>2 DEF IInv, PlaceInv, Gone, RetiredMeansReleased, At
<1>7. CallInv' /\ ResultInv'
  BY <1>1 DEF IInv, CallInv, ResultInv, WriteReported
<1>8. NoInterleaving' /\ NoLostHelper'
  BY <1>1, <1>2 DEF IInv, NoInterleaving, NoLostHelper, At, Alive, Hung
<1>. QED
  BY <1>3, <1>4, <1>5, <1>6, <1>7, <1>8 DEF IInv

LEMMA HelperExitsKeeps ==
  ASSUME IInv, NEW n \in Sessions, HelperExits(n) PROVE IInv'
<1>1. /\ helper' = [helper EXCEPT ![n] = "dead"] /\ helper[n] # "none"
      /\ UNCHANGED <<up, generation, opened, shut, faults, owner, seen, poisoned, bound,
                     active, timer, fired, waiting, op, closer, line>>
  BY DEF HelperExits, Alive, rest, mcp, manager, queued, calls
<1>2. /\ helper' \in [Sessions -> HelperStates] /\ helper'[n] = "dead"
      /\ \A m \in Sessions \ {n} : helper'[m] = helper[m]
  BY <1>1 DEF IInv, HelperTyped, HelperStates
<1>3. ManagerTyped' /\ OpTyped' /\ HelperTyped'
  BY <1>1, <1>2 DEF IInv, ManagerTyped, OpTyped, HelperTyped
<1>4. HelperInv'
  BY <1>1, <1>2 DEF IInv, HelperInv, OwnerCoversHelper
<1>5. ManagerInv'
  BY <1>1, <1>2 DEF IInv, ManagerInv, Gone
<1>6. PlaceInv'
  BY <1>1, <1>2 DEF IInv, PlaceInv, Gone, RetiredMeansReleased, At
<1>7. CallInv' /\ ResultInv'
  BY <1>1 DEF IInv, CallInv, ResultInv, WriteReported
<1>8. NoInterleaving' /\ NoLostHelper'
  BY <1>1, <1>2 DEF IInv, NoInterleaving, NoLostHelper, At, Alive, Hung
<1>. QED
  BY <1>3, <1>4, <1>5, <1>6, <1>7, <1>8 DEF IInv

LEMMA HelperHangsKeeps ==
  ASSUME IInv, NEW n \in Sessions, HelperHangs(n) PROVE IInv'
<1>1. /\ faults \subseteq faults' /\ faults' \subseteq Faults \X Sessions
  BY DEF HelperHangs, Fault, IInv, HelperTyped
<1>2. UNCHANGED <<up, generation, opened, owner, helper, seen, bound, active, op, waiting,
                  timer, fired, shut, poisoned, closer, line>>
  BY DEF HelperHangs, mcp, process, manager, queued, calls
<1>3. CallInv'
  BY <1>2 DEF IInv, CallInv
<1>. QED
  BY <1>1, <1>2, <1>3, StandKeeps DEF IInv, ManagerTyped, HelperTyped, OpTyped

LEMMA ExitEventKeeps ==
  ASSUME IInv, NEW n \in Sessions, ExitEvent(n) PROVE IInv'
<1>1. /\ helper[n] = "dead" /\ seen' = [seen EXCEPT ![n] = "exited"]
      /\ UNCHANGED <<up, generation, opened, shut, faults, owner, helper, poisoned, bound,
                     active, timer, fired, waiting, op, closer, line>>
  BY DEF ExitEvent, rest, mcp, manager, queued, calls
<1>2. ManagerTyped' /\ OpTyped' /\ HelperTyped'
  BY <1>1 DEF IInv, ManagerTyped, OpTyped, HelperTyped
<1>3. HelperInv'
  BY <1>1 DEF IInv, HelperInv, OwnerCoversHelper, HelperTyped
<1>4. ManagerInv' /\ NoLostHelper'
  BY <1>1 DEF IInv, ManagerInv, Gone, NoLostHelper, Alive, Hung
<1>5. PlaceInv'
  BY <1>1 DEF IInv, PlaceInv, Gone, RetiredMeansReleased, At
<1>6. CallInv' /\ ResultInv' /\ NoInterleaving'
  BY <1>1 DEF IInv, CallInv, ResultInv, WriteReported, NoInterleaving, At
<1>. QED
  BY <1>2, <1>3, <1>4, <1>5, <1>6 DEF IInv

LEMMA UnboundOutputKeeps ==
  ASSUME IInv, NEW n \in Sessions, UnboundOutput(n) PROVE IInv'
<1>1. /\ poisoned' = poisoned \cup {n}
      /\ UNCHANGED <<up, generation, opened, owner, helper, seen, bound, active, op, waiting,
                     timer, fired, shut, faults, closer, line>>
  BY DEF UnboundOutput, rest, mcp, manager, queued, calls
<1>2. CallInv'
  BY <1>1 DEF IInv, CallInv
<1>. QED
  BY <1>1, <1>2, StandKeeps DEF IInv, ManagerTyped, HelperTyped, OpTyped

(* The helper's exit retires the session and gives the owner back; so does *)
(* the shutdown.  Nothing that concerns the operation but its session's    *)
(* place changes.                                                          *)
LEMMA RetiredKeeps ==
  ASSUME IInv, NEW n \in Sessions, helper[n] = "dead", Yields, FinalizeExited(n),
         UNCHANGED <<up, generation, opened, helper, poisoned, bound, waiting, fired, op, line>>,
         shut' \in {"open", "closing", "done"}, closer' \in [Actors -> Closers],
         \A a \in Actors : closer'[a] = closer[a] \/ closer'[a].at = "none",
         closer'["op"] = closer["op"],
         seen' \in [Sessions -> {"running", "exited", "closed"}],
         \A m \in Sessions : seen'[m] # "running" => helper[m] = "dead"
  PROVE  IInv'
<1>1. /\ owner' \in {owner, NoOwner} /\ owner' \in OwnerRecords
      /\ owner' # owner => owner.token = n
      /\ active' = IF active = n THEN 0 ELSE active
      /\ timer' \in {0, active'} /\ active' \in 0 .. MaxSessions
      /\ faults \subseteq faults' /\ faults' \subseteq Faults \X Sessions
  BY FinalizeEffect DEF IInv
<1>2. active # n => owner' = owner
  BY DEF FinalizeExited
<1>3. ManagerTyped' /\ OpTyped' /\ HelperTyped'
  BY <1>1 DEF IInv, ManagerTyped, OpTyped, HelperTyped
<1>4. NoOwner.token = 0 /\ n # 0 /\ opened >= 0
  BY DEF NoOwner, Sessions, IInv, ManagerTyped
<1>5. HelperInv'
  <2>1. OwnerCoversHelper'
    BY <1>1 DEF IInv, HelperInv, OwnerCoversHelper
  <2>. QED
    BY <1>1, <1>4, <2>1 DEF IInv, HelperInv
<1>6. ManagerInv'
  BY <1>1, <1>2, <1>4 DEF IInv, ManagerInv, Gone
<1>7. PlaceInv'
  <2>1. op.at \notin {"claim", "claimed", "spawned", "recorded", "observed"}
    BY DEF Yields
  <2>2. op.at = "opening" => owner' = owner
    BY <1>2, <1>4 DEF IInv, PlaceInv
  <2>3. RetiredMeansReleased'
    BY <1>1 DEF IInv, PlaceInv, RetiredMeansReleased, At
  <2>. QED
    BY <1>1, <1>4, <2>1, <2>2, <2>3 DEF IInv, PlaceInv, Gone
<1>8. CallInv' /\ ResultInv' /\ NoInterleaving'
  BY DEF IInv, CallInv, ResultInv, WriteReported, NoInterleaving, At
<1>9. NoLostHelper'
  BY <1>1 DEF IInv, NoLostHelper, Alive, Hung
<1>. QED
  BY <1>3, <1>5, <1>6, <1>7, <1>8, <1>9 DEF IInv

LEMMA CloseEventKeeps ==
  ASSUME IInv, NEW n \in Sessions, CloseEvent(n) PROVE IInv'
<1>1. /\ seen[n] = "exited" /\ seen' = [seen EXCEPT ![n] = "closed"] /\ Yields
      /\ FinalizeExited(n)
      /\ UNCHANGED <<up, generation, opened, helper, poisoned, bound, waiting, fired, op, line,
                     closer, shut>>
  BY DEF CloseEvent, mcp, queued, calls
<1>2. helper[n] = "dead"
  BY <1>1 DEF IInv, HelperInv
<1>3. /\ seen' \in [Sessions -> {"running", "exited", "closed"}]
      /\ \A m \in Sessions : seen'[m] # "running" => helper[m] = "dead"
  BY <1>1, <1>2 DEF IInv, HelperTyped, HelperInv
<1>. QED
  BY <1>1, <1>2, <1>3, RetiredKeeps DEF IInv, ManagerTyped, OpTyped

-----------------------------------------------------------------------------
(* Requests and replies.                                                   *)
LEMMA HelperServesKeeps == IInv /\ HelperServes => IInv'
<1>. SUFFICES ASSUME IInv, HelperServes PROVE IInv'
  OBVIOUS
<1>1. UNCHANGED <<up, generation, opened, owner, helper, seen, bound, active, waiting, timer,
                  fired, shut, faults, poisoned, closer>>
  BY DEF HelperServes, rest, mcp, process, manager, queued
<1>2. ASSUME NEW a \in Actors, NEW reply \in {"ok", "failed", "refused"}, Serve(a, reply)
      PROVE  /\ line' \in [Actors -> Lines] /\ line[a].reply = "none"
             /\ line'[a].kind = line[a].kind /\ line'[a].reply = reply
             /\ \A b \in Actors \ {a} : line'[b] = line[b]
  <2>1. line' = [line EXCEPT ![a] = [line[a] EXCEPT !.reply = reply]] /\ line[a].reply = "none"
    BY <1>2 DEF Serve
  <2>2. PICK l : l = [line[a] EXCEPT !.reply = reply]
    OBVIOUS
  <2>3. l \in Lines /\ l.kind = line[a].kind /\ l.reply = reply
    BY <2>2 DEF IInv, OpTyped, Lines
  <2>. QED
    BY <2>1, <2>2, <2>3 DEF IInv, OpTyped
<1>3. CASE \E a \in Actors : /\ line[a].kind \in {"state", "close"}
                             /\ Serve(a, "ok") /\ UNCHANGED op
  <2>1. PICK a \in Actors : line[a].kind \in {"state", "close"} /\ Serve(a, "ok") /\ UNCHANGED op
    BY <1>3
  <2>2. /\ line' \in [Actors -> Lines] /\ line'[a].kind = line[a].kind
        /\ \A b \in Actors \ {a} : line'[b] = line[b]
    BY <2>1, <1>2
  <2>3. line'["op"].kind = line["op"].kind /\ line'["shut"].kind = line["shut"].kind
    BY <2>2 DEF Actors
  <2>4. CallInv'
    BY <1>1, <2>1, <2>3 DEF IInv, CallInv
  <2>5. line["op"].kind \in Commands => line'["op"].reply = line["op"].reply
    BY <2>1, <2>2 DEF Actors, Commands
  <2>6. ResultInv'
    BY <1>1, <2>1, <2>3, <2>5 DEF IInv, ResultInv, CallInv, WriteReported
  <2>7. PlaceInv' /\ NoInterleaving'
    BY <1>1, <2>1 DEF IInv, PlaceInv, Gone, RetiredMeansReleased, NoInterleaving, At
  <2>. QED
    BY <1>1, <2>1, <2>2, <2>4, <2>6, <2>7, OperationKeeps
       DEF IInv, ManagerTyped, HelperTyped, OpTyped
<1>4. CASE line["op"].kind \in Commands /\ \E reply \in {"ok", "failed", "refused"} :
             /\ Serve("op", reply)
             /\ \/ op' = [op EXCEPT !.issued = TRUE] /\ reply # "refused"
                \/ UNCHANGED op /\ reply = "refused"
  <2>1. PICK reply \in {"ok", "failed", "refused"} :
          /\ Serve("op", reply)
          /\ \/ op' = [op EXCEPT !.issued = TRUE] /\ reply # "refused"
             \/ UNCHANGED op /\ reply = "refused"
    BY <1>4
  <2>2. /\ line' \in [Actors -> Lines] /\ line'["op"].kind = line["op"].kind
        /\ line["op"].reply = "none" /\ line'["op"].reply = reply
        /\ line'["shut"].kind = line["shut"].kind
    BY <2>1, <1>2 DEF Actors
  <2>3. PICK yes \in BOOLEAN : yes = TRUE
    OBVIOUS
  <2>4. /\ op' \in OpRecords /\ op'.tool = op.tool /\ op'.at = op.at
        /\ op'.session = op.session /\ op'.next = op.next /\ op'.command = op.command
        /\ op'.reported = op.reported /\ op'.issued \in BOOLEAN
    <3>1. CASE op' = [op EXCEPT !.issued = yes]
      BY <3>1 DEF IInv, OpTyped, OpRecords
    <3>2. CASE op' = op
      BY <3>2 DEF IInv, OpTyped, OpRecords
    <3>. QED
      BY <2>1, <2>3, <3>1, <3>2
  <2>5. reply = "refused" => op' = op
    BY <2>1
  <2>6. op.at = "asking" /\ line["op"].kind = op.command
    BY <1>4 DEF IInv, CallInv
  <2>7. CallInv'
    BY <1>1, <2>2, <2>4 DEF IInv, CallInv
  <2>8. ResultInv'
    BY <2>2, <2>4, <2>5, <2>6 DEF IInv, ResultInv, WriteReported
  <2>9. PlaceInv' /\ NoInterleaving'
    BY <1>1, <2>4 DEF IInv, PlaceInv, Gone, RetiredMeansReleased, NoInterleaving, At
  <2>. QED
    BY <1>1, <2>2, <2>4, <2>7, <2>8, <2>9, OperationKeeps
       DEF IInv, ManagerTyped, HelperTyped, OpTyped
<1>. QED
  BY <1>3, <1>4 DEF HelperServes

LEMMA CloseAskedKeeps ==
  ASSUME IInv, NEW a \in Actors, CloseAsked(a) PROVE IInv'
<1>1. /\ closer[a].at = "asking" /\ poisoned' = poisoned \cup {closer[a].session}
      /\ UNCHANGED <<up, generation, opened, owner, helper, seen, bound, active, op, waiting,
                     timer, fired, shut, faults>>
      /\ Answered(a) \/ Rejected(a)
  BY DEF CloseAsked, rest, mcp, manager, queued
<1>2. closer[a].session \in Sessions
  BY <1>1 DEF IInv, CallInv, OpTyped, Closers, Sessions
<1>3. /\ closer' \in [Actors -> Closers] /\ closer'[a].session = closer[a].session
      /\ \A b \in Actors \ {a} : closer'[b] = closer[b]
  BY <1>2, AwaitEffect DEF CloseAsked, Await, IInv
<1>4. /\ line' \in [Actors -> Lines] /\ line'[a].kind = "none"
      /\ \A b \in Actors \ {a} : line'[b] = line[b]
  BY <1>1, NoLineEffect DEF IInv
<1>5. CallInv'
  <2>1. \A b \in Actors : closer'[b].at # "none" => closer'[b].session # 0
    BY <1>2, <1>3 DEF IInv, CallInv, Sessions
  <2>2. line'["op"].kind \in Commands => line'["op"] = line["op"]
    BY <1>4 DEF Actors, Commands
  <2>3. closer'["op"].at # "none" => closer["op"].at # "none"
    BY <1>1, <1>3 DEF Actors
  <2>4. line'["shut"].kind \in {"none", line["shut"].kind}
    BY <1>4 DEF Actors
  <2>. QED
    BY <1>1, <2>1, <2>2, <2>3, <2>4 DEF IInv, CallInv
<1>6. closer'["op"].session = closer["op"].session
  BY <1>3 DEF Actors
<1>7. PlaceInv' /\ NoInterleaving'
  BY <1>1, <1>6 DEF IInv, PlaceInv, Gone, RetiredMeansReleased, NoInterleaving, At
<1>8. a = "op" => op.at = "closing"
  BY <1>1 DEF IInv, CallInv
<1>9. ResultInv'
  BY <1>1, <1>4, <1>8 DEF IInv, ResultInv, WriteReported, Actors
<1>. QED
  BY <1>1, <1>2, <1>3, <1>4, <1>5, <1>7, <1>9, OperationKeeps
     DEF IInv, ManagerTyped, HelperTyped, OpTyped

-----------------------------------------------------------------------------
(* Operations arrive, are refused or get their turn.                       *)
LEMMA ArriveKeeps ==
  ASSUME IInv, NEW tool \in Tools, Arrive(tool) PROVE IInv'
<1>1. /\ tool = "configure" => generation < MaxGenerations
      /\ waiting' = waiting \cup {[tool |-> tool, generation |-> generation,
                                   required |-> LocalOwner(generation)]}
      /\ UNCHANGED <<up, generation, opened, owner, helper, seen, bound, active, op, poisoned,
                     timer, fired, shut, faults, closer, line>>
  BY DEF Arrive, rest, mcp, process, manager, calls
<1>2. /\ LocalOwner(generation) \in 0 .. MaxSessions
      /\ LocalOwner(generation) # 0 =>
           LocalOwner(generation) = active /\ bound[active] = generation
  BY SessionBoundsOK DEF LocalOwner, IInv, ManagerTyped
<1>3. PICK w : w = [tool |-> tool, generation |-> generation,
                    required |-> LocalOwner(generation)]
  OBVIOUS
<1>4. /\ w \in Request /\ w.tool = tool /\ w.generation = generation
      /\ w.required = LocalOwner(generation)
  BY <1>2, <1>3 DEF IInv, ManagerTyped, Request
<1>5. waiting' = waiting \cup {w}
  BY <1>1, <1>3
<1>6. ManagerTyped' /\ OpTyped' /\ HelperTyped'
  BY <1>1, <1>4, <1>5 DEF IInv, ManagerTyped, OpTyped, HelperTyped
<1>7. ManagerInv'
  BY <1>1, <1>2, <1>4, <1>5 DEF IInv, ManagerInv, Gone
<1>8. HelperInv' /\ NoLostHelper' /\ NoInterleaving'
  BY <1>1 DEF IInv, HelperInv, OwnerCoversHelper, NoLostHelper, NoInterleaving, Alive, Hung, At
<1>9. PlaceInv' /\ CallInv' /\ ResultInv'
  BY <1>1 DEF IInv, PlaceInv, Gone, RetiredMeansReleased, At, CallInv, ResultInv, WriteReported
<1>. QED
  BY <1>6, <1>7, <1>8, <1>9 DEF IInv

LEMMA RefuseKeeps ==
  ASSUME IInv, NEW w \in waiting, Refuse(w) PROVE IInv'
<1>1. /\ waiting' = waiting \ {w}
      /\ UNCHANGED <<up, generation, opened, owner, helper, seen, bound, active, op, poisoned,
                     timer, fired, shut, faults, closer, line>>
  BY DEF Refuse, rest, mcp, process, manager, calls
<1>2. CallInv'
  BY <1>1 DEF IInv, CallInv
<1>. QED
  BY <1>1, <1>2, StandKeeps DEF IInv, ManagerTyped, HelperTyped, OpTyped

LEMMA TimerFiresKeeps == IInv /\ TimerFires => IInv'
<1>. SUFFICES ASSUME IInv, TimerFires PROVE IInv'
  OBVIOUS
<1>1. /\ timer # 0 /\ fired' = fired \cup {timer} /\ timer' = 0
      /\ UNCHANGED <<up, generation, opened, owner, helper, seen, bound, active, op, poisoned,
                     waiting, shut, faults, closer, line>>
  BY DEF TimerFires, rest, mcp, process, calls
<1>2. fired' \subseteq Sessions
  BY <1>1 DEF IInv, ManagerTyped, Sessions
<1>3. CallInv'
  BY <1>1 DEF IInv, CallInv
<1>. QED
  BY <1>1, <1>2, <1>3, StandKeeps DEF IInv, ManagerTyped, HelperTyped, OpTyped

(* What a free slot and a request that is admitted say.                    *)
LEMMA TurnEffect ==
  ASSUME IInv, NEW w \in waiting, Turn(w)
  PROVE  /\ op = NoOp /\ op.at = "none" /\ op.session = 0 /\ w \in Request
         /\ waiting' \subseteq waiting
         /\ w.generation = generation /\ up
         /\ w.required = 0 => owner = NoOwner
         /\ w.required # 0 => /\ owner.token = w.required
                              /\ w.required = active \/ Gone(w.required)
                              /\ bound[w.required] = generation
         /\ w.tool = "configure" => generation < MaxGenerations
         /\ closer["op"].at = "none"
         /\ UNCHANGED <<up, generation, opened, shut, faults, owner, helper, seen, bound, fired>>
<1>1. op = NoOp /\ op.at = "none" /\ op.session = 0
  BY DEF Turn, Slot, NoOp
<1>. QED
  BY <1>1 DEF IInv, ManagerInv, ManagerTyped, Turn, Slot, Yields, Admissible, CallInv, rest, mcp

LEMMA ReuseKeeps ==
  ASSUME IInv, NEW w \in waiting, Reuse(w) PROVE IInv'
<1>1. /\ active # 0 /\ timer' = active /\ Turn(w)
      /\ UNCHANGED <<poisoned, active, closer, line>>
      /\ Working("memory", "ready", active, "none")
  BY DEF Reuse, ScheduleIdle, calls
<1>2. active \in 0 .. MaxSessions
  BY DEF IInv, ManagerTyped
<1>3. /\ op' \in OpRecords /\ op'.tool = "memory" /\ op'.at = "ready" /\ op'.session = active
      /\ op'.next = "none" /\ op'.issued = FALSE
  BY <1>1, <1>2, WorkEffect DEF Tools
<1>4. PlaceInv'
  BY <1>1, <1>3, TurnEffect DEF IInv, ManagerInv, PlaceInv, RetiredMeansReleased, At
<1>5. line["op"].kind \notin Commands
  BY <1>1, TurnEffect DEF IInv, CallInv
<1>6. CallInv' /\ ResultInv' /\ NoInterleaving'
  BY <1>1, <1>3, <1>5, TurnEffect
     DEF IInv, CallInv, ResultInv, WriteReported, NoInterleaving, At
<1>7. /\ UNCHANGED <<up, generation, opened, shut, faults, owner, helper, seen, bound, fired>>
      /\ waiting' \subseteq waiting /\ op.session = 0
  BY <1>1, TurnEffect
<1>. QED
  BY <1>1, <1>3, <1>4, <1>6, <1>7, StandingTypes, BeginKeeps

(* An operation in a free slot starts with the close of the active session.*)
LEMMA ClosesKeeps ==
  ASSUME IInv, op.session = 0, op.at = "none", active # 0, CloseSession("op", active),
         timer' = 0, waiting' \subseteq waiting, fired' \subseteq Sessions,
         UNCHANGED <<up, generation, opened, shut, faults, owner, helper, seen, bound, active>>,
         NEW tool \in {"memory", "idle"}, NEW next \in {"none", "claim"},
         Working(tool, "closing", active, next), next = "claim" => opened < MaxSessions
  PROVE  IInv'
<1>1. active \in Sessions /\ active \in 0 .. MaxSessions
  BY DEF IInv, ManagerTyped, Sessions
<1>2. /\ op' \in OpRecords /\ op'.tool = tool /\ op'.at = "closing" /\ op'.session = active
      /\ op'.next = next /\ op'.issued = FALSE
  <2>1. tool \in Tools \cup {"none", "idle", "foreign"}
    BY DEF Tools
  <2>2. next \in {"none", "claim", "abandon", "using", "retired"}
    OBVIOUS
  <2>. QED
    BY <1>1, <2>1, <2>2, WorkEffect
<1>3. /\ closer' \in [Actors -> Closers] /\ line' \in [Actors -> Lines]
      /\ poisoned' \subseteq Sessions
      /\ closer'["op"].session = active /\ closer'["op"].at # "none"
      /\ line'["op"] = line["op"] \/ line'["op"].kind = "close"
      /\ closer'["shut"] = closer["shut"] /\ line'["shut"] = line["shut"]
  BY <1>1, CloseEffect DEF IInv, Actors
<1>4. PlaceInv'
  BY <1>2, <1>3 DEF IInv, ManagerInv, PlaceInv, RetiredMeansReleased, At
<1>5. line'["op"].kind \notin Commands
  BY <1>3 DEF IInv, CallInv, Commands
<1>6. CallInv'
  <2>1. \A a \in Actors : closer'[a].at # "none" => closer'[a].session # 0
    BY <1>3 DEF Actors, IInv, CallInv
  <2>. QED
    BY <1>2, <1>3, <1>5, <2>1 DEF IInv, CallInv
<1>7. ResultInv' /\ NoInterleaving'
  BY <1>2 DEF ResultInv, WriteReported, NoInterleaving, At
<1>. QED
  BY <1>2, <1>3, <1>4, <1>6, <1>7, BeginKeeps

LEMMA ReplaceKeeps ==
  ASSUME IInv, NEW w \in waiting, Replace(w) PROVE IInv'
<1>1. /\ active # 0 /\ timer' = 0 /\ Turn(w) /\ CloseSession("op", active) /\ UNCHANGED active
      /\ Working("memory", "closing", active, "claim") /\ opened < MaxSessions
  BY DEF Replace
<1>2. fired' \subseteq Sessions
  BY <1>1, TurnEffect DEF IInv, ManagerTyped
<1>. QED
  BY <1>1, <1>2, TurnEffect, ClosesKeeps

LEMMA IdleTurnKeeps ==
  ASSUME IInv, NEW n \in Sessions, IdleTurn(n) PROVE IInv'
<1>1. /\ op = NoOp /\ fired' = fired \ {n}
      /\ UNCHANGED <<up, generation, opened, shut, faults, owner, helper, seen, bound, active,
                     waiting>>
  BY DEF IdleTurn, Slot, rest, mcp
<1>2. op.session = 0 /\ op.at = "none" /\ fired' \subseteq Sessions
  BY <1>1 DEF NoOp, IInv, ManagerTyped
<1>3. CASE active = n
  <2>1. CloseSession("op", active) /\ timer' = 0 /\ Working("idle", "closing", active, "none")
    BY <1>3 DEF IdleTurn
  <2>2. active # 0
    BY <1>3 DEF Sessions
  <2>. QED
    BY <1>1, <1>2, <2>1, <2>2, ClosesKeeps
<1>4. CASE active # n
  <2>1. UNCHANGED <<poisoned, timer, op, closer, line>>
    BY <1>4 DEF IdleTurn, calls
  <2>2. CallInv'
    BY <2>1 DEF IInv, CallInv
  <2>. QED
    BY <1>1, <1>2, <2>1, <2>2, StandKeeps DEF IInv, ManagerTyped, HelperTyped, OpTyped
<1>. QED
  BY <1>3, <1>4

(* An operation that awaits nothing moves on without a call.               *)
LEMMA QuietKeeps ==
  ASSUME IInv, UNCHANGED <<closer, line>>, closer["op"].at = "none",
         op.at # "asking", op' \in OpRecords, op'.issued = FALSE, op'.at \notin {"asking", "closing"}
  PROVE  CallInv' /\ ResultInv'
<1>1. line["op"].kind \notin Commands
  BY DEF IInv, CallInv
<1>. QED
  BY <1>1 DEF IInv, CallInv, ResultInv, WriteReported

LEMMA OpenKeeps ==
  ASSUME IInv, NEW w \in waiting, Open(w) PROVE IInv'
<1>1. /\ active = 0 /\ opened < MaxSessions /\ Turn(w)
      /\ UNCHANGED <<poisoned, active, timer, closer, line>>
      /\ Working("memory", "claim", 0, "none")
  BY DEF Open, manager, calls
<1>2. /\ op' \in OpRecords /\ op'.tool = "memory" /\ op'.at = "claim" /\ op'.session = 0
      /\ op'.next = "none" /\ op'.issued = FALSE
  <2>1. 0 \in 0 .. MaxSessions /\ "memory" \in Tools
    BY SessionBoundsOK DEF Tools
  <2>. QED
    BY <1>1, <2>1, WorkEffect
<1>3. /\ UNCHANGED <<up, generation, opened, shut, faults, owner, helper, seen, bound, fired>>
      /\ waiting' \subseteq waiting /\ op.session = 0 /\ op.at = "none"
      /\ closer["op"].at = "none"
  BY <1>1, TurnEffect
<1>4. PlaceInv' /\ NoInterleaving'
  BY <1>1, <1>2, <1>3 DEF PlaceInv, RetiredMeansReleased, NoInterleaving, At
<1>5. CallInv' /\ ResultInv'
  BY <1>1, <1>2, <1>3, QuietKeeps
<1>. QED
  BY <1>1, <1>2, <1>3, <1>4, <1>5, StandingTypes, BeginKeeps

(* A tool that finds no session of its target's uses the Probe itself: the *)
(* queue admits it only without an owner, or with one whose helper exited. *)
LEMMA UseDirectlyKeeps ==
  ASSUME IInv, NEW w \in waiting, UseDirectly(w) PROVE IInv'
<1>1. /\ w.tool # "memory" /\ LocalOwner(generation) = 0 /\ Turn(w)
      /\ UNCHANGED <<poisoned, active, timer, closer, line>>
      /\ Working(w.tool, "using", 0, "none")
  BY DEF UseDirectly, manager, calls
<1>2. /\ UNCHANGED <<up, generation, opened, shut, faults, owner, helper, seen, bound, fired>>
      /\ waiting' \subseteq waiting /\ op.session = 0 /\ op.at = "none"
      /\ closer["op"].at = "none" /\ w \in Request
      /\ w.required = 0 => owner = NoOwner
      /\ w.required # 0 => /\ owner.token = w.required
                           /\ w.required = active \/ Gone(w.required)
                           /\ bound[w.required] = generation
      /\ w.tool = "configure" => generation < MaxGenerations
  BY <1>1, TurnEffect
<1>3. w.tool \in Tools
  BY <1>2 DEF Request
<1>4. /\ op' \in OpRecords /\ op'.tool = w.tool /\ op'.at = "using" /\ op'.session = 0
      /\ op'.next = "none" /\ op'.issued = FALSE
  <2>1. 0 \in 0 .. MaxSessions /\ w.tool \in Tools \cup {"none", "idle", "foreign"}
    BY <1>3, SessionBoundsOK
  <2>2. Working(w.tool, "using", 0, "none")
    BY <1>1
  <2>. QED
    BY <2>1, <2>2, WorkEffect
<1>5. \A n \in Sessions : helper[n] \notin {"activated", "connected"}
  <2>1. SUFFICES ASSUME NEW n \in Sessions, helper[n] \in {"activated", "connected"} PROVE FALSE
    OBVIOUS
  <2>2. owner.token = n /\ owner # NoOwner /\ ~Gone(n)
    BY <2>1, ActiveIsOwner
  <2>3. active = n /\ bound[active] = generation
    BY <1>2, <2>2
  <2>. QED
    BY <1>1, <2>3 DEF LocalOwner, Sessions
<1>6. PlaceInv' /\ NoInterleaving'
  BY <1>1, <1>2, <1>3, <1>4, <1>5
     DEF PlaceInv, RetiredMeansReleased, NoInterleaving, At, Tools
<1>7. CallInv' /\ ResultInv'
  BY <1>1, <1>2, <1>4, QuietKeeps
<1>. QED
  BY <1>1, <1>2, <1>4, <1>6, <1>7, StandingTypes, BeginKeeps

LEMMA CloseForTargetKeeps ==
  ASSUME IInv, NEW w \in waiting, CloseForTarget(w) PROVE IInv'
<1>1. /\ w.tool # "memory" /\ LocalOwner(generation) # 0 /\ Turn(w)
      /\ UNCHANGED <<poisoned, active, timer, closer>>
      /\ \/ /\ Send("op", active, "state") /\ Working(w.tool, "observing", active, "using")
         \/ Working(w.tool, "observed", active, "using") /\ UNCHANGED line
  BY DEF CloseForTarget, manager
<1>2. /\ UNCHANGED <<up, generation, opened, shut, faults, owner, helper, seen, bound, fired>>
      /\ waiting' \subseteq waiting /\ op.session = 0 /\ op.at = "none"
      /\ closer["op"].at = "none" /\ w \in Request
      /\ w.tool = "configure" => generation < MaxGenerations
  BY <1>1, TurnEffect
<1>3. w.tool \in Tools
  BY <1>2 DEF Request
<1>4. active # 0 /\ active \in 0 .. MaxSessions /\ active \in Sessions
  BY <1>1 DEF LocalOwner, IInv, ManagerTyped, Sessions
<1>5. /\ op' \in OpRecords /\ op'.tool = w.tool /\ op'.at \in {"observing", "observed"}
      /\ op'.session = active /\ op'.next = "using" /\ op'.issued = FALSE
  <2>1. w.tool \in Tools \cup {"none", "idle", "foreign"}
    BY <1>3
  <2>2. CASE Working(w.tool, "observing", active, "using")
    BY <1>4, <2>1, <2>2, WorkEffect
  <2>3. CASE Working(w.tool, "observed", active, "using")
    BY <1>4, <2>1, <2>3, WorkEffect
  <2>. QED
    BY <1>1, <2>2, <2>3
<1>6. /\ line' \in [Actors -> Lines]
      /\ line'["op"] = line["op"] \/ line'["op"].kind = "state"
      /\ line'["shut"] = line["shut"]
  BY <1>1, <1>4, SendEffect DEF IInv, OpTyped, Actors
<1>7. PlaceInv' /\ NoInterleaving'
  BY <1>1, <1>2, <1>3, <1>4, <1>5
     DEF PlaceInv, RetiredMeansReleased, NoInterleaving, At, Tools, IInv, ManagerInv
<1>8. line'["op"].kind \notin Commands
  BY <1>2, <1>6 DEF IInv, CallInv, Commands
<1>9. CallInv' /\ ResultInv'
  BY <1>1, <1>2, <1>5, <1>6, <1>8 DEF IInv, CallInv, ResultInv, WriteReported
<1>. QED
  BY <1>1, <1>2, <1>5, <1>6, <1>7, <1>9, StandingTypes, BeginKeeps

-----------------------------------------------------------------------------
(* A session is opened.  The owner is claimed when there is none, so no    *)
(* session is active and no helper can reach the Probe.                    *)
LEMMA ClaimOwnerKeeps == IInv /\ ClaimOwner => IInv'
<1>. SUFFICES ASSUME IInv, ClaimOwner PROVE IInv'
  OBVIOUS
<1>1. /\ op.at = "claim" /\ up
      /\ UNCHANGED <<up, generation, helper, seen, poisoned, active, timer, fired, waiting,
                     closer, line, shut, faults>>
  BY DEF ClaimOwner, At, manager, queued, calls
<1>2. /\ op.session = 0 \/ Gone(op.session)
      /\ opened < MaxSessions /\ closer["op"].at = "none" /\ op.issued = FALSE
      /\ op \in OpRecords /\ op.tool # "foreign"
      /\ op.tool = "configure" => generation < MaxGenerations
  BY <1>1 DEF IInv, PlaceInv, CallInv, ResultInv, OpTyped, OpRecords, Closers, Actors
<1>3. CASE OwnerLive
  <2>1. op' = NoOp /\ UNCHANGED <<opened, owner, bound>>
    BY <1>3 DEF ClaimOwner
  <2>2. PlaceInv' /\ NoInterleaving'
    BY <2>1, IdleEffect DEF PlaceInv, RetiredMeansReleased, NoInterleaving, At
  <2>3. CallInv' /\ ResultInv'
    BY <1>1, <1>2, <2>1, IdleEffect, QuietKeeps
  <2>. QED
    BY <1>1, <1>2, <2>1, <2>2, <2>3, IdleEffect, OperationKeeps
       DEF IInv, ManagerTyped, HelperTyped, OpTyped, Alive, Gone
<1>4. CASE ~OwnerLive
  <2>. DEFINE n == opened + 1
  <2>1. /\ opened' = n /\ owner' = [token |-> n, recorded |-> FALSE]
        /\ bound' = [bound EXCEPT ![n] = generation]
        /\ op' = [op EXCEPT !.at = "claimed", !.session = n]
    BY <1>4 DEF ClaimOwner
  <2>2. /\ n \in Sessions /\ n # 0 /\ n \in 0 .. MaxSessions /\ opened \in Nat /\ n > opened
        /\ \A m \in Sessions : m > n => m > opened
    BY <1>2, SessionBoundsOK DEF IInv, ManagerTyped, Sessions
  <2>. HIDE DEF n
  <2>3. owner = NoOwner /\ owner.token = 0 /\ active = 0
    <3>1. owner = NoOwner
      BY <1>1, <1>4 DEF OwnerLive
    <3>2. owner.token = 0
      BY <3>1 DEF NoOwner
    <3>. QED
      BY <3>1, <3>2 DEF IInv, ManagerInv
  <2>4. helper[n] = "none"
    BY <2>2 DEF IInv, HelperInv
  <2>5. PICK a : a = [op EXCEPT !.at = "claimed"]
    OBVIOUS
  <2>6. /\ a \in OpRecords /\ a.at = "claimed" /\ a.tool = op.tool /\ a.next = op.next
        /\ a.command = op.command /\ a.issued = op.issued
    BY <1>2, <2>5 DEF OpRecords
  <2>7. op' = [a EXCEPT !.session = n]
    BY <1>2, <2>1, <2>5 DEF OpRecords
  <2>8. /\ op' \in OpRecords /\ op'.at = "claimed" /\ op'.tool = op.tool /\ op'.next = op.next
        /\ op'.session = n /\ op'.issued = op.issued
    BY <2>2, <2>6, <2>7 DEF OpRecords
  <2>9. /\ owner' \in OwnerRecords /\ owner'.token = n /\ owner'.recorded = FALSE
    BY <2>1, <2>2 DEF OwnerRecords
  <2>10. /\ bound' \in [Sessions -> 0 .. MaxGenerations]
         /\ \A m \in Sessions \ {n} : bound'[m] = bound[m]
    <3>1. generation \in 0 .. MaxGenerations
      BY SessionBoundsOK DEF IInv, ManagerTyped
    <3>. QED
      BY <2>1, <2>2, <3>1 DEF IInv, HelperTyped
  <2>11. ManagerTyped' /\ OpTyped' /\ HelperTyped'
    BY <1>1, <2>1, <2>2, <2>8, <2>9, <2>10 DEF IInv, ManagerTyped, OpTyped, HelperTyped
  <2>12. \A m \in Sessions : helper[m] \notin {"activated", "connected"}
    BY <2>3, ActiveIsOwner
  <2>13. HelperInv'
    <3>1. \A m \in Sessions : m > opened' => helper[m] = "none"
      BY <2>1, <2>2 DEF IInv, HelperInv
    <3>. QED
      BY <1>1, <2>1, <2>2, <2>9, <2>12, <3>1 DEF IInv, HelperInv, OwnerCoversHelper
  <2>14. ManagerInv'
    <3>1. \A w \in waiting : w.required # 0 => w.required \in Sessions /\ w.required # n
      BY <2>3, <2>4 DEF IInv, ManagerInv, Gone
    <3>. QED
      BY <1>1, <2>3, <2>10, <3>1 DEF IInv, ManagerInv, Gone
  <2>15. PlaceInv'
    BY <1>1, <1>2, <2>1, <2>2, <2>3, <2>4, <2>8, <2>9 DEF PlaceInv, RetiredMeansReleased, At
  <2>16. CallInv' /\ ResultInv'
    BY <1>1, <1>2, <2>8, QuietKeeps
  <2>17. NoInterleaving' /\ NoLostHelper'
    <3>1. \A m \in Sessions : op.session = m => ~Alive(m)
      BY <1>2 DEF Alive, Gone, Sessions
    <3>. QED
      BY <1>1, <2>8, <3>1 DEF IInv, NoInterleaving, NoLostHelper, Alive, Hung, At
  <2>. QED
    BY <2>11, <2>13, <2>14, <2>15, <2>16, <2>17 DEF IInv
<1>. QED
  BY <1>3, <1>4

LEMMA NoSessionKeeps == IInv /\ NoSession => IInv'
<1>. SUFFICES ASSUME IInv, NoSession PROVE IInv'
  OBVIOUS
<1>1. /\ op.at = "claimed" /\ ReleaseOwner(op.session) /\ up
      /\ op' = NoOp \/ (owner' = NoOwner /\ Goto("using"))
      /\ UNCHANGED <<up, generation, opened, helper, seen, poisoned, bound, active, timer,
                     fired, waiting, closer, line, shut>>
  BY DEF NoSession, At, mcp, process, manager, queued, calls
<1>2. /\ op.session # 0 /\ active = 0 /\ helper[op.session] = "none"
      /\ owner = [token |-> op.session, recorded |-> FALSE]
      /\ op \in OpRecords /\ op.session \in Sessions /\ op.tool # "foreign"
      /\ closer["op"].at = "none" /\ op.issued = FALSE
      /\ op.tool = "configure" => generation < MaxGenerations
  BY <1>1 DEF IInv, PlaceInv, OpTyped, OpRecords, Sessions, CallInv, ResultInv, Closers, Actors
<1>3. /\ owner' \in {owner, NoOwner} /\ owner' \in OwnerRecords
      /\ faults \subseteq faults' /\ faults' \subseteq Faults \X Sessions
  BY <1>1, <1>2, ReleaseEffect DEF IInv
<1>4. \A m \in Sessions : helper[m] \notin {"activated", "connected"}
  <2>1. SUFFICES ASSUME NEW m \in Sessions, helper[m] \in {"activated", "connected"} PROVE FALSE
    OBVIOUS
  <2>2. op.session \in {0, m}
    BY <2>1, ActiveIsOwner
  <2>. QED
    BY <1>2, <2>1, <2>2
<1>5. /\ op' \in OpRecords /\ op'.issued = FALSE /\ op'.at \in {"none", "using"}
      /\ op'.at = "none" => op'.session = 0 /\ op'.tool = "none" /\ op'.next = "none"
      /\ op'.at = "using" => op'.session = op.session /\ op'.tool = op.tool /\ owner' = NoOwner
  BY <1>1, <1>2, IdleEffect, GotoEffect
<1>6. NoOwner.token = 0 /\ opened \in Nat
  BY SessionBoundsOK DEF NoOwner, IInv, ManagerTyped
<1>7. ManagerTyped' /\ OpTyped' /\ HelperTyped'
  BY <1>1, <1>3, <1>5 DEF IInv, ManagerTyped, OpTyped, HelperTyped
<1>8. HelperInv' /\ ManagerInv'
  BY <1>1, <1>2, <1>3, <1>4, <1>6 DEF IInv, HelperInv, OwnerCoversHelper, ManagerInv, Gone
<1>9. PlaceInv'
  BY <1>1, <1>2, <1>5, <1>6 DEF PlaceInv, RetiredMeansReleased, At
<1>10. CallInv' /\ ResultInv'
  BY <1>1, <1>2, <1>5, QuietKeeps
<1>11. NoInterleaving'
  BY <1>1, <1>4 DEF NoInterleaving
<1>12. NoLostHelper'
  BY <1>1, <1>2, <1>3 DEF IInv, NoLostHelper, Alive, Hung
<1>. QED
  BY <1>7, <1>8, <1>9, <1>10, <1>11, <1>12 DEF IInv

(* The helper of a session that was claimed is spawned, recorded and       *)
(* activated: the Probe is its own only when its pid is in the record.     *)
LEMMA StartsKeeps ==
  ASSUME IInv, up, op.at \in {"claimed", "spawned", "recorded"},
         UNCHANGED <<up, generation, opened, owner, seen, poisoned, bound, active, timer, fired,
                     waiting, closer, line, shut, faults>>,
         helper' \in [Sessions -> HelperStates],
         \A m \in Sessions : m # op.session => helper'[m] = helper[m],
         helper[op.session] = "dead" => helper'[op.session] = "dead",
         NEW at \in {"spawned", "opening"}, Goto(at),
         at = "spawned" => helper'[op.session] \in {"gated", "dead"},
         helper'[op.session] \in {"activated", "connected"} => op.at = "recorded"
  PROVE  IInv'
<1>1. /\ op.session # 0 /\ active = 0 /\ owner.token = op.session /\ op \in OpRecords
      /\ op.session \in Sessions /\ op.tool # "foreign" /\ closer["op"].at = "none"
      /\ op.issued = FALSE
      /\ op.tool = "configure" => generation < MaxGenerations
      /\ op.at = "recorded" => owner.recorded
  BY DEF IInv, PlaceInv, OpTyped, OpRecords, Sessions, CallInv, ResultInv, Closers, Actors
<1>2. /\ op' \in OpRecords /\ op'.tool = op.tool /\ op'.at = at /\ op'.session = op.session
      /\ op'.next = op.next /\ op'.issued = FALSE
  <2>1. at \in {"none", "claim", "claimed", "spawned", "recorded", "opening", "ready",
                "asking", "failing", "observing", "observed", "closing", "using",
                "retired"}
    OBVIOUS
  <2>2. /\ op' \in OpRecords /\ op'.tool = op.tool /\ op'.at = at
        /\ op'.session = op.session /\ op'.next = op.next /\ op'.issued = op.issued
    BY <1>1, <2>1 DEF Goto, OpRecords
  <2>. QED
    BY <1>1, <2>2, Zenon
<1>3. ManagerTyped' /\ OpTyped' /\ HelperTyped'
  BY <1>2 DEF IInv, ManagerTyped, OpTyped, HelperTyped
<1>4. \A m \in Sessions : m # op.session => helper[m] \notin {"activated", "connected"}
  <2>1. SUFFICES ASSUME NEW m \in Sessions, helper[m] \in {"activated", "connected"}
                 PROVE m = op.session
    OBVIOUS
  <2>. QED
    BY <1>1, <2>1, ActiveIsOwner
<1>5. OwnerCoversHelper'
  <2>1. SUFFICES ASSUME NEW m \in Sessions, helper'[m] \in {"activated", "connected"}
                 PROVE owner = [token |-> m, recorded |-> TRUE]
    BY DEF OwnerCoversHelper
  <2>2. m = op.session /\ op.at = "recorded"
    BY <1>4, <2>1
  <2>3. owner.recorded = TRUE /\ owner \in OwnerRecords
    BY <1>1, <2>2 DEF IInv, HelperTyped, OwnerRecords
  <2>. QED
    BY <1>1, <2>2, <2>3 DEF OwnerRecords
<1>6. HelperInv'
  <2>1. \A m \in Sessions : m > opened => helper'[m] = "none"
    <3>1. op.session <= opened
      BY <1>1 DEF IInv, HelperInv
    <3>. QED
      BY <1>1, <3>1 DEF IInv, HelperInv, ManagerTyped, Sessions
  <2>2. \A m \in Sessions : seen[m] # "running" => helper'[m] = "dead"
    BY DEF IInv, HelperInv
  <2>. QED
    BY <1>5, <2>1, <2>2 DEF HelperInv, IInv
<1>7. ManagerInv'
  BY <1>1 DEF IInv, ManagerInv, Gone
<1>8. PlaceInv'
  <2>1. CASE at = "spawned"
    <3>1. helper'[op'.session] \in {"gated", "dead"} /\ op'.at = "spawned"
      BY <1>2, <2>1
    <3>. QED
      BY <1>1, <1>2, <3>1 DEF PlaceInv, RetiredMeansReleased, At
  <2>2. CASE at = "opening"
    <3>1. op'.at = "opening"
      BY <1>2, <2>2
    <3>. QED
      BY <1>1, <1>2, <3>1 DEF PlaceInv, RetiredMeansReleased, At
  <2>. QED
    BY <2>1, <2>2
<1>9. CallInv' /\ ResultInv'
  BY <1>1, <1>2, QuietKeeps
<1>10. NoInterleaving'
  BY <1>2 DEF NoInterleaving, At
<1>11. NoLostHelper'
  BY <1>1, <1>2 DEF IInv, NoLostHelper, Alive, Hung
<1>. QED
  BY <1>3, <1>6, <1>7, <1>8, <1>9, <1>10, <1>11 DEF IInv

LEMMA SpawnKeeps == IInv /\ Spawn => IInv'
<1>. SUFFICES ASSUME IInv, Spawn PROVE IInv'
  OBVIOUS
<1>1. /\ up /\ op.at = "claimed" /\ helper' = [helper EXCEPT ![op.session] = "gated"]
      /\ Goto("spawned")
      /\ UNCHANGED <<up, generation, opened, owner, seen, poisoned, bound, active, timer, fired,
                     waiting, closer, line, shut, faults>>
  BY DEF Spawn, At, rest, mcp, manager, queued, calls
<1>2. helper[op.session] = "none" /\ op.session \in Sessions
  BY <1>1 DEF IInv, PlaceInv, OpTyped, OpRecords, Sessions
<1>3. /\ helper' \in [Sessions -> HelperStates] /\ helper'[op.session] = "gated"
      /\ \A m \in Sessions : m # op.session => helper'[m] = helper[m]
  BY <1>1, <1>2 DEF IInv, HelperTyped, HelperStates
<1>. QED
  BY <1>1, <1>2, <1>3, StartsKeeps

LEMMA ActivateKeeps == IInv /\ Activate => IInv'
<1>. SUFFICES ASSUME IInv, Activate PROVE IInv'
  OBVIOUS
<1>1. /\ up /\ op.at = "recorded" /\ Goto("opening")
      /\ helper' = [helper EXCEPT ![op.session] = IF @ = "gated" THEN "activated" ELSE @]
      /\ UNCHANGED <<up, generation, opened, owner, seen, poisoned, bound, active, timer, fired,
                     waiting, closer, line, shut, faults>>
  BY DEF Activate, At, rest, mcp, manager, queued, calls
<1>2. op.session \in Sessions /\ helper[op.session] \in {"gated", "dead"}
  BY <1>1 DEF IInv, PlaceInv, OpTyped, OpRecords, Sessions
<1>3. /\ helper' \in [Sessions -> HelperStates]
      /\ helper[op.session] = "dead" => helper'[op.session] = "dead"
      /\ \A m \in Sessions : m # op.session => helper'[m] = helper[m]
  BY <1>1, <1>2 DEF IInv, HelperTyped, HelperStates
<1>. QED
  BY <1>1, <1>2, <1>3, StartsKeeps

(* A startup that is given up closes its session, which never was active.  *)
LEMMA AbandonKeeps ==
  ASSUME IInv, op.at \in {"spawned", "opening"}, Continue("closing", op.session, "abandon"),
         UNCHANGED <<up, generation, opened, owner, helper, seen, bound, active, timer, fired,
                     waiting, shut>>,
         faults \subseteq faults', faults' \subseteq Faults \X Sessions,
         poisoned' \subseteq Sessions,
         closer' \in [Actors -> Closers], line' \in [Actors -> Lines],
         closer'["op"].session = op.session, closer'["op"].at # "none",
         closer'["shut"] = closer["shut"], line'["shut"] = line["shut"],
         line'["op"] = line["op"] \/ line'["op"].kind = "close"
  PROVE  IInv'
<1>1. /\ op.session \in 0 .. MaxSessions /\ op.session # 0 /\ op.tool # "foreign" /\ active = 0
      /\ op.tool \in Tools \cup {"none", "idle", "foreign"} /\ owner.token = op.session
      /\ op.tool = "configure" => generation < MaxGenerations
  BY DEF IInv, PlaceInv, OpTyped, OpRecords
<1>2. /\ op' \in OpRecords /\ op'.tool = op.tool /\ op'.at = "closing"
      /\ op'.session = op.session /\ op'.next = "abandon" /\ op'.issued = FALSE
  BY <1>1, WorkEffect DEF Continue
<1>3. PlaceInv'
  BY <1>1, <1>2 DEF PlaceInv, RetiredMeansReleased, At
<1>4. line'["op"].kind \notin Commands
  BY DEF IInv, CallInv, Commands
<1>5. CallInv'
  <2>1. \A a \in Actors : closer'[a].at # "none" => closer'[a].session # 0
    BY <1>1 DEF Actors, IInv, CallInv
  <2>. QED
    BY <1>2, <1>4, <2>1 DEF IInv, CallInv
<1>6. ResultInv' /\ NoInterleaving'
  BY <1>2 DEF ResultInv, WriteReported, NoInterleaving, At
<1>7. timer' \in {0, active} /\ fired' \subseteq Sessions /\ shut' \in {"open", "closing", "done"}
  BY DEF IInv, ManagerTyped
<1>. QED
  BY <1>2, <1>3, <1>5, <1>6, <1>7, OperationKeeps

LEMMA AbortEffect ==
  ASSUME IInv, op.session \in Sessions, AbortStartup(op.session), UNCHANGED line
  PROVE  /\ poisoned' \subseteq Sessions /\ Continue("closing", op.session, "abandon")
         /\ closer' \in [Actors -> Closers] /\ line' \in [Actors -> Lines]
         /\ closer'["op"].session = op.session /\ closer'["op"].at # "none"
         /\ closer'["shut"] = closer["shut"] /\ line'["shut"] = line["shut"]
         /\ line'["op"] = line["op"]
<1>1. /\ poisoned' = poisoned \cup {op.session} /\ Continue("closing", op.session, "abandon")
      /\ Calls("op", op.session, "waiting", TRUE)
  BY DEF AbortStartup, Await
<1>2. /\ closer' \in [Actors -> Closers]
      /\ closer'["op"].session = op.session /\ closer'["op"].at # "none"
      /\ \A b \in Actors \ {"op"} : closer'[b] = closer[b]
  BY <1>1, AwaitEffect DEF Actors, IInv
<1>. QED
  BY <1>1, <1>2 DEF IInv, HelperTyped, OpTyped, Actors

LEMMA RecordHelperKeeps == IInv /\ RecordHelper => IInv'
<1>. SUFFICES ASSUME IInv, RecordHelper PROVE IInv'
  OBVIOUS
<1>1. /\ up /\ op.at = "spawned"
      /\ UNCHANGED <<up, generation, opened, helper, seen, bound, active, timer, fired, waiting,
                     line, shut>>
  BY DEF RecordHelper, At, mcp, manager, queued
<1>2. /\ op.session \in Sessions /\ op \in OpRecords /\ op.tool # "foreign" /\ active = 0
      /\ owner.token = op.session /\ owner \in OwnerRecords /\ op.session # 0
      /\ helper[op.session] \in {"gated", "dead"}
      /\ op.tool = "configure" => generation < MaxGenerations
      /\ closer["op"].at = "none" /\ op.issued = FALSE
  BY <1>1 DEF IInv, PlaceInv, OpTyped, OpRecords, Sessions, HelperTyped, CallInv, ResultInv,
              Closers, Actors
<1>3. CASE /\ owner' = [owner EXCEPT !.recorded = TRUE] /\ Goto("recorded")
           /\ UNCHANGED <<poisoned, closer, faults>>
  <2>1. PICK yes \in BOOLEAN : yes = TRUE
    OBVIOUS
  <2>2. owner' = [owner EXCEPT !.recorded = yes]
    BY <1>3, <2>1
  <2>3. owner' \in OwnerRecords /\ owner'.token = owner.token /\ owner'.recorded = yes
    BY <1>2, <2>2 DEF OwnerRecords
  <2>4. owner'.recorded
    BY <2>1, <2>3
  <2>5. /\ op' \in OpRecords /\ op'.tool = op.tool /\ op'.at = "recorded"
        /\ op'.session = op.session /\ op'.next = op.next /\ op'.issued = op.issued
    BY <1>2, <1>3, GotoEffect
  <2>6. op'.issued = FALSE
    BY <1>2, <2>5, Zenon
  <2>7. ManagerTyped' /\ OpTyped' /\ HelperTyped'
    BY <1>1, <1>3, <2>3, <2>5 DEF IInv, ManagerTyped, OpTyped, HelperTyped
  <2>8. \A m \in Sessions : helper[m] \notin {"activated", "connected"}
    <3>1. SUFFICES ASSUME NEW m \in Sessions, helper[m] \in {"activated", "connected"} PROVE FALSE
      OBVIOUS
    <3>2. m = op.session
      BY <1>2, <3>1, ActiveIsOwner
    <3>. QED
      BY <1>2, <3>1, <3>2
  <2>9. HelperInv'
    BY <1>1, <2>3, <2>8 DEF IInv, HelperInv, OwnerCoversHelper
  <2>10. ManagerInv'
    BY <1>1, <1>2, <2>3 DEF IInv, ManagerInv, Gone
  <2>11. PlaceInv'
    BY <1>1, <1>2, <2>3, <2>4, <2>5 DEF PlaceInv, RetiredMeansReleased, At
  <2>12. CallInv' /\ ResultInv'
    BY <1>1, <1>2, <1>3, <2>5, <2>6, QuietKeeps
  <2>13. NoInterleaving' /\ NoLostHelper'
    BY <1>1, <1>3, <2>5 DEF IInv, NoInterleaving, NoLostHelper, Alive, Hung, At
  <2>. QED
    BY <2>7, <2>9, <2>10, <2>11, <2>12, <2>13 DEF IInv
<1>4. CASE Fault("update", op.session) /\ AbortStartup(op.session) /\ UNCHANGED owner
  <2>1. faults \subseteq faults' /\ faults' \subseteq Faults \X Sessions
    BY <1>2, <1>4 DEF Fault, IInv, HelperTyped
  <2>. QED
    BY <1>1, <1>2, <1>4, <2>1, AbortEffect, AbandonKeeps
<1>. QED
  BY <1>3, <1>4 DEF RecordHelper

LEMMA StartupFailsKeeps == IInv /\ StartupFails => IInv'
<1>. SUFFICES ASSUME IInv, StartupFails PROVE IInv'
  OBVIOUS
<1>1. /\ op.at = "opening" /\ AbortStartup(op.session)
      /\ UNCHANGED <<up, generation, opened, owner, helper, seen, bound, active, timer, fired,
                     waiting, line, shut, faults>>
  BY DEF StartupFails, At, rest, mcp, manager, queued
<1>2. op.session \in Sessions /\ faults \subseteq faults' /\ faults' \subseteq Faults \X Sessions
  BY <1>1 DEF IInv, PlaceInv, OpTyped, OpRecords, Sessions, HelperTyped
<1>. QED
  BY <1>1, <1>2, AbortEffect, AbandonKeeps

LEMMA OpenedKeeps == IInv /\ Opened => IInv'
<1>. SUFFICES ASSUME IInv, Opened PROVE IInv'
  OBVIOUS
<1>1. /\ op.at = "opening" /\ up
      /\ UNCHANGED <<up, generation, opened, owner, helper, seen, bound, fired, waiting, shut>>
  BY DEF Opened, At, Yields, mcp, queued
<1>2. /\ op.session \in Sessions /\ op.session \in 0 .. MaxSessions /\ op \in OpRecords
      /\ op.tool # "foreign" /\ active = 0 /\ owner.token = op.session /\ op.session # 0
      /\ op.tool = "configure" => generation < MaxGenerations
      /\ closer["op"].at = "none" /\ op.issued = FALSE
  BY <1>1 DEF IInv, PlaceInv, OpTyped, OpRecords, Sessions, CallInv, ResultInv, Closers, Actors
<1>3. CASE /\ active' = op.session /\ ScheduleIdle(op.session) /\ Goto("ready")
           /\ UNCHANGED <<poisoned, closer, line, faults>>
  <2>1. timer' = op.session
    BY <1>3 DEF ScheduleIdle
  <2>2. /\ op' \in OpRecords /\ op'.tool = op.tool /\ op'.at = "ready"
        /\ op'.session = op.session /\ op'.next = op.next /\ op'.issued = op.issued
    BY <1>2, <1>3, GotoEffect
  <2>3. op'.issued = FALSE
    BY <1>2, <2>2, Zenon
  <2>4. ManagerTyped' /\ OpTyped' /\ HelperTyped'
    BY <1>1, <1>2, <1>3, <2>1, <2>2 DEF IInv, ManagerTyped, OpTyped, HelperTyped
  <2>5. HelperInv' /\ ManagerInv'
    BY <1>1, <1>2, <1>3 DEF IInv, HelperInv, OwnerCoversHelper, ManagerInv, Gone
  <2>6. PlaceInv'
    BY <1>1, <1>2, <1>3, <2>2 DEF PlaceInv, RetiredMeansReleased, At
  <2>7. CallInv' /\ ResultInv'
    BY <1>1, <1>2, <1>3, <2>2, <2>3, QuietKeeps
  <2>8. NoInterleaving'
    BY <2>2 DEF NoInterleaving, At
  <2>9. NoLostHelper'
    <3>1. \A m \in Sessions : active # m
      BY <1>2 DEF Sessions
    <3>. QED
      BY <1>1, <1>3, <3>1 DEF IInv, NoLostHelper, Alive, Hung
  <2>. QED
    BY <2>4, <2>5, <2>6, <2>7, <2>8, <2>9 DEF IInv
<1>4. CASE /\ Fault("update", op.session) /\ CloseSession("op", op.session)
           /\ Continue("closing", op.session, "abandon") /\ UNCHANGED <<active, timer>>
  <2>1. faults \subseteq faults' /\ faults' \subseteq Faults \X Sessions
    BY <1>2, <1>4 DEF Fault, IInv, HelperTyped
  <2>2. /\ closer' \in [Actors -> Closers] /\ line' \in [Actors -> Lines]
        /\ poisoned' \subseteq Sessions
        /\ closer'["op"].session = op.session /\ closer'["op"].at # "none"
        /\ line'["op"] = line["op"] \/ line'["op"].kind = "close"
        /\ closer'["shut"] = closer["shut"] /\ line'["shut"] = line["shut"]
    BY <1>2, <1>4, CloseEffect DEF IInv, Actors
  <2>. QED
    BY <1>1, <1>4, <2>1, <2>2, AbandonKeeps
<1>. QED
  BY <1>3, <1>4 DEF Opened, calls, manager

-----------------------------------------------------------------------------
(* Commands.  An operation that works on a session moves on, its calls and *)
(* results accounted for; the session keeps its place.                     *)
LEMMA WorksKeeps ==
  ASSUME IInv, op.at \in {"ready", "asking", "failing", "observing", "observed"},
         UNCHANGED <<up, generation, opened, shut, faults, owner, helper, seen, bound, active,
                     timer, fired, waiting, closer>>,
         poisoned' \subseteq Sessions, line' \in [Actors -> Lines],
         line'["shut"] = line["shut"],
         op' \in OpRecords, op'.tool = op.tool, op'.session = op.session,
         op'.at \in {"ready", "asking", "failing", "observing", "observed"},
         op'.at \in {"observing", "observed"} => op'.next = "using",
         line'["op"].kind \in Commands => op'.at = "asking" /\ line'["op"].kind = op'.command,
         ResultInv'
  PROVE  IInv'
<1>1. closer["op"].at = "none"
  BY DEF IInv, CallInv, OpTyped, Closers, Actors
<1>2. CallInv'
  BY <1>1 DEF IInv, CallInv
<1>3. PlaceInv'
  BY DEF IInv, PlaceInv, RetiredMeansReleased, At, Gone
<1>4. NoInterleaving'
  BY DEF NoInterleaving, At
<1>5. /\ timer' \in {0, active} /\ fired' \subseteq Sessions /\ faults' \subseteq Faults \X Sessions
      /\ shut' \in {"open", "closing", "done"} /\ closer' \in [Actors -> Closers]
  BY DEF IInv, ManagerTyped, OpTyped, HelperTyped
<1>. QED
  BY <1>2, <1>3, <1>4, <1>5, OperationKeeps

LEMMA SessionInHand ==
  ASSUME IInv, op.at \in {"ready", "asking", "failing", "observing", "observed"}
  PROVE  /\ op.session \in Sessions /\ op \in OpRecords /\ op.session # 0
         /\ op.session = active \/ Gone(op.session)
         /\ active \in {0, op.session}
         /\ poisoned \subseteq Sessions /\ line \in [Actors -> Lines]
         /\ closer["op"].at = "none"
         /\ op.at # "asking" => line["op"].kind \notin Commands
  BY DEF IInv, PlaceInv, ManagerInv, OpTyped, OpRecords, Sessions, HelperTyped, CallInv,
         Closers, Actors

LEMMA CommandKeeps ==
  ASSUME IInv, NEW command \in {"write", "reset"}, Command(command) PROVE IInv'
<1>1. /\ op.at = "ready"
      /\ UNCHANGED <<up, generation, opened, shut, faults, owner, helper, seen, bound, active,
                     timer, fired, waiting, closer>>
  BY DEF Command, At, rest, mcp, manager, queued
<1>2. PICK no \in BOOLEAN : no = FALSE
  OBVIOUS
<1>3. ASSUME NEW at \in {"asking", "failing"},
             op' = [op EXCEPT !.at = at, !.command = command, !.issued = FALSE,
                              !.reported = FALSE]
      PROVE  /\ op' \in OpRecords /\ op'.tool = op.tool /\ op'.session = op.session
             /\ op'.at = at /\ op'.command = command /\ op'.issued = FALSE
  <2>1. op \in OpRecords /\ command \in Commands
    BY <1>1, SessionInHand DEF Commands
  <2>2. PICK a : a = [op EXCEPT !.at = at]
    OBVIOUS
  <2>3. a \in OpRecords /\ a.tool = op.tool /\ a.session = op.session /\ a.at = at
    BY <2>1, <2>2 DEF OpRecords
  <2>4. PICK b : b = [a EXCEPT !.command = command]
    OBVIOUS
  <2>5. /\ b \in OpRecords /\ b.tool = op.tool /\ b.session = op.session /\ b.at = at
        /\ b.command = command
    BY <2>1, <2>3, <2>4 DEF OpRecords
  <2>6. PICK c : c = [b EXCEPT !.issued = no]
    OBVIOUS
  <2>7. /\ c \in OpRecords /\ c.tool = op.tool /\ c.session = op.session /\ c.at = at
        /\ c.command = command /\ c.issued = no
    BY <2>5, <2>6 DEF OpRecords
  <2>8. op' = [c EXCEPT !.reported = no]
    <3>1. op' = [op EXCEPT !.at = at, !.command = command, !.issued = no, !.reported = no]
      BY <1>2, <1>3, Zenon
    <3>. QED
      BY <2>2, <2>4, <2>6, <3>1, Zenon
  <2>9. /\ op' \in OpRecords /\ op'.tool = op.tool /\ op'.session = op.session
        /\ op'.at = at /\ op'.command = command /\ op'.issued = no
    BY <2>7, <2>8 DEF OpRecords
  <2>. QED
    BY <1>2, <2>9
<1>4. CASE /\ Send("op", op.session, command) /\ UNCHANGED poisoned
           /\ op' = [op EXCEPT !.at = "asking", !.command = command, !.issued = FALSE,
                               !.reported = FALSE]
  <2>1. /\ line' \in [Actors -> Lines] /\ line'["op"].kind = command
        /\ line'["shut"] = line["shut"]
    BY <1>1, <1>4, SessionInHand, SendEffect DEF IInv, Actors, Commands
  <2>2. /\ op' \in OpRecords /\ op'.tool = op.tool /\ op'.session = op.session
        /\ op'.at = "asking" /\ op'.command = command /\ op'.issued = FALSE
    BY <1>3, <1>4
  <2>3. ResultInv'
    BY <2>1, <2>2 DEF ResultInv, WriteReported, Commands
  <2>. QED
    BY <1>1, <1>4, <2>1, <2>2, <2>3, SessionInHand, WorksKeeps
<1>5. CASE /\ poisoned' \in {poisoned, poisoned \cup {op.session}} /\ UNCHANGED line
           /\ op' = [op EXCEPT !.at = "failing", !.command = command, !.issued = FALSE,
                               !.reported = FALSE]
  <2>1. /\ op' \in OpRecords /\ op'.tool = op.tool /\ op'.session = op.session
        /\ op'.at = "failing" /\ op'.command = command /\ op'.issued = FALSE
    BY <1>3, <1>5
  <2>2. ResultInv'
    BY <2>1 DEF ResultInv, WriteReported
  <2>3. /\ poisoned' \subseteq Sessions /\ line' \in [Actors -> Lines]
        /\ line'["op"].kind \notin Commands /\ line'["shut"] = line["shut"]
    BY <1>1, <1>5, SessionInHand
  <2>. QED
    BY <1>1, <2>1, <2>2, <2>3, WorksKeeps
<1>. QED
  BY <1>4, <1>5 DEF Command

LEMMA CommandEndsKeeps == IInv /\ CommandEnds => IInv'
<1>. SUFFICES ASSUME IInv, CommandEnds PROVE IInv'
  OBVIOUS
<1>1. /\ op.at = "asking"
      /\ UNCHANGED <<up, generation, opened, shut, faults, owner, helper, seen, bound, active,
                     timer, fired, waiting, closer>>
  BY DEF CommandEnds, At, rest, mcp, manager, queued
<1>2. /\ op \in OpRecords /\ op.session \in Sessions /\ poisoned \subseteq Sessions
      /\ line["op"].kind = op.command /\ op.command \in Commands
      /\ op.issued => op.command = "resume" \/ line["op"].reply \in {"ok", "failed"}
  BY <1>1, SessionInHand DEF IInv, ResultInv
<1>3. ASSUME NEW at \in {"ready", "failing"}, NEW reported \in BOOLEAN,
             op' = [op EXCEPT !.at = at, !.reported = reported]
      PROVE  /\ op' \in OpRecords /\ op'.tool = op.tool /\ op'.session = op.session
             /\ op'.at = at /\ op'.command = op.command /\ op'.issued = op.issued
             /\ op'.reported = reported
  <2>1. PICK a : a = [op EXCEPT !.at = at]
    OBVIOUS
  <2>2. /\ a \in OpRecords /\ a.tool = op.tool /\ a.session = op.session /\ a.at = at
        /\ a.command = op.command /\ a.issued = op.issued
    BY <1>2, <2>1 DEF OpRecords
  <2>3. op' = [a EXCEPT !.reported = reported]
    BY <1>3, <2>1, Zenon
  <2>. QED
    BY <2>2, <2>3 DEF OpRecords
<1>4. ASSUME Answered("op") \/ Rejected("op"), poisoned' \subseteq Sessions,
             NEW at \in {"ready", "failing"}, NEW reported \in BOOLEAN,
             op' = [op EXCEPT !.at = at, !.reported = reported],
             op.issued => reported \/ op.command = "resume"
      PROVE  IInv'
  <2>1. /\ line' \in [Actors -> Lines] /\ line'["op"].kind = "none"
        /\ line'["shut"] = line["shut"]
    BY <1>4, NoLineEffect DEF IInv, Actors
  <2>2. /\ op' \in OpRecords /\ op'.tool = op.tool /\ op'.session = op.session
        /\ op'.at = at /\ op'.command = op.command /\ op'.issued = op.issued
        /\ op'.reported = reported
    BY <1>3, <1>4
  <2>3. ResultInv'
    <3>1. op'.issued => op.issued
      BY <2>2, Zenon
    <3>2. reported => op'.reported
      BY <2>2, Zenon
    <3>. QED
      BY <1>4, <2>2, <3>1, <3>2 DEF ResultInv, WriteReported
  <2>4. line'["op"].kind \notin Commands
    BY <2>1 DEF Commands
  <2>. QED
    BY <1>1, <1>4, <2>1, <2>2, <2>3, <2>4, WorksKeeps
<1>5. PICK yes \in BOOLEAN : yes = TRUE
  OBVIOUS
<1>6. CASE /\ Answered("op") /\ UNCHANGED poisoned
           /\ op' = [op EXCEPT !.at = IF line["op"].reply = "ok" THEN "ready" ELSE "failing",
                               !.reported = TRUE]
  <2>1. PICK at \in {"ready", "failing"} :
          at = IF line["op"].reply = "ok" THEN "ready" ELSE "failing"
    OBVIOUS
  <2>2. op' = [op EXCEPT !.at = at, !.reported = yes]
    BY <1>5, <1>6, <2>1, Zenon
  <2>. QED
    BY <1>2, <1>4, <1>5, <1>6, <2>2
<1>7. CASE /\ line["op"].reply = "refused" /\ Answered("op") /\ UNCHANGED poisoned
           /\ op' = [op EXCEPT !.at = "failing", !.reported = op.command = "resume"]
  <2>1. PICK said \in BOOLEAN : said = (op.command = "resume")
    OBVIOUS
  <2>2. op' = [op EXCEPT !.at = "failing", !.reported = said]
    BY <1>7, <2>1, Zenon
  <2>3. op.issued => op.command = "resume"
    BY <1>2, <1>7
  <2>. QED
    BY <1>2, <1>4, <1>7, <2>2, <2>3
<1>8. CASE /\ Rejected("op") /\ PoisonUnlessClosed(op.session)
           /\ op' = [op EXCEPT !.at = "failing", !.reported = Dispatched]
  <2>1. op' = [op EXCEPT !.at = "failing", !.reported = yes]
    BY <1>5, <1>8, Zenon DEF Dispatched
  <2>2. poisoned' \subseteq Sessions
    BY <1>2, <1>8 DEF PoisonUnlessClosed
  <2>. QED
    BY <1>4, <1>5, <1>8, <2>1, <2>2
<1>9. CASE /\ Send("op", op.session, "resume") /\ UNCHANGED poisoned
           /\ op' = [op EXCEPT !.command = "resume"]
  <2>1. /\ op' \in OpRecords /\ op'.tool = op.tool /\ op'.session = op.session
        /\ op'.at = op.at /\ op'.command = "resume" /\ op'.issued = op.issued
    BY <1>2, <1>9 DEF OpRecords, Commands
  <2>2. /\ line' \in [Actors -> Lines] /\ line'["op"].kind = "resume"
        /\ line'["shut"] = line["shut"]
    BY <1>2, <1>9, SendEffect DEF IInv, Actors, Commands
  <2>3. ResultInv'
    BY <1>1, <2>1, <2>2 DEF ResultInv, WriteReported, Commands
  <2>. QED
    BY <1>1, <1>2, <1>9, <2>1, <2>2, <2>3, WorksKeeps
<1>10. CASE /\ Answered("op") /\ op' = [op EXCEPT !.at = "failing", !.command = "resume"]
            /\ poisoned' \in {poisoned, poisoned \cup {op.session}}
  <2>1. PICK a : a = [op EXCEPT !.at = "failing"]
    OBVIOUS
  <2>2. a \in OpRecords /\ a.tool = op.tool /\ a.session = op.session /\ a.at = "failing"
    BY <1>2, <2>1 DEF OpRecords
  <2>3. op' = [a EXCEPT !.command = "resume"]
    BY <1>10, <2>1, Zenon
  <2>4. /\ op' \in OpRecords /\ op'.tool = op.tool /\ op'.session = op.session
        /\ op'.at = "failing" /\ op'.command = "resume"
    BY <2>2, <2>3 DEF OpRecords, Commands
  <2>5. /\ line' \in [Actors -> Lines] /\ line'["op"].kind = "none"
        /\ line'["shut"] = line["shut"]
    BY <1>10, NoLineEffect DEF IInv, Actors
  <2>6. ResultInv' /\ line'["op"].kind \notin Commands
    BY <2>4, <2>5 DEF ResultInv, WriteReported, Commands
  <2>. QED
    BY <1>1, <1>2, <1>10, <2>4, <2>5, <2>6, WorksKeeps
<1>. QED
  BY <1>6, <1>7, <1>8, <1>9, <1>10 DEF CommandEnds, ResumeAfterReset

LEMMA StateObservedKeeps == IInv /\ StateObserved => IInv'
<1>. SUFFICES ASSUME IInv, StateObserved PROVE IInv'
  OBVIOUS
<1>1. /\ op.at = "observing" /\ Goto("observed")
      /\ Answered("op") \/ Rejected("op")
  BY DEF StateObserved, At
<1>2. UNCHANGED <<up, generation, opened, shut, faults, owner, helper, seen, bound, active,
                  timer, fired, waiting, closer>>
  BY DEF StateObserved, rest, mcp, manager, queued
<1>3. op \in OpRecords /\ op.session \in Sessions /\ poisoned \subseteq Sessions
  BY <1>1, SessionInHand
<1>4. /\ op' \in OpRecords /\ op'.tool = op.tool /\ op'.session = op.session
      /\ op'.at = "observed" /\ op'.issued = op.issued /\ op'.next = op.next
  BY <1>1, <1>3, GotoEffect
<1>5. /\ line' \in [Actors -> Lines] /\ line'["op"].kind = "none"
      /\ line'["shut"] = line["shut"]
  BY <1>1, NoLineEffect DEF IInv, Actors
<1>6. poisoned' \subseteq Sessions
  BY <1>3 DEF StateObserved, PoisonUnlessClosed
<1>7. ResultInv' /\ line'["op"].kind \notin Commands
  <2>1. op'.issued => op.issued
    BY <1>4, Zenon
  <2>. QED
    BY <1>1, <1>4, <1>5, <2>1 DEF IInv, ResultInv, WriteReported, Commands
<1>8. op'.next = "using"
  BY <1>1, <1>4 DEF IInv, PlaceInv
<1>. QED
  BY <1>1, <1>2, <1>4, <1>5, <1>6, <1>7, <1>8, WorksKeeps

(* An operation ends: its session is still the manager's, or is of no more *)
(* interest.                                                               *)
LEMMA EndsKeeps ==
  ASSUME IInv, op' = NoOp, op.at # "asking",
         UNCHANGED <<up, generation, opened, shut, owner, helper, seen, bound, active, timer,
                     fired, waiting, line>>,
         faults \subseteq faults', faults' \subseteq Faults \X Sessions,
         poisoned' \subseteq Sessions, closer' \in [Actors -> Closers],
         closer'["op"].at = "none", closer'["shut"] = closer["shut"],
         \A n \in Sessions : op.session = n /\ Alive(n) /\ op.at # "using" =>
           active = n \/ <<"hang", n>> \in faults'
  PROVE  IInv'
<1>1. line["op"].kind \notin Commands
  BY DEF IInv, CallInv
<1>2. CallInv'
  BY <1>1 DEF IInv, CallInv, Actors
<1>3. PlaceInv' /\ ResultInv' /\ NoInterleaving'
  BY IdleEffect
     DEF PlaceInv, RetiredMeansReleased, ResultInv, WriteReported, NoInterleaving, At
<1>4. /\ timer' \in {0, active} /\ fired' \subseteq Sessions
      /\ shut' \in {"open", "closing", "done"} /\ line' \in [Actors -> Lines]
  BY DEF IInv, ManagerTyped, OpTyped
<1>. QED
  BY <1>2, <1>3, <1>4, IdleEffect, OperationKeeps

LEMMA FinishKeeps == IInv /\ Finish => IInv'
<1>. SUFFICES ASSUME IInv, Finish PROVE IInv'
  OBVIOUS
<1>1. /\ op.at \in {"ready", "using", "retired"} /\ op' = NoOp
      /\ generation' = generation \/ (op.tool = "configure" /\ generation' = generation + 1)
      /\ UNCHANGED <<up, opened, owner, helper, seen, poisoned, bound, active, timer, fired,
                     waiting, closer, line, shut, faults>>
  BY DEF Finish, process, manager, queued, calls
<1>2. generation' \in 1 .. MaxGenerations
  BY <1>1, SessionBoundsOK DEF IInv, ManagerTyped, PlaceInv
<1>3. ManagerTyped' /\ OpTyped' /\ HelperTyped'
  BY <1>1, <1>2, IdleEffect DEF IInv, ManagerTyped, OpTyped, HelperTyped
<1>4. HelperInv' /\ ManagerInv'
  BY <1>1 DEF IInv, HelperInv, OwnerCoversHelper, ManagerInv, Gone
<1>5. PlaceInv' /\ ResultInv' /\ NoInterleaving'
  BY <1>1, IdleEffect
     DEF PlaceInv, RetiredMeansReleased, ResultInv, WriteReported, NoInterleaving, At
<1>6. CallInv'
  BY <1>1 DEF IInv, CallInv
<1>7. NoLostHelper'
  <2>1. \A n \in Sessions : op.session = n /\ op.at # "using" /\ Alive(n) => active = n
    BY <1>1 DEF IInv, PlaceInv, Gone, Alive, Sessions
  <2>. QED
    BY <1>1, <2>1 DEF IInv, NoLostHelper, Alive, Hung
<1>. QED
  BY <1>3, <1>4, <1>5, <1>6, <1>7 DEF IInv

(* The session an operation has in hand, still the active one, is closed.  *)
LEMMA HandClosesKeeps ==
  ASSUME IInv, op.at \in {"failing", "observed"}, active # 0, CloseSession("op", active),
         timer' = 0, op' \in OpRecords, op'.tool = op.tool, op'.at = "closing",
         op'.session = active, op'.next \in {"using", "retired"}, op'.issued = FALSE,
         UNCHANGED <<up, generation, opened, shut, faults, owner, helper, seen, bound, active,
                     fired, waiting>>
  PROVE  IInv'
<1>1. active \in Sessions /\ active = op.session /\ closer["op"].at = "none"
  BY SessionInHand DEF IInv, ManagerTyped, Sessions
<1>2. /\ closer' \in [Actors -> Closers] /\ line' \in [Actors -> Lines]
      /\ poisoned' \subseteq Sessions
      /\ closer'["op"].session = active /\ closer'["op"].at # "none"
      /\ line'["op"] = line["op"] \/ line'["op"].kind = "close"
      /\ closer'["shut"] = closer["shut"] /\ line'["shut"] = line["shut"]
  BY <1>1, CloseEffect DEF IInv, Actors
<1>3. PlaceInv'
  BY <1>1, <1>2 DEF IInv, PlaceInv, RetiredMeansReleased, At
<1>4. line'["op"].kind \notin Commands
  BY <1>2 DEF IInv, CallInv, Commands
<1>5. CallInv'
  <2>1. \A a \in Actors : closer'[a].at # "none" => closer'[a].session # 0
    BY <1>2 DEF Actors, IInv, CallInv
  <2>. QED
    BY <1>2, <1>4, <2>1 DEF IInv, CallInv
<1>6. ResultInv' /\ NoInterleaving'
  BY DEF ResultInv, WriteReported, NoInterleaving, At
<1>7. /\ timer' \in {0, active} /\ fired' \subseteq Sessions /\ faults' \subseteq Faults \X Sessions
      /\ shut' \in {"open", "closing", "done"}
  BY DEF IInv, ManagerTyped, HelperTyped
<1>8. \A n \in Sessions : op.session = n => active = n
  BY <1>1
<1>. QED
  BY <1>2, <1>3, <1>5, <1>6, <1>7, <1>8, OperationKeeps

LEMMA RetireKeeps == IInv /\ Retire => IInv'
<1>. SUFFICES ASSUME IInv, Retire PROVE IInv'
  OBVIOUS
<1>1. /\ op.at = "failing"
      /\ UNCHANGED <<up, generation, opened, shut, faults, owner, helper, seen, bound, active,
                     fired, waiting>>
  BY DEF Retire, At, rest, mcp, queued
<1>2. /\ op.session \in Sessions /\ op \in OpRecords /\ op.session # 0
      /\ op.session = active \/ Gone(op.session)
      /\ active \in {0, op.session}
      /\ poisoned \subseteq Sessions /\ line \in [Actors -> Lines]
      /\ closer["op"].at = "none" /\ line["op"].kind \notin Commands
  BY <1>1, SessionInHand
<1>3. /\ op.tool \in Tools \cup {"none", "idle", "foreign"} /\ op.tool # "foreign"
      /\ op.tool = "configure" => generation < MaxGenerations
      /\ 0 \in 0 .. MaxSessions /\ active \in 0 .. MaxSessions
  BY <1>1, <1>2, SessionBoundsOK DEF OpRecords, IInv, PlaceInv, ManagerTyped
<1>4. \A n \in Sessions : op.session = n /\ Alive(n) => active = n
  BY <1>2 DEF Gone, Alive
<1>5. /\ timer \in {0, active} /\ fired \subseteq Sessions /\ faults \subseteq Faults \X Sessions
      /\ shut \in {"open", "closing", "done"} /\ closer \in [Actors -> Closers]
  BY DEF IInv, ManagerTyped, HelperTyped, OpTyped
<1>6. CASE /\ active = 0 /\ Released(owner) /\ Continue("retired", 0, "none")
           /\ UNCHANGED <<poisoned, timer, closer, line>>
  <2>1. /\ op' \in OpRecords /\ op'.tool = op.tool /\ op'.at = "retired" /\ op'.session = 0
        /\ op'.next = "none" /\ op'.issued = FALSE
    BY <1>3, <1>6, WorkEffect DEF Continue
  <2>2. PlaceInv' /\ NoInterleaving'
    BY <1>1, <1>3, <1>6, <2>1 DEF PlaceInv, RetiredMeansReleased, Released, NoInterleaving, At
  <2>3. CallInv' /\ ResultInv'
    BY <1>1, <1>2, <1>6, <2>1, QuietKeeps
  <2>. QED
    BY <1>1, <1>2, <1>4, <1>5, <1>6, <2>1, <2>2, <2>3, OperationKeeps
<1>7. CASE op' = NoOp /\ UNCHANGED <<poisoned, timer, closer, line>>
  BY <1>1, <1>2, <1>4, <1>5, <1>7, EndsKeeps
<1>8. CASE /\ active # 0 /\ CloseSession("op", active) /\ timer' = 0
           /\ Continue("closing", active, "retired")
  <2>1. /\ op' \in OpRecords /\ op'.tool = op.tool /\ op'.at = "closing" /\ op'.session = active
        /\ op'.next = "retired" /\ op'.issued = FALSE
    BY <1>3, <1>8, WorkEffect DEF Continue
  <2>. QED
    BY <1>1, <1>8, <2>1, HandClosesKeeps
<1>9. CASE /\ active # 0 /\ Send("op", active, "state") /\ Continue("observing", active, "using")
           /\ UNCHANGED <<poisoned, timer, closer>>
  <2>1. /\ op' \in OpRecords /\ op'.tool = op.tool /\ op'.at = "observing"
        /\ op'.session = op.session /\ op'.next = "using" /\ op'.issued = FALSE
    BY <1>2, <1>3, <1>9, WorkEffect DEF Continue
  <2>2. /\ line' \in [Actors -> Lines] /\ line'["op"].kind = "state"
        /\ line'["shut"] = line["shut"]
    BY <1>2, <1>9, SendEffect DEF IInv, Actors
  <2>3. ResultInv' /\ line'["op"].kind \notin Commands
    BY <2>1, <2>2 DEF ResultInv, WriteReported, Commands
  <2>. QED
    BY <1>1, <1>2, <1>9, <2>1, <2>2, <2>3, WorksKeeps
<1>. QED
  BY <1>6, <1>7, <1>8, <1>9 DEF Retire, calls

LEMMA CloseObservedKeeps == IInv /\ CloseObserved => IInv'
<1>. SUFFICES ASSUME IInv, CloseObserved PROVE IInv'
  OBVIOUS
<1>1. /\ op.at = "observed"
      /\ UNCHANGED <<up, generation, opened, shut, faults, owner, helper, seen, bound, active,
                     fired, waiting>>
  BY DEF CloseObserved, At, rest, mcp, queued
<1>2. /\ op.session \in Sessions /\ op \in OpRecords /\ op.session # 0
      /\ op.session = active \/ Gone(op.session)
      /\ poisoned \subseteq Sessions /\ line \in [Actors -> Lines]
      /\ closer["op"].at = "none" /\ op.issued = FALSE /\ op.next = "using"
      /\ op.tool # "foreign"
      /\ op.tool = "configure" => generation < MaxGenerations
      /\ owner.token \in {0, op.session}
  BY <1>1, SessionInHand DEF IInv, ResultInv, PlaceInv, OpRecords
<1>3. CASE active # op.session
  <2>1. Goto("using") /\ UNCHANGED <<poisoned, timer, closer, line>>
    BY <1>3 DEF CloseObserved, calls
  <2>2. /\ op' \in OpRecords /\ op'.tool = op.tool /\ op'.at = "using"
        /\ op'.session = op.session /\ op'.issued = op.issued
    BY <1>2, <2>1, GotoEffect
  <2>3. op'.issued = FALSE
    BY <1>2, <2>2, Zenon
  <2>4. \A m \in Sessions : helper[m] \notin {"activated", "connected"}
    BY <1>2, <1>3, ActiveIsOwner
  <2>5. PlaceInv' /\ NoInterleaving'
    BY <1>1, <1>2, <2>2, <2>4 DEF PlaceInv, RetiredMeansReleased, NoInterleaving, At
  <2>6. CallInv' /\ ResultInv'
    BY <1>1, <1>2, <2>1, <2>2, <2>3, QuietKeeps
  <2>7. \A n \in Sessions : op.session = n => ~Alive(n)
    BY <1>2, <1>3 DEF Gone, Alive
  <2>8. /\ timer \in {0, active} /\ fired \subseteq Sessions /\ faults \subseteq Faults \X Sessions
        /\ shut \in {"open", "closing", "done"} /\ closer \in [Actors -> Closers]
    BY DEF IInv, ManagerTyped, HelperTyped, OpTyped
  <2>. QED
    BY <1>1, <1>2, <2>1, <2>2, <2>5, <2>6, <2>7, <2>8, OperationKeeps
<1>4. CASE active = op.session
  <2>1. CloseSession("op", active) /\ timer' = 0 /\ Goto("closing")
    BY <1>4 DEF CloseObserved
  <2>2. /\ op' \in OpRecords /\ op'.tool = op.tool /\ op'.at = "closing"
        /\ op'.session = op.session /\ op'.next = op.next /\ op'.issued = op.issued
    BY <1>2, <2>1, GotoEffect
  <2>3. op'.issued = FALSE
    BY <1>2, <2>2, Zenon
  <2>. QED
    BY <1>1, <1>2, <1>4, <2>1, <2>2, <2>3, HandClosesKeeps
<1>. QED
  BY <1>3, <1>4

-----------------------------------------------------------------------------
(* The close an operation awaits has ended: its helper has exited, so the  *)
(* owner record, if it is given back, is that of a helper that is gone.    *)
LEMMA AfterCloseKeeps ==
  ASSUME IInv, op.at = "closing", Gone(op.session),
         owner' \in {owner, NoOwner}, owner' \in OwnerRecords,
         owner' # owner => owner.token = op.session /\ active' = 0,
         active' = active \/ (active = op.session /\ active' = 0),
         timer' \in {0, active'}, faults \subseteq faults', faults' \subseteq Faults \X Sessions,
         op' \in OpRecords, op'.issued = FALSE, op'.session \in {0, op.session},
         op'.at \in {"none", "claim", "using", "retired"}, op'.tool \in {"none", op.tool},
         op'.at = "claim" => op.next = "claim", op'.at = "retired" => owner' = NoOwner,
         Closed("op"),
         UNCHANGED <<up, generation, opened, helper, seen, poisoned, bound, fired, waiting, line,
                     shut>>
  PROVE  IInv'
<1>1. /\ op.session \in Sessions /\ op.session # 0 /\ op.tool # "foreign"
      /\ owner.token \in {0, op.session} /\ line["op"].kind \notin Commands
      /\ op.next = "claim" => opened < MaxSessions
      /\ op.tool = "configure" => generation < MaxGenerations
  BY DEF IInv, PlaceInv, OpTyped, OpRecords, Sessions, CallInv
<1>2. NoOwner.token = 0 /\ opened >= 0
  BY DEF NoOwner, IInv, ManagerTyped
<1>3. /\ closer' \in [Actors -> Closers] /\ closer'["op"].at = "none"
      /\ closer'["shut"] = closer["shut"]
  BY ClosedEffect DEF IInv, Actors
<1>4. \A m \in Sessions : helper[m] \notin {"activated", "connected"}
  BY <1>1, ActiveIsOwner
<1>5. ManagerTyped' /\ OpTyped' /\ HelperTyped'
  <2>1. active' \in 0 .. MaxSessions
    BY SessionBoundsOK DEF IInv, ManagerTyped
  <2>. QED
    BY <1>3, <2>1 DEF IInv, ManagerTyped, OpTyped, HelperTyped
<1>6. HelperInv'
  BY <1>2, <1>4 DEF IInv, HelperInv, OwnerCoversHelper
<1>7. ManagerInv'
  BY DEF IInv, ManagerInv, Gone
<1>8. PlaceInv'
  BY <1>1, <1>2 DEF PlaceInv, RetiredMeansReleased, At, Gone, Tools
<1>9. CallInv'
  BY <1>1, <1>3 DEF IInv, CallInv, Actors
<1>10. ResultInv' /\ NoInterleaving'
  BY <1>4 DEF ResultInv, WriteReported, NoInterleaving, At
<1>11. NoLostHelper'
  <2>1. ~Alive(op.session)
    BY DEF Gone, Alive
  <2>. QED
    BY <2>1 DEF IInv, NoLostHelper, Alive, Hung
<1>. QED
  BY <1>5, <1>6, <1>7, <1>8, <1>9, <1>10, <1>11 DEF IInv

LEMMA ClosedForOperationKeeps == IInv /\ ClosedForOperation => IInv'
<1>. SUFFICES ASSUME IInv, ClosedForOperation PROVE IInv'
  OBVIOUS
<1>1. /\ op.at = "closing" /\ ExitConfirmed("op") /\ Closed("op")
      /\ UNCHANGED <<up, generation, opened, helper, seen, poisoned, bound, fired, waiting, line,
                     shut>>
  BY DEF ClosedForOperation, At, mcp, process, queued
<1>2. /\ op.session \in Sessions /\ closer["op"].session = op.session /\ op \in OpRecords
      /\ op.next = "abandon" => active = 0
  BY <1>1 DEF IInv, PlaceInv, OpTyped, OpRecords, Sessions
<1>3. Gone(op.session)
  BY <1>1, <1>2 DEF ExitConfirmed, IsAlive, IInv, HelperInv, Gone
<1>4. /\ op.session # 0 /\ owner \in OwnerRecords /\ timer \in {0, active}
      /\ faults \subseteq Faults \X Sessions
  BY <1>2 DEF Sessions, IInv, HelperTyped, ManagerTyped
<1>5. CASE op.next = "abandon"
  <2>1. ReleaseOwner(op.session) /\ op' = NoOp /\ UNCHANGED <<active, timer>>
    BY <1>5 DEF ClosedForOperation, manager
  <2>2. /\ owner' \in {owner, NoOwner} /\ owner' \in OwnerRecords
        /\ owner' # owner => owner.token = op.session
        /\ faults \subseteq faults' /\ faults' \subseteq Faults \X Sessions
    BY <1>2, <2>1, ReleaseEffect DEF IInv
  <2>. QED
    BY <1>1, <1>2, <1>3, <1>4, <1>5, <2>1, <2>2, IdleEffect, AfterCloseKeeps
<1>6. CASE op.next # "abandon" /\ closer["op"].failed
  <2>1. op' = NoOp /\ UNCHANGED <<owner, active, timer, faults>>
    BY <1>6 DEF ClosedForOperation, manager
  <2>. QED
    BY <1>1, <1>3, <1>4, <2>1, IdleEffect, AfterCloseKeeps
<1>7. CASE op.next # "abandon" /\ ~closer["op"].failed
  <2>1. /\ FinalizeExited(op.session)
        /\ IF op.next = "none" \/ (op.next = "retired" /\ ~Released(owner'))
           THEN op' = NoOp ELSE Goto(op.next)
    BY <1>7 DEF ClosedForOperation
  <2>2. /\ owner' \in {owner, NoOwner} /\ owner' \in OwnerRecords
        /\ owner' # owner => owner.token = op.session
        /\ active' = IF active = op.session THEN 0 ELSE active
        /\ timer' \in {0, active'}
        /\ faults \subseteq faults' /\ faults' \subseteq Faults \X Sessions
    BY <1>2, <2>1, FinalizeEffect DEF IInv
  <2>3. owner' # owner => active' = 0
    BY <2>1, <2>2 DEF FinalizeExited
  <2>4. CASE op' = NoOp
    BY <1>1, <1>3, <2>2, <2>3, <2>4, IdleEffect, AfterCloseKeeps
  <2>5. CASE /\ op.next \in {"claim", "using", "retired"} /\ Goto(op.next)
             /\ op.next = "retired" => owner' = NoOwner
    <3>1. /\ op' \in OpRecords /\ op'.tool = op.tool /\ op'.at = op.next
          /\ op'.session = op.session /\ op'.issued = op.issued
      BY <1>2, <2>5, GotoEffect
    <3>2. op.issued = FALSE
      BY <1>1, <1>2 DEF IInv, ResultInv, OpRecords
    <3>3. op'.issued = FALSE
      BY <3>1, <3>2, Zenon
    <3>. QED
      BY <1>1, <1>3, <2>2, <2>3, <2>5, <3>1, <3>3, AfterCloseKeeps
  <2>. QED
    BY <1>2, <1>7, <2>1, <2>4, <2>5 DEF OpRecords, Released
<1>. QED
  BY <1>5, <1>6, <1>7

LEMMA NotClosedForOperationKeeps == IInv /\ NotClosedForOperation => IInv'
<1>. SUFFICES ASSUME IInv, NotClosedForOperation PROVE IInv'
  OBVIOUS
<1>1. /\ op.at = "closing" /\ op' = NoOp /\ Hung(closer["op"].session) /\ Closed("op")
      /\ UNCHANGED <<up, generation, opened, shut, faults, owner, helper, seen, poisoned, bound,
                     active, timer, fired, waiting, line>>
  BY DEF NotClosedForOperation, At, ExitUnconfirmed, rest, mcp, process, manager, queued
<1>2. closer["op"].session = op.session
  BY <1>1 DEF IInv, PlaceInv
<1>3. /\ closer' \in [Actors -> Closers] /\ closer'["op"].at = "none"
      /\ closer'["shut"] = closer["shut"]
  BY <1>1, ClosedEffect DEF IInv, Actors
<1>4. <<"hang", op.session>> \in faults
  BY <1>1, <1>2 DEF Hung
<1>5. poisoned \subseteq Sessions /\ faults \subseteq Faults \X Sessions
  BY DEF IInv, HelperTyped
<1>. QED
  BY <1>1, <1>3, <1>4, <1>5, EndsKeeps

-----------------------------------------------------------------------------
(* The shutdown, the end of the MCP process, and the other processes.      *)
LEMMA DisposeKeeps == IInv /\ Dispose => IInv'
<1>. SUFFICES ASSUME IInv, Dispose PROVE IInv'
  OBVIOUS
<1>1. UNCHANGED <<up, generation, opened, owner, helper, seen, bound, active, fired, waiting, op,
                  faults>>
  BY DEF Dispose, mcp, queued
<1>2. CASE shut' = "done" /\ UNCHANGED <<poisoned, timer, closer, line>>
  <2>1. CallInv'
    BY <1>1, <1>2 DEF IInv, CallInv
  <2>. QED
    BY <1>1, <1>2, <2>1, StandKeeps DEF IInv, ManagerTyped, HelperTyped, OpTyped
<1>3. CASE shut' = "closing" /\ active # 0 /\ CloseSession("shut", active) /\ timer' = 0
  <2>1. active \in Sessions
    BY <1>3 DEF IInv, ManagerTyped, Sessions
  <2>2. /\ closer' \in [Actors -> Closers] /\ line' \in [Actors -> Lines]
        /\ poisoned' \subseteq Sessions
        /\ closer'["shut"].session = active
        /\ line'["shut"] = line["shut"] \/ line'["shut"].kind = "close"
        /\ closer'["op"] = closer["op"] /\ line'["op"] = line["op"]
    BY <1>3, <2>1, CloseEffect DEF IInv, Actors
  <2>3. CallInv'
    <3>1. \A a \in Actors : closer'[a].at # "none" => closer'[a].session # 0
      BY <1>3, <2>2 DEF Actors, IInv, CallInv
    <3>. QED
      BY <1>1, <2>2, <3>1 DEF IInv, CallInv
  <2>4. fired' \subseteq Sessions /\ faults' \subseteq Faults \X Sessions
    BY <1>1 DEF IInv, ManagerTyped, HelperTyped
  <2>. QED
    BY <1>1, <1>3, <2>2, <2>3, <2>4, StandKeeps
<1>. QED
  BY <1>2, <1>3 DEF Dispose, calls

LEMMA DisposedKeeps == IInv /\ Disposed => IInv'
<1>. SUFFICES ASSUME IInv, Disposed PROVE IInv'
  OBVIOUS
<1>1. /\ Yields /\ shut' = "done" /\ Closed("shut")
      /\ UNCHANGED <<up, generation, opened, helper, seen, poisoned, bound, fired, waiting, op,
                     line>>
  BY DEF Disposed, mcp, process, queued
<1>2. /\ closer' \in [Actors -> Closers] /\ closer'["shut"].at = "none"
      /\ closer'["op"] = closer["op"]
  BY <1>1, ClosedEffect DEF IInv, Actors
<1>3. CASE UNCHANGED <<owner, active, timer, faults>>
  <2>1. CallInv'
    BY <1>1, <1>2 DEF IInv, CallInv, Actors
  <2>. QED
    BY <1>1, <1>2, <1>3, <2>1, StandKeeps DEF IInv, ManagerTyped, HelperTyped, OpTyped
<1>4. CASE ExitConfirmed("shut") /\ FinalizeExited(closer["shut"].session)
  <2>1. closer["shut"].session \in Sessions
    BY <1>4 DEF ExitConfirmed, IInv, CallInv, OpTyped, Closers, Actors, Sessions
  <2>2. helper[closer["shut"].session] = "dead"
    BY <1>4, <2>1 DEF ExitConfirmed, IsAlive, IInv, HelperInv
  <2>3. \A a \in Actors : closer'[a] = closer[a] \/ closer'[a].at = "none"
    BY <1>2 DEF Actors
  <2>4. /\ seen' \in [Sessions -> {"running", "exited", "closed"}]
        /\ \A m \in Sessions : seen'[m] # "running" => helper[m] = "dead"
    BY <1>1 DEF IInv, HelperTyped, HelperInv
  <2>. QED
    BY <1>1, <1>2, <1>4, <2>1, <2>2, <2>3, <2>4, RetiredKeeps
<1>. QED
  BY <1>3, <1>4 DEF Disposed, manager

LEMMA ExitKeeps == IInv /\ Exit => IInv'
<1>. SUFFICES ASSUME IInv, Exit PROVE IInv'
  OBVIOUS
<1>. USE SessionBoundsOK
<1>1. /\ up' = FALSE /\ active' = 0 /\ timer' = 0 /\ fired' = {} /\ waiting' = {}
      /\ (op' = op /\ op.tool = "foreign") \/ op' = NoOp
      /\ closer' = [a \in Actors |-> NoCloser] /\ line' = [a \in Actors |-> NoLine]
      /\ seen' = [n \in Sessions |-> "running"] /\ poisoned' = {}
      /\ bound' = [n \in Sessions |-> 0] /\ shut' = "done"
      /\ UNCHANGED <<generation, opened, owner, helper, faults>>
  BY DEF Exit
<1>2. /\ op' \in OpRecords /\ op'.session = 0 /\ op'.at \in {"none", "using"}
      /\ op'.tool \in {"none", "foreign"}
      /\ op'.tool = "foreign" => op'.at = "using"
      /\ op'.at = "using" => op' = op
  <2>1. CASE op' = op /\ op.tool = "foreign"
    BY <2>1 DEF IInv, OpTyped, PlaceInv
  <2>2. CASE op' = NoOp
    BY <2>2, IdleEffect
  <2>. QED
    BY <1>1, <2>1, <2>2
<1>3. NoCloser \in Closers /\ NoCloser.at = "none" /\ NoLine \in Lines /\ NoLine.kind = "none"
  BY DEF NoCloser, Closers, NoLine, Lines
<1>4. ~op'.issued
  <2>1. CASE op' = op /\ op.tool = "foreign"
    <3>1. ~op.issued
      BY <2>1 DEF IInv, PlaceInv, ResultInv
    <3>. QED
      BY <2>1, <3>1, Zenon
  <2>2. CASE op' = NoOp
    BY <2>2, IdleEffect
  <2>. QED
    BY <1>1, <2>1, <2>2
<1>5. ManagerTyped'
  <2>1. generation' \in 1 .. MaxGenerations /\ opened' \in 0 .. MaxSessions /\ up' \in BOOLEAN
    BY <1>1 DEF IInv, ManagerTyped
  <2>2. active' \in 0 .. MaxSessions /\ timer' \in {0, active'} /\ fired' \subseteq Sessions
    BY <1>1
  <2>3. waiting' \subseteq Request /\ shut' \in {"open", "closing", "done"}
    BY <1>1
  <2>. QED
    BY <2>1, <2>2, <2>3 DEF ManagerTyped
<1>6. OpTyped'
  BY <1>1, <1>2, <1>3 DEF OpTyped
<1>7. HelperTyped'
  BY <1>1 DEF IInv, HelperTyped
<1>8. HelperInv' /\ ManagerInv' /\ NoLostHelper'
  BY <1>1 DEF IInv, HelperInv, OwnerCoversHelper, ManagerInv, NoLostHelper
<1>9. PlaceInv'
  BY <1>1, <1>2 DEF PlaceInv, RetiredMeansReleased, At
<1>10. CallInv' /\ ResultInv'
  BY <1>1, <1>2, <1>3, <1>4 DEF CallInv, ResultInv, WriteReported, Actors, Commands
<1>11. NoInterleaving'
  BY <1>1, <1>2 DEF IInv, NoInterleaving, At
<1>. QED
  BY <1>5, <1>6, <1>7, <1>8, <1>9, <1>10, <1>11 DEF IInv

LEMMA ForeignUseKeeps == IInv /\ ForeignUse => IInv'
<1>. SUFFICES ASSUME IInv, ForeignUse PROVE IInv'
  OBVIOUS
<1>1. /\ op = NoOp /\ ~OwnerLive /\ owner' = NoOwner
      /\ op' = [NoOp EXCEPT !.tool = "foreign", !.at = "using"]
      /\ UNCHANGED <<up, generation, opened, shut, faults, helper, seen, poisoned, bound,
                     active, timer, fired, waiting, closer, line>>
  BY DEF ForeignUse, rest, mcp, process, manager, queued, calls
<1>2. /\ op' \in OpRecords /\ op'.tool = "foreign" /\ op'.at = "using" /\ op'.session = 0
      /\ op'.issued = FALSE
  <2>1. /\ NoOp \in OpRecords /\ NoOp.session = 0 /\ NoOp.issued = FALSE
    BY SessionBoundsOK DEF NoOp, OpRecords
  <2>2. PICK a : a = [NoOp EXCEPT !.tool = "foreign"]
    OBVIOUS
  <2>3. a \in OpRecords /\ a.tool = "foreign" /\ a.session = 0 /\ a.issued = NoOp.issued
    BY <2>1, <2>2 DEF OpRecords
  <2>4. op' = [a EXCEPT !.at = "using"]
    BY <1>1, <2>2, Zenon
  <2>5. /\ op' \in OpRecords /\ op'.tool = "foreign" /\ op'.at = "using" /\ op'.session = 0
        /\ op'.issued = a.issued
    BY <2>3, <2>4 DEF OpRecords
  <2>. QED
    BY <2>1, <2>3, <2>5, Zenon
<1>3. NoOwner.token = 0 /\ NoOwner \in OwnerRecords /\ opened >= 0
  BY SessionBoundsOK DEF NoOwner, OwnerRecords, IInv, ManagerTyped
<1>4. \A m \in Sessions : helper[m] \notin {"activated", "connected"}
  <2>1. SUFFICES ASSUME NEW m \in Sessions, helper[m] \in {"activated", "connected"} PROVE FALSE
    OBVIOUS
  <2>2. owner = [token |-> m, recorded |-> TRUE] /\ owner.token = m /\ owner # NoOwner
    BY <2>1, ActiveIsOwner
  <2>3. owner.recorded
    BY <2>2
  <2>. QED
    BY <1>1, <2>1, <2>2, <2>3 DEF OwnerLive, Alive
<1>5. active = 0
  <2>1. up => owner = NoOwner
    BY <1>1 DEF OwnerLive
  <2>. QED
    BY <1>3, <2>1 DEF IInv, ManagerInv
<1>6. op.session = 0 /\ op.at = "none"
  BY <1>1 DEF NoOp
<1>7. ManagerTyped' /\ OpTyped' /\ HelperTyped'
  BY <1>1, <1>2, <1>3 DEF IInv, ManagerTyped, OpTyped, HelperTyped
<1>8. HelperInv'
  BY <1>1, <1>3, <1>4 DEF IInv, HelperInv, OwnerCoversHelper
<1>9. ManagerInv'
  BY <1>1, <1>5 DEF IInv, ManagerInv, Gone
<1>10. PlaceInv' /\ NoInterleaving'
  BY <1>1, <1>2, <1>3, <1>4 DEF PlaceInv, RetiredMeansReleased, NoInterleaving, At
<1>11. CallInv'
  BY <1>1, <1>6 DEF IInv, CallInv
<1>12. ResultInv'
  BY <1>2 DEF ResultInv, WriteReported
<1>13. NoLostHelper'
  BY <1>1, <1>6 DEF IInv, NoLostHelper, Alive, Hung, Sessions
<1>. QED
  BY <1>7, <1>8, <1>9, <1>10, <1>11, <1>12, <1>13 DEF IInv

LEMMA ForeignEndsKeeps == IInv /\ ForeignEnds => IInv'
<1>. SUFFICES ASSUME IInv, ForeignEnds PROVE IInv'
  OBVIOUS
<1>1. /\ op.tool = "foreign" /\ op' = NoOp
      /\ UNCHANGED <<up, generation, opened, shut, faults, owner, helper, seen, poisoned, bound,
                     active, timer, fired, waiting, closer, line>>
  BY DEF ForeignEnds, rest, mcp, process, manager, queued, calls
<1>2. op.at = "using"
  BY <1>1 DEF IInv, PlaceInv
<1>3. /\ closer["op"].at = "none" /\ poisoned \subseteq Sessions
      /\ faults \subseteq Faults \X Sessions /\ closer \in [Actors -> Closers]
  BY <1>2 DEF IInv, CallInv, OpTyped, HelperTyped, Closers, Actors
<1>. QED
  BY <1>1, <1>2, <1>3, EndsKeeps

-----------------------------------------------------------------------------
LEMMA Invariance == Spec => []IInv
<1>1. IInv /\ [Next]_vars => IInv'
  <2>1. SUFFICES ASSUME IInv, [Next]_vars PROVE IInv'
    OBVIOUS
  <2>2. ASSUME NEW n \in Sessions,
               \/ HelperConnects(n) \/ HelperExits(n) \/ HelperHangs(n) \/ ExitEvent(n)
               \/ CloseEvent(n) \/ UnboundOutput(n) \/ IdleTurn(n)
        PROVE  IInv'
    BY <2>1, <2>2, HelperConnectsKeeps, HelperExitsKeeps, HelperHangsKeeps, ExitEventKeeps,
       CloseEventKeeps, UnboundOutputKeeps, IdleTurnKeeps
  <2>3. ASSUME NEW w \in waiting,
               \/ Refuse(w) \/ Reuse(w) \/ Replace(w) \/ Open(w) \/ UseDirectly(w)
               \/ CloseForTarget(w)
        PROVE  IInv'
    BY <2>1, <2>3, RefuseKeeps, ReuseKeeps, ReplaceKeeps, OpenKeeps, UseDirectlyKeeps,
       CloseForTargetKeeps
  <2>4. ASSUME Operation PROVE IInv'
    BY <2>1, <2>4, ClaimOwnerKeeps, NoSessionKeeps, SpawnKeeps, RecordHelperKeeps,
       ActivateKeeps, StartupFailsKeeps, OpenedKeeps, CommandEndsKeeps, FinishKeeps,
       RetireKeeps, StateObservedKeeps, CloseObservedKeeps, ClosedForOperationKeeps,
       NotClosedForOperationKeeps, ForeignEndsKeeps DEF Operation
  <2>5. ASSUME \/ HelperServes \/ TimerFires \/ Dispose \/ Disposed \/ Exit \/ ForeignUse
        PROVE  IInv'
    BY <2>1, <2>5, HelperServesKeeps, TimerFiresKeeps, DisposeKeeps, DisposedKeeps, ExitKeeps,
       ForeignUseKeeps
  <2>6. ASSUME \/ \E a \in Actors : CloseAsked(a)
               \/ \E tool \in Tools : Arrive(tool)
               \/ \E command \in {"write", "reset"} : Command(command)
        PROVE  IInv'
    BY <2>1, <2>6, CloseAskedKeeps, ArriveKeeps, CommandKeeps
  <2>7. ASSUME UNCHANGED vars PROVE IInv'
    <3>1. UNCHANGED <<up, generation, opened, shut, faults, owner, helper, seen, poisoned, bound,
                      active, timer, fired, waiting, closer, line, op>>
      BY <2>7 DEF vars, mcp, process, manager, queued, calls
    <3>2. CallInv'
      BY <2>1, <3>1 DEF IInv, CallInv
    <3>. QED
      BY <2>1, <3>1, <3>2, StandKeeps DEF IInv, ManagerTyped, HelperTyped, OpTyped
  <2>. QED
    BY <2>1, <2>2, <2>3, <2>4, <2>5, <2>6, <2>7 DEF Next
<1>. QED
  BY <1>1, InitIInv, PTL DEF Spec

(* The owner record stands while a helper may reach the Probe, also when   *)
(* the MCP process is gone, and a session reported retired has left none   *)
(* (memory-session.ts: claim, onStarted, finalizeExited, abandonClaimed).  *)
THEOREM HelpersAreCovered == Spec => []HelperCovered
<1>1. IInv => HelperCovered
  <2>1. SUFFICES ASSUME IInv PROVE HelperCovered
    OBVIOUS
  <2>2. TypeOK
    BY <2>1 DEF IInv, ManagerTyped, OpTyped, HelperTyped, TypeOK, OpRecords, OwnerRecords,
                Closers, Lines, HelperStates
  <2>3. OwnerCoversHelper /\ RetiredMeansReleased
    BY <2>1 DEF IInv, HelperInv, PlaceInv
  <2>. QED
    BY <2>2, <2>3 DEF HelperCovered
<1>. QED
  BY <1>1, Invariance, PTL

(* Nobody uses the Probe beside a helper (closeForTarget, runExclusive's   *)
(* admission, and the claim of another process).                           *)
THEOREM NobodyInterleaves == Spec => []NoInterleaving
<1>1. IInv => NoInterleaving
  BY DEF IInv
<1>. QED
  BY <1>1, Invariance, PTL

(* A helper that runs is the active session's, or an operation has it in   *)
(* hand, or it does not end (probeFor, close, finalizeExited).             *)
THEOREM NoHelperIsLost == Spec => []NoLostHelper
<1>1. IInv => NoLostHelper
  BY DEF IInv
<1>. QED
  BY <1>1, Invariance, PTL

(* What a command did to the target is in its result (withDispatchFact and *)
(* the callers of the persistent session).                                 *)
THEOREM WritesAreReported == Spec => []WriteReported
<1>1. IInv => WriteReported
  BY DEF IInv, ResultInv
<1>. QED
  BY <1>1, Invariance, PTL
=============================================================================
